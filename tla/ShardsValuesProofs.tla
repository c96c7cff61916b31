------------------------- MODULE ShardsValuesProofs -------------------------
(***************************************************************************)
(* Proofs about two components that have nothing in common, the registry   *)
(* of shards and the value types, in two parts.                            *)
(*                                                                         *)
(* Shards.  A Walk sees one state of the registry from its beginning to    *)
(* its end, whatever the goroutines, the shards and what the callbacks     *)
(* call.                                                                   *)
(*                                                                         *)
(* Values.  However many variables there are, what one stores or sends     *)
(* arrives at another, and an error shows no value that was not there.     *)
(* The table of types is read once, by TableLaw; what follows uses the     *)
(* laws and no row.                                                        *)
(***************************************************************************)
EXTENDS Shards, Values, TLAPS

(***************************************************************************)
(* Shards.                                                                 *)
(***************************************************************************)
LEMMA InitInv == Init => Inv
  <1> SUFFICES ASSUME Init PROVE Inv
    OBVIOUS
  <1> USE NoProcAssumption DEF Init, MutexInit
  <1>1. TypeOK
    <2>1. walk \in [Procs -> [on : BOOLEAN, start : [Ids -> Nat] \cup {<<>>}, todo : SUBSET Ids]]
      BY DEF NotWalking
    <2> QED
      BY <2>1 DEF TypeOK, MutexTypeOK, NoStore
  <1>2. Located /\ ReadersKnown /\ WalkIsASnapshot
    BY DEF Located, ReadersKnown, WalkIsASnapshot, Entered, NotWalking
  <1> QED
    BY <1>1, <1>2 DEF Inv

\* A call that begins holds no lock yet.
LEMMA CallInv ==
  ASSUME Inv, NEW p \in Procs, NEW o \in Ops, NEW i \in Ids \cup {NoId}, Call(p, o, i)
  PROVE  Inv'
  <1> USE NoProcAssumption DEF Inv, Call, Goto, mutexVars
  <1>1. TypeOK'
    BY DEF TypeOK, MutexTypeOK
  <1>2. Located'
    BY CallbackOpsAssumption DEF Located, TypeOK, Ops
  <1>3. ReadersKnown'
    BY DEF ReadersKnown, Entered, TypeOK
  <1>4. WalkIsASnapshot'
    BY DEF WalkIsASnapshot
  <1> QED
    BY <1>1, <1>2, <1>3, <1>4

LEMMA EnterInv ==
  ASSUME Inv, NEW p \in Procs, Enter(p)
  PROVE  Inv'
  <1> USE NoProcAssumption DEF Inv, TypeOK, MutexTypeOK
  <1>1. /\ pc[p] = "call"
        /\ pc' = [pc EXCEPT ![p] = "entered"]
        /\ m' = m /\ made' = made /\ op' = op /\ id' = id /\ walk' = walk
    BY DEF Enter, Goto
  <1>2. WalkIsASnapshot'
    BY <1>1 DEF WalkIsASnapshot
  <1>3. CASE op[p] \in {"lookup", "walk"} /\ writing = NoProc
    <2>1. /\ reading' = [reading EXCEPT ![p] = @ + 1]
          /\ writing' = writing /\ queued' = queued
      BY <1>3 DEF Enter, RLock
    <2>2. TypeOK'
      BY <1>1, <2>1
    <2>3. Located'
      BY <1>1, <1>3, <2>1 DEF Located
    <2>4. ReadersKnown'
      BY <1>1, <1>3, <2>1 DEF ReadersKnown, Entered
    <2> QED
      BY <1>2, <2>2, <2>3, <2>4
  <1>4. CASE op[p] \in {"lookup", "walk"} /\ writing # NoProc
    <2>1. /\ queued' = queued \cup {p}
          /\ writing' = writing /\ reading' = reading
      BY <1>4 DEF Enter, RLock
    <2>2. TypeOK'
      BY <1>1, <2>1
    <2>3. Located'
      BY <1>1, <1>4, <2>1 DEF Located
    <2>4. ReadersKnown'
      BY <1>1, <1>4, <2>1 DEF ReadersKnown, Entered
    <2> QED
      BY <1>2, <2>2, <2>3, <2>4
  <1>5. CASE op[p] \notin {"lookup", "walk"}
    <2>1. /\ writing = NoProc /\ writing' = p
          /\ queued' = queued /\ reading' = reading
      BY <1>5 DEF Enter, Lock
    <2>2. TypeOK'
      BY <1>1, <2>1
    <2>3. Located'
      BY <1>1, <1>5, <2>1 DEF Located, Ops
    <2>4. ReadersKnown'
      BY <1>1, <1>5, <2>1 DEF ReadersKnown, Entered
    <2> QED
      BY <1>2, <2>2, <2>3, <2>4
  <1> QED
    BY <1>3, <1>4, <1>5

\* A lookup and a Walk let go of their read lock.
LEMMA ShardByIDInv ==
  ASSUME Inv, NEW p \in Procs, ShardByID(p)
  PROVE  Inv'
  <1> USE NoProcAssumption DEF Inv, TypeOK, MutexTypeOK
  <1>1. /\ pc[p] = "entered" /\ op[p] = "lookup" /\ p \notin queued
        /\ pc' = [pc EXCEPT ![p] = IF walk[p].on THEN "callback" ELSE "idle"]
        /\ op' = [op EXCEPT ![p] = "none"]
        /\ id' = [id EXCEPT ![p] = NoId]
        /\ reading' = [reading EXCEPT ![p] = @ - 1]
        /\ writing' = writing /\ queued' = queued
        /\ m' = m /\ made' = made /\ walk' = walk
    BY DEF ShardByID, RUnlock, HasRLock, Return, Goto
  <1>2. reading[p] = (IF walk[p].on THEN 1 ELSE 0) + 1
    BY <1>1 DEF ReadersKnown, Entered
  <1>3. TypeOK'
    BY <1>1, <1>2
  <1>4. Located'
    BY <1>1 DEF Located
  <1>5. ReadersKnown'
    BY <1>1, <1>2 DEF ReadersKnown, Entered
  <1>6. WalkIsASnapshot'
    BY <1>1 DEF WalkIsASnapshot
  <1> QED
    BY <1>3, <1>4, <1>5, <1>6

\* Nobody walks while a writer changes the map.
LEMMA WriterInv ==
  ASSUME Inv, NEW p \in Procs,
         pc[p] = "entered", op[p] \in {"set", "delete"}, HasLock(p),
         made' \in Nat, m' \in [Ids -> 0 .. made'],
         Unlock(p), Return(p), walk' = walk
  PROVE  Inv'
  <1> USE NoProcAssumption DEF Inv, TypeOK, MutexTypeOK
  <1>1. /\ pc' = [pc EXCEPT ![p] = IF walk[p].on THEN "callback" ELSE "idle"]
        /\ op' = [op EXCEPT ![p] = "none"]
        /\ id' = [id EXCEPT ![p] = NoId]
        /\ writing' = NoProc /\ queued' = {}
        /\ reading' = [q \in Procs |-> IF q \in queued THEN reading[q] + 1 ELSE reading[q]]
    BY DEF Return, Goto, Unlock
  <1>2. \A q \in Procs : ~walk[q].on /\ reading[q] = 0
    <2> SUFFICES ASSUME NEW q \in Procs PROVE ~walk[q].on /\ reading[q] = 0
      OBVIOUS
    <2>1. reading[q] = 0
      BY DEF HasLock
    <2> QED
      BY <2>1 DEF ReadersKnown, Entered
  <1>3. TypeOK'
    <2>1. reading' \in [Procs -> Nat]
      BY <1>1
    <2>2. /\ pc' \in [Procs -> {"idle", "call", "entered", "range", "callback"}]
          /\ op' \in [Procs -> Ops \cup {"none"}]
          /\ id' \in [Procs -> Ids \cup {NoId}]
      BY <1>1
    <2> QED
      BY <1>1, <2>1, <2>2
  <1>4. Located'
    BY <1>1 DEF Located, HasLock
  <1>5. ReadersKnown'
    <2>1. \A q \in queued : q # p
      BY DEF ReadersKnown, Entered
    <2> QED
      BY <1>1, <1>2, <2>1 DEF ReadersKnown, Entered
  <1>6. WalkIsASnapshot'
    BY <1>2 DEF WalkIsASnapshot
  <1> QED
    BY <1>3, <1>4, <1>5, <1>6

LEMMA SetShardInv ==
  ASSUME Inv, NEW p \in Procs, SetShard(p)
  PROVE  Inv'
  <1>1. made \in Nat /\ m \in [Ids -> 0 .. made] /\ id[p] \in Ids
    BY DEF Inv, TypeOK, Located, SetShard
  <1>2. /\ pc[p] = "entered" /\ op[p] \in {"set", "delete"} /\ HasLock(p)
        /\ Unlock(p) /\ Return(p) /\ walk' = walk
    BY DEF SetShard
  <1>3. made' \in Nat /\ m' \in [Ids -> 0 .. made']
    BY <1>1 DEF SetShard
  <1> QED
    BY <1>2, <1>3, WriterInv

LEMMA SetShardPanicsInv ==
  ASSUME Inv, NEW p \in Procs, SetShardPanics(p)
  PROVE  Inv'
  <1>1. made \in Nat /\ m \in [Ids -> 0 .. made] /\ id[p] \in Ids
    BY DEF Inv, TypeOK, Located, SetShardPanics
  <1>2. /\ pc[p] = "entered" /\ op[p] \in {"set", "delete"} /\ HasLock(p)
        /\ Unlock(p) /\ Return(p) /\ walk' = walk
    BY DEF SetShardPanics
  <1>3. made' \in Nat /\ m' \in [Ids -> 0 .. made']
    BY <1>1 DEF SetShardPanics
  <1> QED
    BY <1>2, <1>3, WriterInv

LEMMA DeleteShardInv ==
  ASSUME Inv, NEW p \in Procs, DeleteShard(p)
  PROVE  Inv'
  <1>1. made \in Nat /\ m \in [Ids -> 0 .. made] /\ id[p] \in Ids
    BY DEF Inv, TypeOK, Located, DeleteShard
  <1>2. /\ pc[p] = "entered" /\ op[p] \in {"set", "delete"} /\ HasLock(p)
        /\ Unlock(p) /\ Return(p) /\ walk' = walk
    BY DEF DeleteShard
  <1>3. made' \in Nat /\ m' \in [Ids -> 0 .. made']
    BY <1>1 DEF DeleteShard, NoStore
  <1> QED
    BY <1>2, <1>3, WriterInv

LEMMA WalkBeginsInv ==
  ASSUME Inv, NEW p \in Procs, WalkBegins(p)
  PROVE  Inv'
  <1> USE NoProcAssumption DEF Inv, TypeOK, MutexTypeOK
  <1> DEFINE w == [on |-> TRUE, start |-> m, todo |-> Present]
  <1>1. /\ pc[p] = "entered" /\ op[p] = "walk" /\ p \notin queued
        /\ walk' = [walk EXCEPT ![p] = w]
        /\ pc' = [pc EXCEPT ![p] = "range"]
        /\ op' = [op EXCEPT ![p] = "none"]
        /\ id' = [id EXCEPT ![p] = NoId]
        /\ UNCHANGED <<reading, writing, queued, m, made>>
    BY DEF WalkBegins, HasRLock, Goto, mutexVars
  <1>2. ~walk[p].on /\ reading[p] = 1
    BY <1>1 DEF Located, ReadersKnown, Entered
  <1>3. w \in [on : BOOLEAN, start : [Ids -> Nat] \cup {<<>>}, todo : SUBSET Ids]
    BY DEF Present
  <1> HIDE DEF w
  <1>4. TypeOK'
    BY <1>1, <1>3
  <1>5. w.on /\ w.start = m
    BY DEF w
  <1>6. Located'
    BY <1>1, <1>5 DEF Located
  <1>7. ReadersKnown'
    BY <1>1, <1>2, <1>5 DEF ReadersKnown, Entered
  <1>8. WalkIsASnapshot'
    BY <1>1, <1>5 DEF WalkIsASnapshot
  <1> QED
    BY <1>4, <1>6, <1>7, <1>8

LEMMA LessToDo ==
  ASSUME NEW S, NEW I, NEW w \in [on : BOOLEAN, start : S, todo : SUBSET I], NEW i
  PROVE  [w EXCEPT !.todo = @ \ {i}] \in [on : BOOLEAN, start : S, todo : SUBSET I]
  OBVIOUS

LEMMA WalkNextInv ==
  ASSUME Inv, NEW p \in Procs, WalkNext(p)
  PROVE  Inv'
  <1> USE NoProcAssumption DEF Inv, TypeOK, MutexTypeOK
  <1>1. PICK i \in walk[p].todo : walk' = [walk EXCEPT ![p].todo = @ \ {i}]
    BY DEF WalkNext
  <1>2. /\ pc[p] = "range"
        /\ pc' = [pc EXCEPT ![p] = "callback"]
        /\ UNCHANGED <<reading, writing, queued, m, made, op, id>>
    BY DEF WalkNext, Goto, mutexVars
  <1>3. \A q \in Procs : walk'[q].on = walk[q].on /\ walk'[q].start = walk[q].start
    BY <1>1
  <1>4. TypeOK'
    <2>1. walk' \in [Procs -> [on : BOOLEAN, start : [Ids -> Nat] \cup {<<>>}, todo : SUBSET Ids]]
      <3>1. walk[p] \in [on : BOOLEAN, start : [Ids -> Nat] \cup {<<>>}, todo : SUBSET Ids]
        OBVIOUS
      <3>2. [walk[p] EXCEPT !.todo = @ \ {i}] \in [on : BOOLEAN, start : [Ids -> Nat] \cup {<<>>}, todo : SUBSET Ids]
        BY <3>1, LessToDo
      <3> QED
        BY <1>1, <3>2
    <2>2. pc' \in [Procs -> {"idle", "call", "entered", "range", "callback"}]
      BY <1>2
    <2> QED
      BY <1>2, <2>1, <2>2
  <1>5. Located'
    BY <1>2, <1>3 DEF Located
  <1>6. ReadersKnown'
    BY <1>2, <1>3 DEF ReadersKnown, Entered
  <1>7. WalkIsASnapshot'
    BY <1>2, <1>3 DEF WalkIsASnapshot
  <1> QED
    BY <1>4, <1>5, <1>6, <1>7

LEMMA CallbackReturnsInv ==
  ASSUME Inv, NEW p \in Procs, CallbackReturns(p)
  PROVE  Inv'
  BY DEF Inv, TypeOK, MutexTypeOK, Located, ReadersKnown, WalkIsASnapshot, Entered,
         CallbackReturns, Goto, mutexVars

LEMMA WalkEndsInv ==
  ASSUME Inv, NEW p \in Procs, WalkEnds(p)
  PROVE  Inv'
  <1> USE NoProcAssumption DEF Inv, TypeOK, MutexTypeOK
  <1>1. /\ pc[p] \in {"range", "callback"}
        /\ walk' = [walk EXCEPT ![p] = NotWalking]
        /\ pc' = [pc EXCEPT ![p] = "idle"]
        /\ reading' = [reading EXCEPT ![p] = @ - 1]
        /\ UNCHANGED <<writing, queued, m, made, op, id>>
    BY DEF WalkEnds, RUnlock, Goto
  <1>2. walk[p].on /\ reading[p] = 1
    <2>1. walk[p].on /\ ~Entered(p)
      BY <1>1 DEF Located, Entered
    <2> QED
      BY <2>1 DEF ReadersKnown
  <1>3. /\ NotWalking \in [on : BOOLEAN, start : [Ids -> Nat] \cup {<<>>}, todo : SUBSET Ids]
        /\ ~NotWalking.on
    BY DEF NotWalking
  <1>4. TypeOK'
    BY <1>1, <1>2, <1>3
  <1>5. Located'
    BY <1>1, <1>3 DEF Located
  <1>6. ReadersKnown'
    BY <1>1, <1>2, <1>3 DEF ReadersKnown, Entered
  <1>7. WalkIsASnapshot'
    BY <1>1, <1>3 DEF WalkIsASnapshot
  <1> QED
    BY <1>4, <1>5, <1>6, <1>7

LEMMA StutterInv == Inv /\ UNCHANGED vars => Inv'
  BY DEF vars, mutexVars, Inv, TypeOK, MutexTypeOK, Located, ReadersKnown,
         WalkIsASnapshot, Entered

\* Goroutines hold the locks that their position says.
THEOREM InvHolds == Spec => []Inv
  <1>1. Inv /\ [Next]_vars => Inv'
    BY CallInv, EnterInv, ShardByIDInv, SetShardInv, SetShardPanicsInv, DeleteShardInv, WalkBeginsInv,
       WalkNextInv, CallbackReturnsInv, WalkEndsInv, StutterInv
    DEF Next, Step
  <1> QED
    BY <1>1, InitInv, PTL DEF Spec

\* The registry does not change while a Walk runs (shards.go:89).
THEOREM WalkIsASnapshotHolds == Spec => []WalkIsASnapshot
  <1>1. Inv => WalkIsASnapshot
    BY DEF Inv
  <1> QED
    BY <1>1, InvHolds, PTL

\* A writer that holds the lock goes on, and one that waits for readers waits for
\* one that can.
LEMMA SomeoneCan == Inv => SomeoneCanGoOn
  <1> SUFFICES ASSUME Inv, \A p \in Procs : walk[p].on => op[p] = "none",
                      NEW p \in Procs, pc[p] # "idle"
               PROVE  \E q \in Procs : CanGoOn(q)
    BY DEF SomeoneCanGoOn
  <1> USE NoProcAssumption DEF Inv, Located
  <1>1. CASE writing = NoProc
    <2>1. queued = {} /\ ~(pc[p] = "entered" /\ op[p] \in {"set", "delete"})
      BY <1>1 DEF ReadersKnown
    <2>2. /\ pc[p] \in {"idle", "call", "entered", "range", "callback"}
          /\ op[p] \in {"lookup", "set", "delete", "walk", "none"}
      BY DEF TypeOK, Ops
    <2> QED
      BY <1>1, <2>1, <2>2 DEF CanGoOn, HasRLock
  <1>2. CASE writing # NoProc
    <2>1. PICK w \in Procs : writing = w
      BY <1>2 DEF TypeOK, MutexTypeOK
    <2>2. pc[w] = "entered" /\ op[w] \in {"set", "delete"}
      BY <2>1
    <2>3. CASE \A q \in Procs : reading[q] = 0
      BY <2>1, <2>2, <2>3 DEF CanGoOn, HasLock
    <2>4. CASE \E q \in Procs : reading[q] # 0
      <3>1. PICK q \in Procs : reading[q] # 0
        BY <2>4
      <3>2. walk[q].on \/ (Entered(q) /\ q \notin queued)
        BY <3>1 DEF ReadersKnown
      <3>3. CASE Entered(q) /\ q \notin queued
        BY <3>3 DEF Entered, CanGoOn, HasRLock
      <3>4. CASE walk[q].on
        <4>1. pc[q] \in {"range", "callback"}
          BY <3>4 DEF TypeOK
        <4> QED
          BY <4>1 DEF CanGoOn
      <3> QED
        BY <3>2, <3>3, <3>4
    <2> QED
      BY <2>3, <2>4
  <1> QED
    BY <1>1, <1>2

\* No goroutine in the registry waits for one that waits for it, unless a callback
\* of Walk uses the registry (shards.go:90).
THEOREM SomeoneCanGoOnHolds == Spec => []SomeoneCanGoOn
  <1> QED
    BY InvHolds, SomeoneCan, PTL

-----------------------------------------------------------------------------
(***************************************************************************)
(* Values.  The table of types first: what its columns range over, and the *)
(* laws that every row keeps to.                                           *)
(***************************************************************************)
OutcomeSet ==
    [val : {"old", "new", "zero", "nought"}, valid : {"yes", "no", "old"}, err : BOOLEAN]

Sources == {"null", "empty", "bad", "other", "good"}

Texts == {"null", "empty", "bad", "good"}

Families == {"int", "bool", "float", "string", "time", "decimal", "uuid", "xid", "json",
             "strings", "uuids", "numbers", "map"}

Forms == {"plain", "base58", "prefixed"}

\* A reading may make NULL a value again without a new one.
Reviving(t) ==
    \/ \E w \in Sources : t.scan[w].val = "old" /\ t.scan[w].valid = "yes"
    \/ \E w \in Texts : t.json[w].val = "old" /\ t.json[w].valid = "yes"

\* What every cell of the table keeps to.
OutcomeLaw(n, t, o) ==
    /\ o \in OutcomeSet
    /\ o.valid = "no" => t.nullable /\ o.val \in {"zero", "old"}
    /\ o.valid = "old" => o.val = "old"
    /\ o.val = "old" /\ o.valid = "no" => o.err /\ ~Reviving(t)
    /\ o.err => o.val \in {"old", "zero"} \/ n = "Text"
    /\ o.val = "old" /\ ~o.err => t.family # "json" /\ Deaf(t)
    /\ o.val = "nought" => t.family = "decimal"

\* What NULL becomes: NULL where the type has it, and zero where it has not.
NullOutcomes(t) == IF t.nullable THEN {Nil} ELSE {Zero, Nought}

\* The types whose Scan cannot be relied on.
Silent == {"Text", "XIDJsonTyped"}

\* What every row of Scan keeps to, n being the name of the type.
ScanLaw(n, t) ==
    /\ \A w \in Sources : OutcomeLaw(n, t, t.scan[w])
    /\ n \notin Silent /\ ~Deaf(t) => t.scan["null"] \in NullOutcomes(t)
    /\ t.scan["null"].val # "new"
    /\ t.family = "string" /\ n \notin Silent => t.scan["empty"] = Got
    /\ t.scan["bad"].err \/ t.family = "string"
    /\ t.scan["other"].val = "new" => t.family = "string"
    /\ ~t.scan["other"].err => t.scan["other"] = IF t.family = "string" THEN Got ELSE Keep
    /\ IF n \in Silent THEN t.scan["good"].err ELSE t.scan["good"] = Got

\* What every row of UnmarshalJSON keeps to.
JsonLaw(n, t) ==
    /\ \A w \in Texts : OutcomeLaw(n, t, t.json[w])
    /\ n # "Text" => t.json["null"] \in NullOutcomes(t)
    /\ t.json["null"].val # "new"
    /\ t.family = "string" => t.json["empty"] = Got
    /\ t.json["bad"].err
    /\ t.json["good"] = Got

\* A JsonB has no prefix: a text that it reads is never used up.
Law(n, t) ==
    /\ t.family \in Families
    /\ t.nullable \in BOOLEAN
    /\ t.form \in Forms
    /\ t.sentNull \subseteq {"zero"}
    /\ t.storedNull \subseteq {"zero"}
    /\ t.family = "json" => t.form # "prefixed" /\ ~Reviving(t)
    /\ ScanLaw(n, t)
    /\ JsonLaw(n, t)

LEMMA OutcomesAre ==
    /\ {Got, Zero, Nil, Keep, Valid, Fails, FailsValid, FailsNull, FailsZero, FailsNil, FailsGot, Nought}
          \subseteq OutcomeSet
    /\ Got.val = "new" /\ Got.valid = "yes" /\ ~Got.err
    /\ Zero.val = "zero" /\ Zero.valid = "yes" /\ ~Zero.err
    /\ Nought.val = "nought" /\ Nought.valid = "yes" /\ ~Nought.err
    /\ Nil.val = "zero" /\ Nil.valid = "no" /\ ~Nil.err
    /\ Keep.val = "old" /\ Keep.valid = "old" /\ ~Keep.err
    /\ Valid.val = "old" /\ Valid.valid = "yes" /\ ~Valid.err
    /\ Fails.val = "old" /\ Fails.valid = "old" /\ Fails.err
    /\ FailsValid.val = "old" /\ FailsValid.valid = "yes" /\ FailsValid.err
    /\ FailsNull.val = "old" /\ FailsNull.valid = "no" /\ FailsNull.err
    /\ FailsZero.val = "zero" /\ FailsZero.valid = "yes" /\ FailsZero.err
    /\ FailsNil.val = "zero" /\ FailsNil.valid = "no" /\ FailsNil.err
    /\ FailsGot.val = "new" /\ FailsGot.valid = "yes" /\ FailsGot.err
  BY DEF OutcomeSet, Outcome, Got, Zero, Nil, Keep, Valid, Fails, FailsValid, FailsNull, FailsZero,
         FailsNil, FailsGot, Nought

\* The columns of a row, by name: a row satisfies Law if its columns are one
\* of the patterns of the lemmas below.
Frame(t, family, nullable) ==
    /\ t.family = family
    /\ t.nullable = nullable
    /\ t.sentNull \subseteq {"zero"}
    /\ t.storedNull \subseteq {"zero"}
    /\ t.form \in Forms
    /\ family = "json" => t.form = "plain"

ScanOf(t, null, empty, bad, other, good) ==
    /\ t.scan \in [Sources -> OutcomeSet]
    /\ t.scan["null"] = null /\ t.scan["empty"] = empty /\ t.scan["bad"] = bad
    /\ t.scan["other"] = other /\ t.scan["good"] = good

JsonOf(t, null, empty, bad) ==
    /\ t.json \in [Texts -> OutcomeSet]
    /\ t.json["null"] = null /\ t.json["empty"] = empty /\ t.json["bad"] = bad
    /\ t.json["good"] = Got

-----------------------------------------------------------------------------

\* One lemma for each pattern of rows, named for the first type that has it.
LEMMA LawOfInt64 ==
  ASSUME NEW t, NEW n, n \notin Silent, NEW family \in {"int", "bool", "float"},
         Frame(t, family, FALSE), ScanOf(t, Zero, Fails, Fails, Fails, Got), JsonOf(t, Zero, Fails, Fails)
  PROVE  Law(n, t)
  <1> USE OutcomesAre DEF ScanOf, JsonOf, Frame, Sources, Texts, Silent
  <1>1. ~Reviving(t)
    BY DEF Reviving
  <1>2. ScanLaw(n, t)
    BY <1>1 DEF ScanLaw, OutcomeLaw, NullOutcomes, Deaf
  <1>3. JsonLaw(n, t)
    BY <1>1 DEF JsonLaw, OutcomeLaw, NullOutcomes, Deaf
  <1> QED
    BY <1>1, <1>2, <1>3 DEF Law, Families

LEMMA LawOfNullInt64 ==
  ASSUME NEW t, NEW n, n \notin Silent, NEW family \in {"int", "bool", "float"},
         Frame(t, family, TRUE), ScanOf(t, Nil, FailsValid, FailsValid, FailsValid, Got), JsonOf(t, Nil, Fails, Fails)
  PROVE  Law(n, t)
  <1> USE OutcomesAre DEF ScanOf, JsonOf, Frame, Sources, Texts, Silent
  <1>1. Reviving(t)
    BY DEF Reviving
  <1>2. ScanLaw(n, t)
    BY <1>1 DEF ScanLaw, OutcomeLaw, NullOutcomes, Deaf
  <1>3. JsonLaw(n, t)
    BY <1>1 DEF JsonLaw, OutcomeLaw, NullOutcomes, Deaf
  <1> QED
    BY <1>1, <1>2, <1>3 DEF Law, Families

LEMMA LawOfFDInt64 ==
  ASSUME NEW t, NEW n, n \notin Silent,
         Frame(t, "int", TRUE), ScanOf(t, Nil, Fails, Fails, Fails, Got), JsonOf(t, Nil, FailsNull, FailsNull)
  PROVE  Law(n, t)
  <1> USE OutcomesAre DEF ScanOf, JsonOf, Frame, Sources, Texts, Silent
  <1>1. ~Reviving(t)
    BY DEF Reviving
  <1>2. ScanLaw(n, t)
    BY <1>1 DEF ScanLaw, OutcomeLaw, NullOutcomes, Deaf
  <1>3. JsonLaw(n, t)
    BY <1>1 DEF JsonLaw, OutcomeLaw, NullOutcomes, Deaf
  <1> QED
    BY <1>1, <1>2, <1>3 DEF Law, Families

LEMMA LawOfString ==
  ASSUME NEW t, NEW n, n \notin Silent,
         Frame(t, "string", FALSE), ScanOf(t, Zero, Got, Got, Got, Got), JsonOf(t, Zero, Got, Fails)
  PROVE  Law(n, t)
  <1> USE OutcomesAre DEF ScanOf, JsonOf, Frame, Sources, Texts, Silent
  <1>1. ~Reviving(t)
    BY DEF Reviving
  <1>2. ScanLaw(n, t)
    BY <1>1 DEF ScanLaw, OutcomeLaw, NullOutcomes, Deaf
  <1>3. JsonLaw(n, t)
    BY <1>1 DEF JsonLaw, OutcomeLaw, NullOutcomes, Deaf
  <1> QED
    BY <1>1, <1>2, <1>3 DEF Law, Families

LEMMA LawOfNullString ==
  ASSUME NEW t, NEW n, n \notin Silent,
         Frame(t, "string", TRUE), ScanOf(t, Nil, Got, Got, Got, Got), JsonOf(t, Nil, Got, Fails)
  PROVE  Law(n, t)
  <1> USE OutcomesAre DEF ScanOf, JsonOf, Frame, Sources, Texts, Silent
  <1>1. ~Reviving(t)
    BY DEF Reviving
  <1>2. ScanLaw(n, t)
    BY <1>1 DEF ScanLaw, OutcomeLaw, NullOutcomes, Deaf
  <1>3. JsonLaw(n, t)
    BY <1>1 DEF JsonLaw, OutcomeLaw, NullOutcomes, Deaf
  <1> QED
    BY <1>1, <1>2, <1>3 DEF Law, Families

LEMMA LawOfText ==
  ASSUME NEW t,
         Frame(t, "string", FALSE), ScanOf(t, Keep, Keep, FailsGot, Fails, FailsGot), JsonOf(t, Keep, Got, Fails)
  PROVE  Law("Text", t)
  <1> USE OutcomesAre DEF ScanOf, JsonOf, Frame, Sources, Texts, Silent
  <1>1. ~Reviving(t)
    BY DEF Reviving
  <1>2. ScanLaw("Text", t)
    BY <1>1 DEF ScanLaw, OutcomeLaw, NullOutcomes, Deaf
  <1>3. JsonLaw("Text", t)
    BY <1>1 DEF JsonLaw, OutcomeLaw, NullOutcomes, Deaf
  <1> QED
    BY <1>1, <1>2, <1>3 DEF Law, Families

LEMMA LawOfTime ==
  ASSUME NEW t, NEW n, n \notin Silent,
         Frame(t, "time", FALSE), ScanOf(t, Zero, FailsZero, FailsZero, Fails, Got), JsonOf(t, Zero, Zero, Fails)
  PROVE  Law(n, t)
  <1> USE OutcomesAre DEF ScanOf, JsonOf, Frame, Sources, Texts, Silent
  <1>1. ~Reviving(t)
    BY DEF Reviving
  <1>2. ScanLaw(n, t)
    BY <1>1 DEF ScanLaw, OutcomeLaw, NullOutcomes, Deaf
  <1>3. JsonLaw(n, t)
    BY <1>1 DEF JsonLaw, OutcomeLaw, NullOutcomes, Deaf
  <1> QED
    BY <1>1, <1>2, <1>3 DEF Law, Families

LEMMA LawOfNullTime ==
  ASSUME NEW t, NEW n, n \notin Silent,
         Frame(t, "time", TRUE), ScanOf(t, Nil, FailsNil, FailsNil, FailsNull, Got), JsonOf(t, Nil, Zero, FailsNull)
  PROVE  Law(n, t)
  <1> USE OutcomesAre DEF ScanOf, JsonOf, Frame, Sources, Texts, Silent
  <1>1. ~Reviving(t)
    BY DEF Reviving
  <1>2. ScanLaw(n, t)
    BY <1>1 DEF ScanLaw, OutcomeLaw, NullOutcomes, Deaf
  <1>3. JsonLaw(n, t)
    BY <1>1 DEF JsonLaw, OutcomeLaw, NullOutcomes, Deaf
  <1> QED
    BY <1>1, <1>2, <1>3 DEF Law, Families

LEMMA LawOfFDTime ==
  ASSUME NEW t, NEW n, n \notin Silent,
         Frame(t, "time", TRUE), ScanOf(t, Nil, Fails, Fails, Fails, Got), JsonOf(t, Nil, Zero, FailsNull)
  PROVE  Law(n, t)
  <1> USE OutcomesAre DEF ScanOf, JsonOf, Frame, Sources, Texts, Silent
  <1>1. ~Reviving(t)
    BY DEF Reviving
  <1>2. ScanLaw(n, t)
    BY <1>1 DEF ScanLaw, OutcomeLaw, NullOutcomes, Deaf
  <1>3. JsonLaw(n, t)
    BY <1>1 DEF JsonLaw, OutcomeLaw, NullOutcomes, Deaf
  <1> QED
    BY <1>1, <1>2, <1>3 DEF Law, Families

LEMMA LawOfDecimal ==
  ASSUME NEW t, NEW n, n \notin Silent,
         Frame(t, "decimal", FALSE), ScanOf(t, Nought, Got, Fails, Fails, Got), JsonOf(t, Nought, Fails, Fails)
  PROVE  Law(n, t)
  <1> USE OutcomesAre DEF ScanOf, JsonOf, Frame, Sources, Texts, Silent
  <1>1. ~Reviving(t)
    BY DEF Reviving
  <1>2. ScanLaw(n, t)
    BY <1>1 DEF ScanLaw, OutcomeLaw, NullOutcomes, Deaf
  <1>3. JsonLaw(n, t)
    BY <1>1 DEF JsonLaw, OutcomeLaw, NullOutcomes, Deaf
  <1> QED
    BY <1>1, <1>2, <1>3 DEF Law, Families

LEMMA LawOfNullDecimal ==
  ASSUME NEW t, NEW n, n \notin Silent,
         Frame(t, "decimal", TRUE), ScanOf(t, Nil, Got, Fails, Fails, Got), JsonOf(t, Nil, Fails, Fails)
  PROVE  Law(n, t)
  <1> USE OutcomesAre DEF ScanOf, JsonOf, Frame, Sources, Texts, Silent
  <1>1. ~Reviving(t)
    BY DEF Reviving
  <1>2. ScanLaw(n, t)
    BY <1>1 DEF ScanLaw, OutcomeLaw, NullOutcomes, Deaf
  <1>3. JsonLaw(n, t)
    BY <1>1 DEF JsonLaw, OutcomeLaw, NullOutcomes, Deaf
  <1> QED
    BY <1>1, <1>2, <1>3 DEF Law, Families

LEMMA LawOfUUIDv4 ==
  ASSUME NEW t, NEW n, n \notin Silent, NEW family \in {"uuid", "xid"},
         Frame(t, family, FALSE), ScanOf(t, Keep, Keep, Fails, Fails, Got), JsonOf(t, Zero, Zero, Fails)
  PROVE  Law(n, t)
  <1> USE OutcomesAre DEF ScanOf, JsonOf, Frame, Sources, Texts, Silent
  <1>1. ~Reviving(t)
    BY DEF Reviving
  <1>2. ScanLaw(n, t)
    BY <1>1 DEF ScanLaw, OutcomeLaw, NullOutcomes, Deaf
  <1>3. JsonLaw(n, t)
    BY <1>1 DEF JsonLaw, OutcomeLaw, NullOutcomes, Deaf
  <1> QED
    BY <1>1, <1>2, <1>3 DEF Law, Families

LEMMA LawOfNullUUIDv4 ==
  ASSUME NEW t, NEW n, n \notin Silent,
         Frame(t, "uuid", TRUE), ScanOf(t, Nil, Valid, Fails, Fails, Got), JsonOf(t, Nil, Zero, Fails)
  PROVE  Law(n, t)
  <1> USE OutcomesAre DEF ScanOf, JsonOf, Frame, Sources, Texts, Silent
  <1>1. Reviving(t)
    BY DEF Reviving
  <1>2. ScanLaw(n, t)
    BY <1>1 DEF ScanLaw, OutcomeLaw, NullOutcomes, Deaf
  <1>3. JsonLaw(n, t)
    BY <1>1 DEF JsonLaw, OutcomeLaw, NullOutcomes, Deaf
  <1> QED
    BY <1>1, <1>2, <1>3 DEF Law, Families

LEMMA LawOfFDUUIDv4 ==
  ASSUME NEW t, NEW n, n \notin Silent, NEW family \in {"uuid", "xid"},
         Frame(t, family, TRUE), ScanOf(t, Nil, Zero, Fails, Fails, Got), JsonOf(t, Nil, Zero, FailsNull)
  PROVE  Law(n, t)
  <1> USE OutcomesAre DEF ScanOf, JsonOf, Frame, Sources, Texts, Silent
  <1>1. ~Reviving(t)
    BY DEF Reviving
  <1>2. ScanLaw(n, t)
    BY <1>1 DEF ScanLaw, OutcomeLaw, NullOutcomes, Deaf
  <1>3. JsonLaw(n, t)
    BY <1>1 DEF JsonLaw, OutcomeLaw, NullOutcomes, Deaf
  <1> QED
    BY <1>1, <1>2, <1>3 DEF Law, Families

LEMMA LawOfXIDJsonTyped ==
  ASSUME NEW t,
         Frame(t, "xid", FALSE), ScanOf(t, Fails, Fails, Fails, Fails, Fails), JsonOf(t, Zero, Zero, Fails)
  PROVE  Law("XIDJsonTyped", t)
  <1> USE OutcomesAre DEF ScanOf, JsonOf, Frame, Sources, Texts, Silent
  <1>1. ~Reviving(t)
    BY DEF Reviving
  <1>2. ScanLaw("XIDJsonTyped", t)
    BY <1>1 DEF ScanLaw, OutcomeLaw, NullOutcomes, Deaf
  <1>3. JsonLaw("XIDJsonTyped", t)
    BY <1>1 DEF JsonLaw, OutcomeLaw, NullOutcomes, Deaf
  <1> QED
    BY <1>1, <1>2, <1>3 DEF Law, Families

LEMMA LawOfJsonB ==
  ASSUME NEW t, NEW n, n \notin Silent,
         Frame(t, "json", FALSE), ScanOf(t, Zero, Fails, Fails, Fails, Got), JsonOf(t, Zero, Got, Fails)
  PROVE  Law(n, t)
  <1> USE OutcomesAre DEF ScanOf, JsonOf, Frame, Sources, Texts, Silent
  <1>1. ~Reviving(t)
    BY DEF Reviving
  <1>2. ScanLaw(n, t)
    BY <1>1 DEF ScanLaw, OutcomeLaw, NullOutcomes, Deaf
  <1>3. JsonLaw(n, t)
    BY <1>1 DEF JsonLaw, OutcomeLaw, NullOutcomes, Deaf
  <1> QED
    BY <1>1, <1>2, <1>3 DEF Law, Families

LEMMA LawOfNullJsonB ==
  ASSUME NEW t, NEW n, n \notin Silent,
         Frame(t, "json", TRUE), ScanOf(t, Nil, FailsNull, FailsNull, Fails, Got), JsonOf(t, Nil, Got, FailsNull)
  PROVE  Law(n, t)
  <1> USE OutcomesAre DEF ScanOf, JsonOf, Frame, Sources, Texts, Silent
  <1>1. ~Reviving(t)
    BY DEF Reviving
  <1>2. ScanLaw(n, t)
    BY <1>1 DEF ScanLaw, OutcomeLaw, NullOutcomes, Deaf
  <1>3. JsonLaw(n, t)
    BY <1>1 DEF JsonLaw, OutcomeLaw, NullOutcomes, Deaf
  <1> QED
    BY <1>1, <1>2, <1>3 DEF Law, Families

LEMMA LawOfStringArray ==
  ASSUME NEW t, NEW n, n \notin Silent, NEW family \in {"strings", "uuids", "numbers", "map"},
         Frame(t, family, FALSE), ScanOf(t, Zero, Fails, Fails, Keep, Got), JsonOf(t, Zero, Fails, Fails)
  PROVE  Law(n, t)
  <1> USE OutcomesAre DEF ScanOf, JsonOf, Frame, Sources, Texts, Silent
  <1>1. ~Reviving(t)
    BY DEF Reviving
  <1>2. ScanLaw(n, t)
    BY <1>1 DEF ScanLaw, OutcomeLaw, NullOutcomes, Deaf
  <1>3. JsonLaw(n, t)
    BY <1>1 DEF JsonLaw, OutcomeLaw, NullOutcomes, Deaf
  <1> QED
    BY <1>1, <1>2, <1>3 DEF Law, Families

\* A record with the fields of a row and no others.
Declared(t) ==
    t = [family |-> t.family, nullable |-> t.nullable, scan |-> t.scan, json |-> t.json,
         form |-> t.form, reads |-> t.reads, sentNull |-> t.sentNull, storedNull |-> t.storedNull,
         clears |-> t.clears]

LEMMA DeclaredAre == Declared(Int64) /\ Declared(Time) /\ Declared(UUIDv4) /\ Declared(XID)
  <1>1. ASSUME NEW t, NEW s, NEW j, NEW family, NEW nulls, NEW stored, NEW clears,
               t = [[family |-> family, nullable |-> FALSE, scan |-> s, json |-> j, form |-> "plain",
                     reads |-> {"plain"}, sentNull |-> {}, storedNull |-> {}, clears |-> {}]
                       EXCEPT !.sentNull = nulls, !.storedNull = stored, !.clears = clears]
        PROVE  Declared(t)
    BY <1>1 DEF Declared
  <1>2. Declared(Int64) /\ Declared(UUIDv4)
    BY DEF Declared, Int64, UUIDv4, Type
  <1>3. Declared(XID)
    BY <1>1 DEF XID, Type
  <1>4. Declared(Time)
    <2>1. ASSUME NEW t, NEW s, NEW j,
                 t = [[family |-> "time", nullable |-> FALSE, scan |-> s, json |-> j, form |-> "plain",
                       reads |-> {"plain"}, sentNull |-> {}, storedNull |-> {}, clears |-> {}]
                         EXCEPT !.sentNull = {"zero"}]
          PROVE  Declared(t)
      BY <2>1 DEF Declared
    <2> QED
      BY <2>1 DEF Time, Type
  <1> QED
    BY <1>2, <1>3, <1>4

\* What FDOf makes of a row, field by field.
LEMMA FDFields ==
  ASSUME NEW t, Declared(t), DOMAIN t.scan = Sources, DOMAIN t.json = Texts
  PROVE  /\ FDOf(t).family = t.family /\ FDOf(t).nullable = TRUE
         /\ FDOf(t).sentNull = t.sentNull /\ FDOf(t).storedNull = t.storedNull /\ FDOf(t).form = t.form
         /\ FDOf(t).scan = [w \in Sources |->
                IF w = "null" THEN Nil
                ELSE IF t.scan[w].err THEN Fails ELSE IF t.scan[w].val = "old" THEN Zero ELSE t.scan[w]]
         /\ FDOf(t).json = [w \in Texts |->
                IF w = "null" THEN Nil
                ELSE [t.json[w] EXCEPT !.valid = IF t.json[w].err THEN "no" ELSE "yes"]]
  BY Zenon DEF FDOf, Declared

\* To set the flag of an outcome that has it so changes nothing.
LEMMA Fill ==
  ASSUME NEW o \in OutcomeSet, NEW v \in {"yes", "no"}
   PROVE  /\ [o EXCEPT !.valid = v] \in OutcomeSet
          /\ o.valid = v => [o EXCEPT !.valid = v] = o
          /\ o = Fails /\ v = "no" => [o EXCEPT !.valid = v] = FailsNull
  <1>1. [o EXCEPT !.valid = v] \in OutcomeSet
    BY DEF OutcomeSet
  <1>2. o.valid = v => [o EXCEPT !.valid = v] = o
    BY DEF OutcomeSet
  <1>3. ASSUME o = Fails, v = "no" PROVE [o EXCEPT !.valid = v] = FailsNull
    <2>1. FailsNull \in OutcomeSet
      BY OutcomesAre
    <2>2. o.val = "old" /\ o.err
      BY <1>3, OutcomesAre
    <2>3. FailsNull.val = "old" /\ FailsNull.err /\ FailsNull.valid = "no"
      BY OutcomesAre
    <2> QED
      BY <1>3, <2>1, <2>2, <2>3 DEF OutcomeSet
  <1> QED
    BY <1>1, <1>2, <1>3

\* What FDOf makes of a cell.
LEMMA FDCells ==
  ASSUME NEW t, NEW w \in Texts \ {"null"}, Declared(t),
         t.scan \in [Sources -> OutcomeSet], t.json \in [Texts -> OutcomeSet]
  PROVE  /\ FDOf(t).scan["null"] = Nil /\ FDOf(t).json["null"] = Nil
         /\ FDOf(t).scan \in [Sources -> OutcomeSet]
         /\ FDOf(t).json \in [Texts -> OutcomeSet]
         /\ t.scan[w].err => FDOf(t).scan[w] = Fails
         /\ t.scan[w] = Keep => FDOf(t).scan[w] = Zero
         /\ t.scan[w] = Got => FDOf(t).scan[w] = Got
         /\ t.json[w] = Fails => FDOf(t).json[w] = FailsNull
         /\ t.json[w] = Zero => FDOf(t).json[w] = Zero
         /\ t.json[w] = Got => FDOf(t).json[w] = Got
  <1>0. DOMAIN t.scan = Sources /\ DOMAIN t.json = Texts
    OBVIOUS
  <1> DEFINE f == FDOf(t)
  <1>a. /\ f.scan = [u \in Sources |->
                IF u = "null" THEN Nil
                ELSE IF t.scan[u].err THEN Fails ELSE IF t.scan[u].val = "old" THEN Zero ELSE t.scan[u]]
        /\ f.json = [u \in Texts |->
                IF u = "null" THEN Nil
                ELSE [t.json[u] EXCEPT !.valid = IF t.json[u].err THEN "no" ELSE "yes"]]
    BY <1>0, FDFields
  <1> HIDE DEF f
  <1>b. "null" \in Sources /\ "null" \in Texts
    BY DEF Sources, Texts
  <1>1. /\ f.scan["null"] = Nil
        /\ \A u \in Sources \ {"null"} :
              f.scan[u] = (IF t.scan[u].err THEN Fails ELSE IF t.scan[u].val = "old" THEN Zero ELSE t.scan[u])
        /\ DOMAIN f.scan = Sources /\ f.scan = [u \in Sources |-> f.scan[u]]
    BY <1>a, <1>b
  <1>2. /\ f.json["null"] = Nil
        /\ \A u \in Texts \ {"null"} :
              f.json[u] = [t.json[u] EXCEPT !.valid = IF t.json[u].err THEN "no" ELSE "yes"]
        /\ DOMAIN f.json = Texts /\ f.json = [u \in Texts |-> f.json[u]]
    BY <1>a, <1>b
  <1>3. \A u \in Sources : f.scan[u] \in OutcomeSet
    <2> SUFFICES ASSUME NEW u \in Sources PROVE f.scan[u] \in OutcomeSet
      OBVIOUS
    <2>1. t.scan[u] \in OutcomeSet
      OBVIOUS
    <2> QED
      BY <1>1, <2>1, OutcomesAre
  <1>4. \A u \in Texts : f.json[u] \in OutcomeSet
    <2> SUFFICES ASSUME NEW u \in Texts PROVE f.json[u] \in OutcomeSet
      OBVIOUS
    <2>1. t.json[u] \in OutcomeSet
      OBVIOUS
    <2>2. CASE u = "null"
      BY <1>2, <2>2, OutcomesAre
    <2>3. CASE u # "null"
      <3>1. f.json[u] = [t.json[u] EXCEPT !.valid = IF t.json[u].err THEN "no" ELSE "yes"]
        BY <1>2, <2>3
      <3> QED
        BY <2>1, <3>1, Fill
    <2> QED
      BY <2>2, <2>3
  <1>5. f.scan \in [Sources -> OutcomeSet] /\ f.json \in [Texts -> OutcomeSet]
    BY <1>1, <1>2, <1>3, <1>4
  <1>6. /\ t.scan[w].err => f.scan[w] = Fails
        /\ t.scan[w] = Keep => f.scan[w] = Zero
        /\ t.scan[w] = Got => f.scan[w] = Got
    <2>1. w \in Sources \ {"null"}
      BY DEF Texts, Sources
    <2>2. f.scan[w] = (IF t.scan[w].err THEN Fails ELSE IF t.scan[w].val = "old" THEN Zero ELSE t.scan[w])
      BY <1>1, <2>1
    <2>3. CASE t.scan[w].err
      BY <2>2, <2>3, OutcomesAre
    <2>4. CASE ~t.scan[w].err /\ t.scan[w].val = "old"
      BY <2>2, <2>4, OutcomesAre
    <2>5. CASE ~t.scan[w].err /\ t.scan[w].val # "old"
      <3>1. f.scan[w] = t.scan[w]
        BY <2>2, <2>5
      <3> QED
        BY <2>5, <3>1, OutcomesAre
    <2> QED
      BY <2>3, <2>4, <2>5
  <1>7. /\ t.json[w] = Fails => f.json[w] = FailsNull
        /\ t.json[w] = Zero => f.json[w] = Zero
        /\ t.json[w] = Got => f.json[w] = Got
    <2>1. f.json[w] = [t.json[w] EXCEPT !.valid = IF t.json[w].err THEN "no" ELSE "yes"]
      BY <1>2
    <2>2. t.json[w] \in OutcomeSet
      OBVIOUS
    <2>3. CASE t.json[w].err
      <3>1. f.json[w] = [t.json[w] EXCEPT !.valid = "no"]
        BY <2>1, <2>3
      <3>2. t.json[w] = Fails => f.json[w] = FailsNull
        BY <2>2, <3>1, Fill
      <3> QED
        BY <2>3, <3>2, OutcomesAre
    <2>4. CASE ~t.json[w].err
      <3>1. f.json[w] = [t.json[w] EXCEPT !.valid = "yes"]
        BY <2>1, <2>4
      <3>2. t.json[w].valid = "yes" => f.json[w] = t.json[w]
        BY <2>2, <3>1, Fill
      <3> QED
        BY <2>4, <3>2, OutcomesAre
    <2> QED
      BY <2>3, <2>4
  <1> QED
    BY <1>1, <1>2, <1>5, <1>6, <1>7 DEF f

\* f is to t as FD[T] is to T.
FollowsFD(f, t) ==
    /\ Frame(f, t.family, TRUE)
    /\ f.scan \in [Sources -> OutcomeSet] /\ f.scan["null"] = Nil
    /\ f.json \in [Texts -> OutcomeSet] /\ f.json["null"] = Nil
    /\ t.scan["other"].err => f.scan["other"] = Fails
    /\ \A w \in {"empty", "bad", "good"} :
          /\ t.scan[w].err => f.scan[w] = Fails
          /\ t.scan[w] = Keep => f.scan[w] = Zero
          /\ t.scan[w] = Got => f.scan[w] = Got
          /\ t.json[w] = Fails => f.json[w] = FailsNull
          /\ t.json[w] = Zero => f.json[w] = Zero
          /\ t.json[w] = Got => f.json[w] = Got

LEMMA FDColumns ==
  ASSUME NEW t, Declared(t), t.family # "json", Frame(t, t.family, FALSE),
         t.scan \in [Sources -> OutcomeSet], t.json \in [Texts -> OutcomeSet]
  PROVE  FollowsFD(FDOf(t), t)
  <1>1. "empty" \in Texts /\ {"empty", "bad", "good"} \subseteq Texts \ {"null"}
    BY DEF Texts
  <1>2. DOMAIN t.scan = Sources /\ DOMAIN t.json = Texts
    OBVIOUS
  <1>3. Frame(FDOf(t), t.family, TRUE)
    BY <1>2, FDFields DEF Frame
  <1>4. \A w \in {"empty", "bad", "good"} :
            /\ t.scan[w].err => FDOf(t).scan[w] = Fails
            /\ t.scan[w] = Keep => FDOf(t).scan[w] = Zero
            /\ t.scan[w] = Got => FDOf(t).scan[w] = Got
            /\ t.json[w] = Fails => FDOf(t).json[w] = FailsNull
            /\ t.json[w] = Zero => FDOf(t).json[w] = Zero
            /\ t.json[w] = Got => FDOf(t).json[w] = Got
    BY <1>1, FDCells
  <1>5. t.scan["other"].err => FDOf(t).scan["other"] = Fails
    <2>1. "other" \in Sources \ {"null"}
      BY DEF Sources
    <2>2. FDOf(t).scan = [w \in Sources |->
              IF w = "null" THEN Nil
              ELSE IF t.scan[w].err THEN Fails ELSE IF t.scan[w].val = "old" THEN Zero ELSE t.scan[w]]
      BY <1>2, FDFields
    <2> QED
      BY <2>1, <2>2
  <1> QED
    BY <1>1, <1>3, <1>4, <1>5, FDCells DEF FollowsFD

\* Every type keeps to the laws.
LEMMA TableLaw == \A n \in DOMAIN Types : Law(n, Types[n])
  <1> USE OutcomesAre DEF Frame, ScanOf, JsonOf, Forms
  <1>1. Law("Int64", Int64)
    <2>1. /\ Frame(Int64, "int", FALSE)
          /\ ScanOf(Int64, Zero, Fails, Fails, Fails, Got)
          /\ JsonOf(Int64, Zero, Fails, Fails)
      BY DEF Int64, Type, Scans, Unmarshals, Sources, Texts
    <2> QED
      BY <2>1, LawOfInt64 DEF Silent
  <1>2. Law("NullInt64", NullInt64)
    <2>1. /\ Frame(NullInt64, "int", TRUE)
          /\ ScanOf(NullInt64, Nil, FailsValid, FailsValid, FailsValid, Got)
          /\ JsonOf(NullInt64, Nil, Fails, Fails)
      BY DEF NullInt64, Type, Scans, Unmarshals, Sources, Texts, SqlNull
    <2> QED
      BY <2>1, LawOfNullInt64 DEF Silent
  <1>3. Law("BigSerial", BigSerial)
    <2>1. /\ Frame(BigSerial, "int", TRUE)
          /\ ScanOf(BigSerial, Nil, FailsValid, FailsValid, FailsValid, Got)
          /\ JsonOf(BigSerial, Nil, Fails, Fails)
      BY DEF BigSerial, Type, Scans, Unmarshals, Sources, Texts, SqlNull
    <2> QED
      BY <2>1, LawOfNullInt64 DEF Silent
  <1>4. Law("FDInt64", FDOf(Int64))
    <2>1. /\ Frame(Int64, "int", FALSE)
          /\ ScanOf(Int64, Zero, Fails, Fails, Fails, Got)
          /\ JsonOf(Int64, Zero, Fails, Fails)
      BY DEF Int64, Type, Scans, Unmarshals, Sources, Texts
    <2>2. /\ Frame(FDOf(Int64), "int", TRUE)
          /\ ScanOf(FDOf(Int64), Nil, Fails, Fails, Fails, Got)
          /\ JsonOf(FDOf(Int64), Nil, FailsNull, FailsNull)
      <3>1. FollowsFD(FDOf(Int64), Int64)
        BY <2>1, DeclaredAre, FDColumns
      <3> QED
        BY <2>1, <3>1 DEF FollowsFD
    <2> QED
      BY <2>2, LawOfFDInt64 DEF Silent
  <1>5. Law("Bool", Bool)
    <2>1. /\ Frame(Bool, "bool", FALSE)
          /\ ScanOf(Bool, Zero, Fails, Fails, Fails, Got)
          /\ JsonOf(Bool, Zero, Fails, Fails)
      BY DEF Bool, Type, Scans, Unmarshals, Sources, Texts
    <2> QED
      BY <2>1, LawOfInt64 DEF Silent
  <1>6. Law("NullBool", NullBool)
    <2>1. /\ Frame(NullBool, "bool", TRUE)
          /\ ScanOf(NullBool, Nil, FailsValid, FailsValid, FailsValid, Got)
          /\ JsonOf(NullBool, Nil, Fails, Fails)
      BY DEF NullBool, Type, Scans, Unmarshals, Sources, Texts, SqlNull
    <2> QED
      BY <2>1, LawOfNullInt64 DEF Silent
  <1>7. Law("Float64", Float64)
    <2>1. /\ Frame(Float64, "float", FALSE)
          /\ ScanOf(Float64, Zero, Fails, Fails, Fails, Got)
          /\ JsonOf(Float64, Zero, Fails, Fails)
      BY DEF Float64, Type, Scans, Unmarshals, Sources, Texts
    <2> QED
      BY <2>1, LawOfInt64 DEF Silent
  <1>8. Law("NullFloat64", NullFloat64)
    <2>1. /\ Frame(NullFloat64, "float", TRUE)
          /\ ScanOf(NullFloat64, Nil, FailsValid, FailsValid, FailsValid, Got)
          /\ JsonOf(NullFloat64, Nil, Fails, Fails)
      BY DEF NullFloat64, Type, Scans, Unmarshals, Sources, Texts, SqlNull
    <2> QED
      BY <2>1, LawOfNullInt64 DEF Silent
  <1>9. Law("String", String)
    <2>1. /\ Frame(String, "string", FALSE)
          /\ ScanOf(String, Zero, Got, Got, Got, Got)
          /\ JsonOf(String, Zero, Got, Fails)
      BY DEF String, Type, Scans, Unmarshals, Sources, Texts
    <2> QED
      BY <2>1, LawOfString DEF Silent
  <1>10. Law("NullString", NullString)
    <2>1. /\ Frame(NullString, "string", TRUE)
          /\ ScanOf(NullString, Nil, Got, Got, Got, Got)
          /\ JsonOf(NullString, Nil, Got, Fails)
      BY DEF NullString, Type, Scans, Unmarshals, Sources, Texts
    <2> QED
      BY <2>1, LawOfNullString DEF Silent
  <1>11. Law("Text", Text)
    <2>1. /\ Frame(Text, "string", FALSE)
          /\ ScanOf(Text, Keep, Keep, FailsGot, Fails, FailsGot)
          /\ JsonOf(Text, Keep, Got, Fails)
      BY DEF Text, Type, Scans, Unmarshals, Sources, Texts
    <2> QED
      BY <2>1, LawOfText DEF Silent
  <1>12. Law("NullText", NullText)
    <2>1. /\ Frame(NullText, "string", TRUE)
          /\ ScanOf(NullText, Nil, Got, Got, Got, Got)
          /\ JsonOf(NullText, Nil, Got, Fails)
      BY DEF NullText, Type, Scans, Unmarshals, Sources, Texts
    <2> QED
      BY <2>1, LawOfNullString DEF Silent
  <1>13. Law("Time", Time)
    <2>1. /\ Frame(Time, "time", FALSE)
          /\ ScanOf(Time, Zero, FailsZero, FailsZero, Fails, Got)
          /\ JsonOf(Time, Zero, Zero, Fails)
      BY DEF Time, Type, Scans, Unmarshals, Sources, Texts, TimeScan, TimeJSON
    <2> QED
      BY <2>1, LawOfTime DEF Silent
  <1>14. Law("NullTime", NullTime)
    <2>1. /\ Frame(NullTime, "time", TRUE)
          /\ ScanOf(NullTime, Nil, FailsNil, FailsNil, FailsNull, Got)
          /\ JsonOf(NullTime, Nil, Zero, FailsNull)
      BY DEF NullTime, Type, Scans, Unmarshals, Sources, Texts
    <2> QED
      BY <2>1, LawOfNullTime DEF Silent
  <1>15. Law("FDTime", FDOf(Time))
    <2>1. /\ Frame(Time, "time", FALSE)
          /\ ScanOf(Time, Zero, FailsZero, FailsZero, Fails, Got)
          /\ JsonOf(Time, Zero, Zero, Fails)
      BY DEF Time, Type, Scans, Unmarshals, Sources, Texts, TimeScan, TimeJSON
    <2>2. /\ Frame(FDOf(Time), "time", TRUE)
          /\ ScanOf(FDOf(Time), Nil, Fails, Fails, Fails, Got)
          /\ JsonOf(FDOf(Time), Nil, Zero, FailsNull)
      <3>1. FollowsFD(FDOf(Time), Time)
        BY <2>1, DeclaredAre, FDColumns
      <3> QED
        BY <2>1, <3>1 DEF FollowsFD
    <2> QED
      BY <2>2, LawOfFDTime DEF Silent
  <1>16. Law("Decimal", Decimal)
    <2>1. /\ Frame(Decimal, "decimal", FALSE)
          /\ ScanOf(Decimal, Nought, Got, Fails, Fails, Got)
          /\ JsonOf(Decimal, Nought, Fails, Fails)
      BY DEF Decimal, Type, Scans, Unmarshals, Sources, Texts
    <2> QED
      BY <2>1, LawOfDecimal DEF Silent
  <1>17. Law("NullDecimal", NullDecimal)
    <2>1. /\ Frame(NullDecimal, "decimal", TRUE)
          /\ ScanOf(NullDecimal, Nil, Got, Fails, Fails, Got)
          /\ JsonOf(NullDecimal, Nil, Fails, Fails)
      BY DEF NullDecimal, Type, Scans, Unmarshals, Sources, Texts
    <2> QED
      BY <2>1, LawOfNullDecimal DEF Silent
  <1>18. Law("UUIDv4", UUIDv4)
    <2>1. /\ Frame(UUIDv4, "uuid", FALSE)
          /\ ScanOf(UUIDv4, Keep, Keep, Fails, Fails, Got)
          /\ JsonOf(UUIDv4, Zero, Zero, Fails)
      BY DEF UUIDv4, Type, Scans, Unmarshals, Sources, Texts
    <2> QED
      BY <2>1, LawOfUUIDv4 DEF Silent
  <1>19. Law("UUID58", UUID58)
    <2>1. /\ Frame(UUID58, "uuid", FALSE)
          /\ ScanOf(UUID58, Keep, Keep, Fails, Fails, Got)
          /\ JsonOf(UUID58, Zero, Zero, Fails)
      BY DEF UUID58, Type, Scans, Unmarshals, Sources, Texts, UUIDv4
    <2> QED
      BY <2>1, LawOfUUIDv4 DEF Silent
  <1>20. Law("UUIDOf", UUIDOf)
    <2>1. /\ Frame(UUIDOf, "uuid", FALSE)
          /\ ScanOf(UUIDOf, Keep, Keep, Fails, Fails, Got)
          /\ JsonOf(UUIDOf, Zero, Zero, Fails)
      BY DEF UUIDOf, Type, Scans, Unmarshals, Sources, Texts
    <2> QED
      BY <2>1, LawOfUUIDv4 DEF Silent
  <1>21. Law("UUIDJsonTyped", UUIDJsonTyped)
    <2>1. /\ Frame(UUIDJsonTyped, "uuid", FALSE)
          /\ ScanOf(UUIDJsonTyped, Keep, Keep, Fails, Fails, Got)
          /\ JsonOf(UUIDJsonTyped, Zero, Zero, Fails)
      BY DEF UUIDJsonTyped, Type, Scans, Unmarshals, Sources, Texts, UUIDOf
    <2> QED
      BY <2>1, LawOfUUIDv4 DEF Silent
  <1>22. Law("NullUUIDv4", NullUUIDv4)
    <2>1. /\ Frame(NullUUIDv4, "uuid", TRUE)
          /\ ScanOf(NullUUIDv4, Nil, Valid, Fails, Fails, Got)
          /\ JsonOf(NullUUIDv4, Nil, Zero, Fails)
      BY DEF NullUUIDv4, Type, Scans, Unmarshals, Sources, Texts
    <2> QED
      BY <2>1, LawOfNullUUIDv4 DEF Silent
  <1>23. Law("FDUUIDv4", FDOf(UUIDv4))
    <2>1. /\ Frame(UUIDv4, "uuid", FALSE)
          /\ ScanOf(UUIDv4, Keep, Keep, Fails, Fails, Got)
          /\ JsonOf(UUIDv4, Zero, Zero, Fails)
      BY DEF UUIDv4, Type, Scans, Unmarshals, Sources, Texts
    <2>2. /\ Frame(FDOf(UUIDv4), "uuid", TRUE)
          /\ ScanOf(FDOf(UUIDv4), Nil, Zero, Fails, Fails, Got)
          /\ JsonOf(FDOf(UUIDv4), Nil, Zero, FailsNull)
      <3>1. FollowsFD(FDOf(UUIDv4), UUIDv4)
        BY <2>1, DeclaredAre, FDColumns
      <3> QED
        BY <2>1, <3>1 DEF FollowsFD
    <2> QED
      BY <2>2, LawOfFDUUIDv4 DEF Silent
  <1>24. Law("XID", XID)
    <2>1. /\ Frame(XID, "xid", FALSE)
          /\ ScanOf(XID, Keep, Keep, Fails, Fails, Got)
          /\ JsonOf(XID, Zero, Zero, Fails)
      BY DEF XID, Type, Scans, Unmarshals, Sources, Texts
    <2> QED
      BY <2>1, LawOfUUIDv4 DEF Silent
  <1>25. Law("XIDJsonTyped", XIDJsonTyped)
    <2>1. /\ Frame(XIDJsonTyped, "xid", FALSE)
          /\ ScanOf(XIDJsonTyped, Fails, Fails, Fails, Fails, Fails)
          /\ JsonOf(XIDJsonTyped, Zero, Zero, Fails)
      BY DEF XIDJsonTyped, Type, Scans, Unmarshals, Sources, Texts, XID
    <2> QED
      BY <2>1, LawOfXIDJsonTyped DEF Silent
  <1>26. Law("FDXID", FDOf(XID))
    <2>1. /\ Frame(XID, "xid", FALSE)
          /\ ScanOf(XID, Keep, Keep, Fails, Fails, Got)
          /\ JsonOf(XID, Zero, Zero, Fails)
      BY DEF XID, Type, Scans, Unmarshals, Sources, Texts
    <2>2. /\ Frame(FDOf(XID), "xid", TRUE)
          /\ ScanOf(FDOf(XID), Nil, Zero, Fails, Fails, Got)
          /\ JsonOf(FDOf(XID), Nil, Zero, FailsNull)
      <3>1. FollowsFD(FDOf(XID), XID)
        BY <2>1, DeclaredAre, FDColumns
      <3> QED
        BY <2>1, <3>1 DEF FollowsFD
    <2> QED
      BY <2>2, LawOfFDUUIDv4 DEF Silent
  <1>27. Law("JsonB", JsonB)
    <2>1. /\ Frame(JsonB, "json", FALSE)
          /\ ScanOf(JsonB, Zero, Fails, Fails, Fails, Got)
          /\ JsonOf(JsonB, Zero, Got, Fails)
      BY DEF JsonB, Type, Scans, Unmarshals, Sources, Texts
    <2> QED
      BY <2>1, LawOfJsonB DEF Silent
  <1>28. Law("NullJsonB", NullJsonB)
    <2>1. /\ Frame(NullJsonB, "json", TRUE)
          /\ ScanOf(NullJsonB, Nil, FailsNull, FailsNull, Fails, Got)
          /\ JsonOf(NullJsonB, Nil, Got, FailsNull)
      BY DEF NullJsonB, Type, Scans, Unmarshals, Sources, Texts
    <2> QED
      BY <2>1, LawOfNullJsonB DEF Silent
  <1>29. Law("StringArray", StringArray)
    <2>1. /\ Frame(StringArray, "strings", FALSE)
          /\ ScanOf(StringArray, Zero, Fails, Fails, Keep, Got)
          /\ JsonOf(StringArray, Zero, Fails, Fails)
      BY DEF StringArray, Type, Scans, Unmarshals, Sources, Texts
    <2> QED
      BY <2>1, LawOfStringArray DEF Silent
  <1>30. Law("UUIDv4Array", UUIDv4Array)
    <2>1. /\ Frame(UUIDv4Array, "uuids", FALSE)
          /\ ScanOf(UUIDv4Array, Zero, Fails, Fails, Keep, Got)
          /\ JsonOf(UUIDv4Array, Zero, Fails, Fails)
      BY DEF UUIDv4Array, Type, Scans, Unmarshals, Sources, Texts
    <2> QED
      BY <2>1, LawOfStringArray DEF Silent
  <1>31. Law("Uint64Array", Uint64Array)
    <2>1. /\ Frame(Uint64Array, "numbers", FALSE)
          /\ ScanOf(Uint64Array, Zero, Fails, Fails, Keep, Got)
          /\ JsonOf(Uint64Array, Zero, Fails, Fails)
      BY DEF Uint64Array, Type, Scans, Unmarshals, Sources, Texts
    <2> QED
      BY <2>1, LawOfStringArray DEF Silent
  <1>32. Law("AnyObjectMap", AnyObjectMap)
    <2>1. /\ Frame(AnyObjectMap, "map", FALSE)
          /\ ScanOf(AnyObjectMap, Zero, Fails, Fails, Keep, Got)
          /\ JsonOf(AnyObjectMap, Zero, Fails, Fails)
      BY DEF AnyObjectMap, Type, Scans, Unmarshals, Sources, Texts
    <2> QED
      BY <2>1, LawOfStringArray DEF Silent
  <1>a. DOMAIN Types =
           {"Int64", "NullInt64", "BigSerial", "FDInt64", "Bool", "NullBool", "Float64", "NullFloat64",
           "String", "NullString", "Text", "NullText", "Time", "NullTime", "FDTime", "Decimal",
           "NullDecimal", "UUIDv4", "UUID58", "UUIDOf", "UUIDJsonTyped", "NullUUIDv4", "FDUUIDv4",
           "XID", "XIDJsonTyped", "FDXID", "JsonB", "NullJsonB", "StringArray", "UUIDv4Array",
           "Uint64Array", "AnyObjectMap"}
    BY DEF Types
  <1>b. /\ Types["Int64"] = Int64
        /\ Types["NullInt64"] = NullInt64
        /\ Types["BigSerial"] = BigSerial
        /\ Types["FDInt64"] = FDOf(Int64)
        /\ Types["Bool"] = Bool
        /\ Types["NullBool"] = NullBool
        /\ Types["Float64"] = Float64
        /\ Types["NullFloat64"] = NullFloat64
        /\ Types["String"] = String
        /\ Types["NullString"] = NullString
        /\ Types["Text"] = Text
        /\ Types["NullText"] = NullText
        /\ Types["Time"] = Time
        /\ Types["NullTime"] = NullTime
        /\ Types["FDTime"] = FDOf(Time)
        /\ Types["Decimal"] = Decimal
        /\ Types["NullDecimal"] = NullDecimal
        /\ Types["UUIDv4"] = UUIDv4
        /\ Types["UUID58"] = UUID58
        /\ Types["UUIDOf"] = UUIDOf
        /\ Types["UUIDJsonTyped"] = UUIDJsonTyped
        /\ Types["NullUUIDv4"] = NullUUIDv4
        /\ Types["FDUUIDv4"] = FDOf(UUIDv4)
        /\ Types["XID"] = XID
        /\ Types["XIDJsonTyped"] = XIDJsonTyped
        /\ Types["FDXID"] = FDOf(XID)
        /\ Types["JsonB"] = JsonB
        /\ Types["NullJsonB"] = NullJsonB
        /\ Types["StringArray"] = StringArray
        /\ Types["UUIDv4Array"] = UUIDv4Array
        /\ Types["Uint64Array"] = Uint64Array
        /\ Types["AnyObjectMap"] = AnyObjectMap
    BY DEF Types
  <1> QED
    BY <1>a, <1>b, <1>1, <1>2, <1>3, <1>4, <1>5, <1>6, <1>7, <1>8, <1>9, <1>10, <1>11,
       <1>12, <1>13, <1>14, <1>15, <1>16, <1>17, <1>18, <1>19, <1>20, <1>21, <1>22, <1>23,
       <1>24, <1>25, <1>26, <1>27, <1>28, <1>29, <1>30, <1>31, <1>32

-----------------------------------------------------------------------------
(***************************************************************************)
(* The inductive invariant: of the variables and of what is carried.       *)
(***************************************************************************)
Held == {"zero", "nought", "a", "b", "ab", "milli", "micro", "quoted"}

VariablesOK ==
    /\ type \in [Vars -> DOMAIN Types]
    /\ \A p, q \in Vars : Family(p) = Family(q)
    /\ var \in [Vars -> [val : Held, valid : BOOLEAN, into : Nat]]
    /\ \A p \in Vars : var[p].val \in ValuesOf(Family(p))
    /\ torn \subseteq Vars

CarriedOK ==
    carried \in [in : {"none", "cell", "text"}, what : Sources, form : Forms, val : Held,
                 from : Vars \cup {Nobody}, meant : Held \cup {"NULL"}]

\* Two variables that point to one struct hold one value.
Shared ==
    \A p \in Vars :
        var[p].into # NoStruct =>
            /\ Family(p) = "json"
            /\ \A q \in Vars : var[q].into = var[p].into => var[q].val = var[p].val

\* A value under a reset flag is zero, but after an error.
NullIsZero ==
    \A p \in Vars :
        ~var[p].valid =>
            /\ T(p).nullable
            /\ Reviving(T(p)) \/ ~Unsafe(p) => var[p].val = "zero"

\* What is in the column or in the text.
Traveller ==
    /\ carried.in = "none" => carried.what = "bad"
    /\ carried.what = "other" => carried.in = "cell" /\ carried.val = "a"
    /\ carried.what = "empty" => carried.val = "zero"
    /\ carried.what = "bad" /\ carried.in = "cell" => \A p \in Vars : Family(p) # "string"
    /\ carried.what # "other" => \A p \in Vars : carried.val \in ValuesOf(Family(p))

\* What a variable stored or sent says what it meant.
Faithful ==
    carried.from # Nobody =>
        /\ carried.what # "other"
        /\ carried.what = "bad" => carried.in = "text"
        /\ carried.what = "null" => carried.meant \in {"zero", "NULL"}
        /\ carried.what = "empty" => carried.meant = "zero" /\ \A p \in Vars : Family(p) = "string"
        /\ carried.what = "good" =>
               IF carried.in = "cell" THEN Plain(carried.val) = Plain(carried.meant)
               ELSE carried.val = RoundedValue(carried.meant)

VariablesInv == VariablesOK /\ Shared /\ NullIsZero

CarriedInv == CarriedOK /\ Traveller /\ Faithful

ValuesInv == VariablesInv /\ CarriedInv

-----------------------------------------------------------------------------
\* What each family may hold, and what rounding and merging make of it.
LEMMA ValuesAre ==
    /\ \A f \in Families : ValuesOf(f) \subseteq Held /\ "zero" \in ValuesOf(f)
    /\ \A f \in Families, v \in Held : v \in ValuesOf(f) => RoundedValue(v) \in ValuesOf(f)
    /\ \A v, w \in ValuesOf("json") : Merged(v, w) \in ValuesOf("json") \ {"zero"} \/ Merged(v, w) = v
    /\ "nought" \in ValuesOf("decimal")
    /\ {"a", "quoted"} \subseteq ValuesOf("string")
  BY DEF Families, ValuesOf, Held, RoundedValue, Merged

\* The types of the variables keep to the laws.
LEMMA LawOf == ASSUME VariablesOK, NEW p \in Vars PROVE Law(type[p], T(p))
  BY TableLaw DEF VariablesOK, T

LEMMA FamilyOf == ASSUME VariablesOK, NEW p \in Vars PROVE Family(p) \in Families /\ Family(p) = T(p).family
  BY LawOf DEF Law, Family

\* What a reading may come to, given what is carried: the cell of the table,
\* or zero with its error where the package xid may clear the id.
LEMMA ReadingLaw ==
  ASSUME VariablesOK, CarriedOK, Traveller, NEW p \in Vars, NEW o \in Outcomes(T(p))
  PROVE  /\ o \in OutcomeSet
         /\ o.valid = "no" => T(p).nullable /\ o.val \in {"zero", "old"}
         /\ o.valid = "old" => o.val \in {"zero", "old"}
         /\ o.val = "old" /\ o.valid = "no" => o.err /\ ~Reviving(T(p))
         /\ o.val = "old" /\ o.valid = "yes" => Reviving(T(p))
         /\ o.err => o.val \in {"old", "zero"} \/ type[p] = "Text"
         /\ o.val = "old" /\ ~o.err =>
               /\ Family(p) # "json" /\ Deaf(T(p))
               /\ carried.what # "good"
               /\ carried.what = "other" => Family(p) # "string"
         /\ o.val = "new" => carried.val \in ValuesOf(Family(p))
         /\ o.val = "nought" => Family(p) = "decimal"
         /\ ~o.err => carried.what # "bad"
         /\ ~o.err /\ o.val = "old" /\ carried.what = "other" => o = Keep
         /\ ~o.err /\ o.val # "old" =>
               /\ carried.what = "null" => o.val \in {"zero", "nought"}
               /\ carried.what = "other" => Family(p) = "string" /\ o = Got
               /\ carried.what = "good" => o = Got
  <1> DEFINE t == T(p)
             r == Reading(t)
             Answers(x) ==
                 /\ OutcomeLaw(type[p], t, x)
                 /\ x.val = "old" /\ ~x.err =>
                       /\ carried.what # "good"
                       /\ carried.what = "other" => t.family # "string"
                 /\ x.val = "new" /\ carried.what = "other" => t.family = "string"
                 /\ ~x.err => carried.what # "bad"
                 /\ ~x.err /\ x.val = "old" /\ carried.what = "other" => x = Keep
                 /\ ~x.err /\ x.val # "old" =>
                       /\ carried.what = "null" => x.val \in {"zero", "nought"}
                       /\ carried.what = "other" => t.family = "string" /\ x = Got
                       /\ carried.what = "good" => x = Got
  <1>1. Law(type[p], t) /\ Family(p) = t.family /\ carried.what \in Sources
    BY LawOf, FamilyOf DEF CarriedOK
  <1>2. \A q \in Vars : Family(q) = Family(p)
    BY DEF VariablesOK
  <1> HIDE DEF t
  <1>3. ASSUME carried.in = "cell" PROVE Answers(r)
    <2>1. r = t.scan[carried.what] /\ OutcomeLaw(type[p], t, r)
      BY <1>1, <1>3 DEF Reading, Law, ScanLaw
    <2>2. carried.what = "bad" => r.err
      BY <1>1, <1>2, <1>3, <2>1 DEF Law, ScanLaw, Traveller
    <2>3. carried.what = "good" => r.err \/ r = Got
      BY <1>1, <2>1 DEF Law, ScanLaw
    <2>4. carried.what = "null" => r.val # "new"
      BY <1>1, <2>1 DEF Law, ScanLaw
    <2>5. carried.what = "other" =>
              /\ r.val = "new" => t.family = "string"
              /\ ~r.err => r = IF t.family = "string" THEN Got ELSE Keep
      BY <1>1, <2>1 DEF Law, ScanLaw
    <2> QED
      BY <1>1, <2>1, <2>2, <2>3, <2>4, <2>5, OutcomesAre DEF OutcomeLaw, OutcomeSet
  <1>4. ASSUME carried.in # "cell" PROVE Answers(r)
    <2>1. carried.what \in Texts
      BY <1>1, <1>4 DEF Traveller, Sources, Texts
    <2>2. r = t.json[carried.what] \/ (r = t.json["bad"] /\ carried.what = "good")
      BY <1>4 DEF Reading
    <2>3. OutcomeLaw(type[p], t, r)
      BY <1>1, <2>1, <2>2 DEF Law, JsonLaw, Texts
    <2>4. /\ carried.what = "bad" => r.err
          /\ carried.what = "good" => r.err \/ r = Got
          /\ carried.what = "null" => r.val # "new"
          /\ carried.what # "other"
      BY <1>1, <2>1, <2>2 DEF Law, JsonLaw, Texts
    <2> QED
      BY <1>1, <2>3, <2>4, OutcomesAre DEF OutcomeLaw, OutcomeSet
  <1>5. Answers(r)
    BY <1>3, <1>4
  <1>6. o = r \/ (r.err /\ o = [r EXCEPT !.val = "zero"])
    BY DEF Outcomes, t
  <1>7. \/ o = r
        \/ r.err /\ o \in OutcomeSet /\ o.val = "zero" /\ o.valid = r.valid /\ o.err
    BY <1>5, <1>6 DEF OutcomeLaw, OutcomeSet
  <1>8. o.val = "old" /\ o.valid = "yes" => Reviving(t)
    <2>1. ASSUME o.val = "old", o.valid = "yes" PROVE o = r
      BY <1>7, <2>1
    <2> QED
      BY <2>1, <1>1 DEF Reviving, Reading, Traveller, Sources, Texts
  <1>9. r.val = "new" => carried.val \in ValuesOf(t.family)
    <2>1. carried.what = "other" => carried.val = "a"
      BY DEF Traveller
    <2>2. carried.what # "other" => carried.val \in ValuesOf(t.family)
      BY <1>1 DEF Traveller
    <2> QED
      BY <1>5, <2>1, <2>2, ValuesAre
  <1>10. /\ o \in OutcomeSet
         /\ o.valid = "no" => t.nullable /\ o.val \in {"zero", "old"}
         /\ o.valid = "old" => o.val \in {"zero", "old"}
         /\ o.val = "old" /\ o.valid = "no" => o.err /\ ~Reviving(t)
         /\ o.err => o.val \in {"old", "zero"} \/ type[p] = "Text"
    BY <1>5, <1>7 DEF OutcomeLaw
  <1>11. /\ o.val = "old" /\ ~o.err =>
               /\ t.family # "json" /\ Deaf(t)
               /\ carried.what # "good"
               /\ carried.what = "other" => t.family # "string"
         /\ o.val = "new" => carried.val \in ValuesOf(t.family)
         /\ o.val = "nought" => t.family = "decimal"
    BY <1>5, <1>7, <1>9 DEF OutcomeLaw
  <1>12. /\ ~o.err => carried.what # "bad"
         /\ ~o.err /\ o.val = "old" /\ carried.what = "other" => o = Keep
         /\ ~o.err /\ o.val # "old" =>
               /\ carried.what = "null" => o.val \in {"zero", "nought"}
               /\ carried.what = "other" => t.family = "string" /\ o = Got
               /\ carried.what = "good" => o = Got
    BY <1>5, <1>7
  <1> QED
    BY <1>1, <1>8, <1>10, <1>11, <1>12 DEF t

-----------------------------------------------------------------------------
LEMMA ValuesInitInv == ValuesInit => ValuesInv
  <1> SUFFICES ASSUME ValuesInit PROVE ValuesInv
    OBVIOUS
  <1> USE DEF ValuesInit
  <1>1. type \in [Vars -> DOMAIN Types] /\ \A p, q \in Vars : Family(p) = Family(q)
    BY DEF Family, T
  <1>2. \A p \in Vars : Law(type[p], T(p)) /\ Family(p) = T(p).family
    BY <1>1, TableLaw DEF T, Family
  <1>3. \A p \in Vars : Family(p) \in Families /\ T(p).nullable \in BOOLEAN
    BY <1>2 DEF Law
  <1>4. \A p \in Vars : "zero" \in ValuesOf(Family(p))
    BY <1>3, ValuesAre
  <1>5. VariablesOK
    BY <1>1, <1>3, <1>4 DEF VariablesOK, Held, NoStruct
  <1>6. Shared /\ NullIsZero
    BY <1>3 DEF Shared, NullIsZero
  <1>7. CarriedOK
    BY DEF CarriedOK, Nothing, Sources, Forms, Held
  <1>8. Traveller /\ Faithful
    BY <1>4 DEF Traveller, Faithful, Nothing
  <1> QED
    BY <1>5, <1>6, <1>7, <1>8 DEF ValuesInv, VariablesInv, CarriedInv

\* Each half of the invariant rests when its variables do.
LEMMA SameVariables ==
  ASSUME VariablesInv, UNCHANGED <<type, var, torn>> PROVE VariablesInv'
  <1>1. VariablesOK'
    BY DEF VariablesInv, VariablesOK, Family, T
  <1>2. Shared'
    BY DEF VariablesInv, Shared, Family, T
  <1>3. NullIsZero'
    BY DEF VariablesInv, NullIsZero, Unsafe, T
  <1> QED
    BY <1>1, <1>2, <1>3 DEF VariablesInv

LEMMA SameCarried ==
  ASSUME CarriedInv, UNCHANGED <<type, carried>> PROVE CarriedInv'
  <1>1. CarriedOK'
    BY DEF CarriedInv, CarriedOK
  <1>2. Traveller'
    BY DEF CarriedInv, Traveller, Family, T
  <1>3. Faithful'
    BY DEF CarriedInv, Faithful, Family, T
  <1> QED
    BY <1>1, <1>2, <1>3 DEF CarriedInv

\* One variable gets x.
\* A variable is set: what the invariant asks of its new value.
LEMMA OneVariable ==
  ASSUME VariablesInv, NEW p \in Vars, NEW x \in [val : Held, valid : BOOLEAN, into : Nat],
         type' = type, var' = [var EXCEPT ![p] = x], torn' \subseteq Vars, torn' \ {p} = torn \ {p},
         x.val \in ValuesOf(Family(p)),
         x.into # NoStruct =>
            /\ Family(p) = "json"
            /\ \A q \in Vars \ {p} : var[q].into = x.into => var[q].val = x.val,
         ~x.valid =>
            /\ T(p).nullable
            /\ Reviving(T(p)) \/ (p \notin torn' /\ x.into = NoStruct) => x.val = "zero"
  PROVE  VariablesInv'
  <1> USE DEF VariablesInv
  <1>1. /\ var'[p] = x
        /\ \A q \in Vars \ {p} : var'[q] = var[q] /\ (q \in torn' <=> q \in torn)
        /\ var' \in [Vars -> [val : Held, valid : BOOLEAN, into : Nat]]
    BY DEF VariablesOK
  <1>2. \A q \in Vars : T(q)' = T(q) /\ Family(q)' = Family(q)
    BY DEF T, Family
  <1>3. VariablesOK'
    BY <1>1, <1>2 DEF VariablesOK
  <1>4. Shared'
    BY <1>1, <1>2 DEF Shared
  <1>5. NullIsZero'
    BY <1>1, <1>2 DEF NullIsZero, Unsafe
  <1> QED
    BY <1>3, <1>4, <1>5

LEMMA AssignInv == ASSUME ValuesInv, NEW p \in Vars, Assign(p) PROVE ValuesInv'
  <1> USE DEF ValuesInv
  <1>1. PICK v \in ValuesOf(Family(p)) \ {"quoted"}, valid \in BOOLEAN, s \in {NoStruct} \cup Structs :
           /\ ~valid => T(p).nullable /\ v = "zero"
           /\ s # NoStruct => Family(p) = "json" /\ \A q \in Vars \ {p} : var[q].into # s
           /\ var' = [var EXCEPT ![p] = [val |-> v, valid |-> valid, into |-> s]]
    BY DEF Assign
  <1> DEFINE x == [val |-> v, valid |-> valid, into |-> s]
  <1>2. v \in Held /\ s \in Nat
    BY FamilyOf, ValuesAre DEF VariablesInv, NoStruct, Structs
  <1>3. x \in [val : Held, valid : BOOLEAN, into : Nat] /\ x.val = v /\ x.valid = valid /\ x.into = s
    BY <1>2
  <1>4. /\ type' = type /\ carried' = carried /\ torn' = torn \ {p} /\ var' = [var EXCEPT ![p] = x]
    BY <1>1 DEF Assign
  <1> HIDE DEF x
  <1>5. VariablesInv'
    <2>1. torn' \subseteq Vars /\ torn' \ {p} = torn \ {p}
      BY <1>4 DEF VariablesInv, VariablesOK
    <2>2. x.into # NoStruct =>
             /\ Family(p) = "json"
             /\ \A q \in Vars \ {p} : var[q].into = x.into => var[q].val = x.val
      BY <1>1, <1>3
    <2>3. ~x.valid => T(p).nullable /\ x.val = "zero"
      BY <1>1, <1>3
    <2>4. x.val \in ValuesOf(Family(p))
      BY <1>3
    <2> QED
      BY <1>3, <1>4, <2>1, <2>2, <2>3, <2>4, OneVariable
  <1> QED
    BY <1>4, <1>5, SameCarried

LEMMA StoreInv == ASSUME ValuesInv, NEW p \in Vars, Store(p) PROVE ValuesInv'
  <1> USE DEF ValuesInv
  <1>1. UNCHANGED <<type, var, torn>> /\ (carried' = carried \/ carried' = Stored(p))
    BY DEF Store
  <1>2. CASE carried' = carried
    BY <1>1, <1>2, SameVariables, SameCarried
  <1>3. CASE carried' = Stored(p)
    <2> DEFINE f == Family(p)
               v == IF var[p].val = "zero" /\ f = "decimal" THEN "nought" ELSE var[p].val
    <2>1. /\ Law(type[p], T(p)) /\ f \in Families
          /\ \A q \in Vars : Family(q) = f
      BY LawOf, FamilyOf DEF VariablesInv, VariablesOK
    <2>2. /\ var[p].val \in Held /\ var[p].val \in ValuesOf(f) /\ var[p].valid \in BOOLEAN
          /\ Meant(p) \in Held \cup {"NULL"}
      BY DEF VariablesInv, VariablesOK, Meant
    <2>3. v \in Held /\ v \in ValuesOf(f)
      BY <2>2, ValuesAre DEF Held
    <2>4. /\ carried'.in = "cell" /\ carried'.form = "plain" /\ carried'.val = v
          /\ carried'.from = p /\ carried'.meant = Meant(p)
          /\ carried'.what = IF IsNull(p) THEN "null"
                             ELSE IF f = "string" /\ v = "zero" THEN "empty" ELSE "good"
      BY <1>3 DEF Stored
    <2>5. CarriedOK'
      BY <1>3, <2>2, <2>3 DEF CarriedOK, Stored, Forms, Sources
    <2>6. \A q \in Vars : Family(q)' = f
      BY <1>1, <2>1 DEF Family, T
    <2>7. Traveller'
      BY <2>3, <2>4, <2>6 DEF Traveller
    <2>8. Faithful'
      <3>1. IsNull(p) => Meant(p) \in {"zero", "NULL"}
        BY <2>1 DEF IsNull, Meant, Law
      <3>2. ~IsNull(p) => Meant(p) = var[p].val
        BY DEF IsNull, Meant
      <3>3. Plain(v) = Plain(var[p].val)
        BY DEF Plain
      <3>4. f = "string" => v = var[p].val
        OBVIOUS
      <3> HIDE DEF v
      <3> QED
        BY <2>4, <2>6, <3>1, <3>2, <3>3, <3>4 DEF Faithful
    <2> QED
      BY <1>1, <2>5, <2>7, <2>8, SameVariables DEF CarriedInv
  <1> QED
    BY <1>1, <1>2, <1>3

LEMMA SendInv == ASSUME ValuesInv, NEW p \in Vars, Send(p) PROVE ValuesInv'
  <1> USE DEF ValuesInv
  <1>1. UNCHANGED <<type, var, torn>> /\ (carried' = carried \/ carried' = Sent(p))
    BY DEF Send
  <1>2. CASE carried' = carried
    BY <1>1, <1>2, SameVariables, SameCarried
  <1>3. CASE carried' = Sent(p)
    <2> DEFINE f == Family(p)
               v == RoundedValue(var[p].val)
    <2>1. /\ Law(type[p], T(p)) /\ f \in Families /\ T(p).form \in Forms
          /\ \A q \in Vars : Family(q) = f
      BY LawOf, FamilyOf DEF VariablesInv, VariablesOK, Law
    <2>2. /\ var[p].val \in Held /\ var[p].val \in ValuesOf(f) /\ var[p].valid \in BOOLEAN
          /\ Meant(p) \in Held \cup {"NULL"}
      BY DEF VariablesInv, VariablesOK, Meant
    <2>3. v \in Held /\ v \in ValuesOf(f)
      BY <2>1, <2>2, ValuesAre
    <2>4. /\ carried'.in = "text" /\ carried'.form = T(p).form /\ carried'.val = v
          /\ carried'.from = p /\ carried'.meant = Meant(p)
          /\ carried'.what = IF Meant(p) \in T(p).sentNull \cup {"NULL"} THEN "null"
                             ELSE IF f = "string" /\ var[p].val = "zero" THEN "empty" ELSE "good"
      BY <1>3 DEF Sent, RoundedValue
    <2>5. CarriedOK'
      <3>1. carried' = [in |-> "text", form |-> T(p).form, val |-> v, from |-> p, meant |-> Meant(p),
                        what |-> IF Meant(p) \in T(p).sentNull \cup {"NULL"} THEN "null"
                                 ELSE IF f = "string" /\ var[p].val = "zero" THEN "empty" ELSE "good"]
        BY <1>3 DEF Sent, RoundedValue
      <3> HIDE DEF v
      <3> QED
        BY <2>1, <2>2, <2>3, <3>1 DEF CarriedOK, Sources
    <2>6. \A q \in Vars : Family(q)' = f
      BY <1>1, <2>1 DEF Family, T
    <2>7. var[p].val = "zero" => v = "zero"
      BY DEF RoundedValue
    <2>8. Traveller'
      <3> HIDE DEF v
      <3> QED
        BY <2>3, <2>4, <2>6, <2>7 DEF Traveller
    <2>9. Faithful'
      <3>1. Meant(p) \in T(p).sentNull \cup {"NULL"} => Meant(p) \in {"zero", "NULL"}
        BY <2>1 DEF Law
      <3>2. Meant(p) # "NULL" => Meant(p) = var[p].val
        BY DEF Meant
      <3>3. v = RoundedValue(var[p].val)
        OBVIOUS
      <3> HIDE DEF v
      <3> QED
        BY <2>4, <2>6, <3>1, <3>2, <3>3 DEF Faithful
    <2> QED
      BY <1>1, <2>5, <2>8, <2>9, SameVariables DEF CarriedInv
  <1> QED
    BY <1>1, <1>2, <1>3

LEMMA ReplaceInv == ASSUME ValuesInv, Replace PROVE ValuesInv'
  <1> USE DEF ValuesInv
  <1>1. UNCHANGED <<type, var, torn>>
    BY DEF Replace
  <1>2. PICK p \in Vars, in \in {"cell", "text"}, what \in {"null", "empty", "bad", "other"} :
           /\ what = "other" => in = "cell"
           /\ what = "bad" /\ in = "cell" => Family(p) # "string"
           /\ carried' = [Nothing EXCEPT !.in = in, !.what = what,
                             !.val = IF what = "other" THEN "a" ELSE "zero",
                             !.meant = IF what = "null" THEN "NULL" ELSE IF what = "other" THEN "a" ELSE "zero"]
    BY DEF Replace
  <1>3. \A q \in Vars : Family(q) = Family(p) /\ "zero" \in ValuesOf(Family(q))
    BY FamilyOf, ValuesAre DEF VariablesInv, VariablesOK
  <1>4. carried' = [in |-> in, what |-> what, form |-> "plain",
                    val |-> IF what = "other" THEN "a" ELSE "zero", from |-> Nobody,
                    meant |-> IF what = "null" THEN "NULL" ELSE IF what = "other" THEN "a" ELSE "zero"]
    BY <1>2 DEF Nothing
  <1>5. CarriedOK'
    BY <1>4 DEF CarriedOK, Sources, Forms, Held
  <1>6. \A q \in Vars : Family(q)' = Family(p)
    BY <1>1, <1>3 DEF Family, T
  <1>7. Traveller'
    BY <1>2, <1>3, <1>4, <1>6 DEF Traveller
  <1>8. Faithful'
    BY <1>4 DEF Faithful
  <1> QED
    BY <1>1, <1>5, <1>7, <1>8, SameVariables DEF CarriedInv

LEMMA ConvertsAre ==
  \A c \in Converts :
      /\ c[3] \in {"copy", "take", "wrap", "quote"}
      /\ c[3] = "copy" => c[1] = c[2]
      /\ c[3] = "quote" => c[1] \in {"String", "NullString", "Text", "NullText"}
  BY DEF Converts, IntConverts, SerialConverts, BoolConverts, FloatConverts, StringConverts, TextConverts,
         NullTextConverts, TimeConverts, NullTimeConverts, DecimalConverts, NullDecimalConverts,
         UUIDv4Converts, UUID58Converts, UUIDOfConverts, JsonBConverts, NullJsonBConverts

LEMMA TextsAreStrings ==
  \A n \in {"String", "NullString", "Text", "NullText"} : Types[n].family = "string"
  <1>1. /\ Types["String"] = String /\ Types["NullString"] = NullString
        /\ Types["Text"] = Text /\ Types["NullText"] = NullText
    BY DEF Types
  <1>2. /\ String.family = "string" /\ NullString.family = "string"
        /\ Text.family = "string" /\ NullText.family = "string"
    BY DEF String, NullString, Text, NullText, Type
  <1> QED
    BY <1>1, <1>2

\* What arrives at p: q's value, or its value without its flag, or its JSON.
Converted(how, y) ==
    CASE how = "copy"  -> y
      [] how = "take"  -> [y EXCEPT !.valid = TRUE]
      [] how = "wrap"  -> [y EXCEPT !.valid = TRUE, !.into = NoStruct]
      [] how = "quote" -> [y EXCEPT !.valid = TRUE, !.val = "quoted"]

LEMMA ConvertedFrom ==
  ASSUME NEW p \in Vars, NEW q \in Vars, ConvertFrom(p, q)
  PROVE  \E how \in {"copy", "take", "wrap", "quote"} :
            /\ var' = [var EXCEPT ![p] = Converted(how, var[q])]
            /\ how = "copy" => type[p] = type[q]
            /\ how = "quote" => Family(p) = "string"
  <1>1. PICK how \in HowConverted(p, q) :
           var' = [var EXCEPT ![p] =
                      CASE how = "copy"  -> var[q]
                        [] how = "take"  -> [var[q] EXCEPT !.valid = TRUE]
                        [] how = "wrap"  -> [var[q] EXCEPT !.valid = TRUE, !.into = NoStruct]
                        [] how = "quote" -> [var[q] EXCEPT !.valid = TRUE, !.val = "quoted"]]
    BY DEF ConvertFrom
  <1>2. PICK c \in Converts : c[1] = type[p] /\ c[2] = type[q] /\ how = c[3]
    BY DEF HowConverted
  <1>3. /\ how \in {"copy", "take", "wrap", "quote"}
        /\ how = "copy" => type[p] = type[q]
        /\ how = "quote" => type[p] \in {"String", "NullString", "Text", "NullText"}
    BY <1>2, ConvertsAre
  <1>4. how = "quote" => Family(p) = "string"
    BY <1>3, TextsAreStrings DEF Family, T
  <1> QED
    BY <1>1, <1>3, <1>4 DEF Converted

LEMMA ConvertFromInv == ASSUME ValuesInv, NEW p \in Vars, NEW q \in Vars, ConvertFrom(p, q) PROVE ValuesInv'
  <1> USE DEF ValuesInv
  <1>1. PICK how \in {"copy", "take", "wrap", "quote"} :
              /\ var' = [var EXCEPT ![p] = Converted(how, var[q])]
              /\ how = "copy" => type[p] = type[q]
              /\ how = "quote" => Family(p) = "string"
    BY ConvertedFrom
  <1>2. /\ type' = type /\ carried' = carried
        /\ torn' = IF q \in torn THEN torn \cup {p} ELSE torn \ {p}
    BY DEF ConvertFrom
  <1> DEFINE x == Converted(how, var[q])
  <1>3. var[q] \in [val : Held, valid : BOOLEAN, into : Nat] /\ Family(q) = Family(p)
        /\ var[q].val \in ValuesOf(Family(p))
    BY DEF VariablesInv, VariablesOK
  <1>4. /\ x \in [val : Held, valid : BOOLEAN, into : Nat]
        /\ x.val = IF how = "quote" THEN "quoted" ELSE var[q].val
        /\ x.into = IF how = "wrap" THEN NoStruct ELSE var[q].into
        /\ ~x.valid => how = "copy" /\ ~var[q].valid
    <2>1. CASE how = "copy"
      BY <1>3, <2>1 DEF Converted
    <2>2. CASE how = "take"
      BY <1>3, <2>2 DEF Converted
    <2>3. CASE how = "wrap"
      BY <1>3, <2>3 DEF Converted, NoStruct
    <2>4. CASE how = "quote"
      BY <1>3, <2>4 DEF Converted, Held
    <2> QED
      BY <1>1, <2>1, <2>2, <2>3, <2>4
  <1>5. var' = [var EXCEPT ![p] = x]
    BY <1>1
  <1> HIDE DEF x
  <1>6. x.val \in ValuesOf(Family(p))
    BY <1>1, <1>3, <1>4, ValuesAre
  <1>7. x.into # NoStruct =>
           /\ Family(p) = "json"
           /\ \A r \in Vars \ {p} : var[r].into = x.into => var[r].val = x.val
    BY <1>1, <1>3, <1>4 DEF VariablesInv, Shared
  <1>8. ~x.valid =>
           /\ T(p).nullable
           /\ Reviving(T(p)) \/ (p \notin torn' /\ x.into = NoStruct) => x.val = "zero"
    BY <1>1, <1>2, <1>4 DEF VariablesInv, NullIsZero, Unsafe, T
  <1>9. torn' \subseteq Vars /\ torn' \ {p} = torn \ {p}
    BY <1>2 DEF VariablesInv, VariablesOK
  <1>10. VariablesInv'
    BY <1>2, <1>4, <1>5, <1>6, <1>7, <1>8, <1>9, OneVariable
  <1> QED
    BY <1>2, <1>10, SameCarried

LEMMA ConvertFailsInv ==
  ASSUME ValuesInv, NEW p \in Vars, NEW q \in Vars, ConvertFails(p, q) PROVE ValuesInv'
  <1> USE DEF ValuesInv
  <1>1. UNCHANGED <<type, var, carried>> /\ torn' = torn \cup {p}
    BY DEF ConvertFails
  <1>2. VariablesOK'
    BY <1>1 DEF VariablesInv, VariablesOK, Family, T
  <1>3. Shared'
    BY <1>1 DEF VariablesInv, Shared, Family, T
  <1>4. NullIsZero'
    BY <1>1 DEF VariablesInv, NullIsZero, Unsafe, T
  <1> QED
    BY <1>1, <1>2, <1>3, <1>4, SameCarried DEF VariablesInv

\* What After makes of the variable is a value of its family.
LEMMA AfterIs ==
  ASSUME ValuesInv, NEW p \in Vars, NEW o \in Outcomes(T(p)), NEW x, x = After(o, var[p], carried.val)
  PROVE  /\ x \in [val : Held, valid : BOOLEAN, into : Nat]
         /\ x.val \in ValuesOf(Family(p))
         /\ x.valid <=> o.valid = "yes" \/ (o.valid = "old" /\ var[p].valid)
         /\ x.into = IF x.val = "zero" THEN NoStruct ELSE var[p].into
         /\ o.val = "old" => x.val = var[p].val
         /\ o.val \in {"zero", "nought"} => x.val = o.val
         /\ o.val = "new" /\ (var[p].into = NoStruct \/ carried.val = "zero") => x.val = carried.val
  <1> USE DEF ValuesInv, VariablesInv, CarriedInv
  <1> DEFINE y == var[p]
             f == Family(p)
             w == CASE o.val = "old"  -> y.val
                    [] o.val = "new"  -> IF y.into # NoStruct /\ carried.val # "zero"
                                         THEN Merged(y.val, carried.val) ELSE carried.val
                    [] OTHER          -> o.val
  <1>1. /\ o \in OutcomeSet
        /\ o.val = "new" => carried.val \in ValuesOf(f)
        /\ o.val = "nought" => f = "decimal"
    BY ReadingLaw
  <1>2. y \in [val : Held, valid : BOOLEAN, into : Nat] /\ y.val \in ValuesOf(f) /\ f \in Families
    BY FamilyOf DEF VariablesOK
  <1>3. y.into # NoStruct => f = "json"
    BY DEF Shared
  <1>4. w \in ValuesOf(f)
    <2>1. CASE o.val = "old"
      BY <1>2, <2>1
    <2>2. CASE o.val = "new"
      <3>1. y.into # NoStruct => Merged(y.val, carried.val) \in ValuesOf(f)
        BY <1>1, <1>2, <1>3, <2>2, ValuesAre
      <3> QED
        BY <1>1, <2>2, <3>1
    <2>3. CASE o.val \in {"zero", "nought"}
      BY <1>1, <1>2, <2>3, ValuesAre
    <2> QED
      BY <1>1, <2>1, <2>2, <2>3 DEF OutcomeSet
  <1>5. w \in Held
    BY <1>2, <1>4, ValuesAre
  <1>6. x = [val |-> w, valid |-> o.valid = "yes" \/ (o.valid = "old" /\ y.valid),
             into |-> IF w = "zero" THEN NoStruct ELSE y.into]
    BY DEF After
  <1>7. /\ o.val = "old" => w = y.val
        /\ o.val \in {"zero", "nought"} => w = o.val
        /\ o.val = "new" /\ (y.into = NoStruct \/ carried.val = "zero") => w = carried.val
    OBVIOUS
  <1> HIDE DEF w
  <1>8. o.valid \in {"yes", "no", "old"} /\ y.valid \in BOOLEAN /\ y.into \in Nat /\ NoStruct \in Nat
    BY <1>1, <1>2 DEF OutcomeSet, NoStruct
  <1>9. PICK b \in BOOLEAN : b = (o.valid = "yes" \/ (o.valid = "old" /\ y.valid))
    OBVIOUS
  <1>10. x = [val |-> w, valid |-> b, into |-> IF w = "zero" THEN NoStruct ELSE y.into]
    BY <1>6, <1>9
  <1>11. x.val = w /\ x.valid = b /\ x.into = IF w = "zero" THEN NoStruct ELSE y.into
    BY <1>10
  <1>12. x \in [val : Held, valid : BOOLEAN, into : Nat]
    BY <1>5, <1>8, <1>10
  <1> QED
    BY <1>4, <1>7, <1>9, <1>11, <1>12

\* What a reading leaves: x at p, and its value at those that share its struct.
LEMMA ReadIs ==
  ASSUME ValuesInv, NEW p \in Vars, Read(p)
  PROVE  \E o \in Outcomes(T(p)) :
            LET x == After(o, var[p], carried.val)
            IN
               /\ type' = type
               /\ var' \in [Vars -> [val : Held, valid : BOOLEAN, into : Nat]]
               /\ var'[p] = x
               /\ \A q \in Vars \ {p} :
                     /\ var'[q].into = var[q].into /\ var'[q].valid = var[q].valid
                     /\ x.into # NoStruct /\ var[q].into = x.into => var'[q].val = x.val
                     /\ ~(x.into # NoStruct /\ var[q].into = x.into) => var'[q] = var[q]
               /\ torn' = IF o.err THEN torn \cup {p} ELSE IF o.val = "old" THEN torn ELSE torn \ {p}
               /\ last' = Did("read", p, o.err)
  <1>1. PICK o \in Outcomes(T(p)) :
           /\ Put(p, After(o, var[p], carried.val))
           /\ last' = Did("read", p, o.err)
           /\ torn' = IF o.err THEN torn \cup {p} ELSE IF o.val = "old" THEN torn ELSE torn \ {p}
    BY DEF Read
  <1> DEFINE x == After(o, var[p], carried.val)
  <1>2. x \in [val : Held, valid : BOOLEAN, into : Nat]
    BY AfterIs
  <1>3. type' = type /\ var \in [Vars -> [val : Held, valid : BOOLEAN, into : Nat]]
    BY DEF Read, ValuesInv, VariablesInv, VariablesOK
  <1>4. var' = [q \in Vars |->
                  IF q = p THEN x
                  ELSE IF x.into # NoStruct /\ var[q].into = x.into THEN [var[q] EXCEPT !.val = x.val]
                  ELSE var[q]]
    BY <1>1 DEF Put
  <1> HIDE DEF x
  <1>5. var'[p] = x
    BY <1>4
  <1>6. \A q \in Vars \ {p} :
           /\ x.into # NoStruct /\ var[q].into = x.into => var'[q] = [var[q] EXCEPT !.val = x.val]
           /\ ~(x.into # NoStruct /\ var[q].into = x.into) => var'[q] = var[q]
    BY <1>4
  <1>7. \A q \in Vars \ {p} :
           /\ var'[q].into = var[q].into /\ var'[q].valid = var[q].valid
           /\ x.into # NoStruct /\ var[q].into = x.into => var'[q].val = x.val
           /\ var'[q] \in [val : Held, valid : BOOLEAN, into : Nat]
    <2> SUFFICES ASSUME NEW q \in Vars \ {p}
                 PROVE  /\ var'[q].into = var[q].into /\ var'[q].valid = var[q].valid
                        /\ x.into # NoStruct /\ var[q].into = x.into => var'[q].val = x.val
                        /\ var'[q] \in [val : Held, valid : BOOLEAN, into : Nat]
      OBVIOUS
    <2>1. var[q] \in [val : Held, valid : BOOLEAN, into : Nat] /\ x.val \in Held
      BY <1>2, <1>3
    <2>2. CASE x.into # NoStruct /\ var[q].into = x.into
      BY <1>6, <2>1, <2>2
    <2>3. CASE ~(x.into # NoStruct /\ var[q].into = x.into)
      BY <1>6, <2>1, <2>3
    <2> QED
      BY <2>2, <2>3
  <1>8. var' \in [Vars -> [val : Held, valid : BOOLEAN, into : Nat]]
    BY <1>2, <1>4, <1>5, <1>7
  <1> QED
    BY <1>1, <1>3, <1>5, <1>6, <1>7, <1>8 DEF x

\* A reading keeps the variables right, those that share the struct included.
LEMMA ReadVariables == ASSUME ValuesInv, NEW p \in Vars, Read(p) PROVE VariablesInv'
  <1> USE DEF ValuesInv, VariablesInv
  <1>0. PICK o \in Outcomes(T(p)) :
           LET x == After(o, var[p], carried.val)
           IN
           /\ type' = type
           /\ var' \in [Vars -> [val : Held, valid : BOOLEAN, into : Nat]]
           /\ var'[p] = x
           /\ \A q \in Vars \ {p} :
                 /\ var'[q].into = var[q].into /\ var'[q].valid = var[q].valid
                 /\ x.into # NoStruct /\ var[q].into = x.into => var'[q].val = x.val
                 /\ ~(x.into # NoStruct /\ var[q].into = x.into) => var'[q] = var[q]
           /\ torn' = IF o.err THEN torn \cup {p} ELSE IF o.val = "old" THEN torn ELSE torn \ {p}
    BY ReadIs
  <1> DEFINE x == After(o, var[p], carried.val)
  <1>1. /\ type' = type
        /\ var' \in [Vars -> [val : Held, valid : BOOLEAN, into : Nat]]
        /\ var'[p] = x
        /\ \A q \in Vars \ {p} :
              /\ var'[q].into = var[q].into /\ var'[q].valid = var[q].valid
              /\ x.into # NoStruct /\ var[q].into = x.into => var'[q].val = x.val
              /\ ~(x.into # NoStruct /\ var[q].into = x.into) => var'[q] = var[q]
        /\ torn' = IF o.err THEN torn \cup {p} ELSE IF o.val = "old" THEN torn ELSE torn \ {p}
    BY <1>0
  <1>2. /\ x.val \in ValuesOf(Family(p))
        /\ x.valid <=> o.valid = "yes" \/ (o.valid = "old" /\ var[p].valid)
        /\ x.into = IF x.val = "zero" THEN NoStruct ELSE var[p].into
        /\ o.val = "old" => x.val = var[p].val
        /\ o.val \in {"zero", "nought"} => x.val = o.val
    BY AfterIs
  <1> HIDE DEF x
  <1>3. /\ o \in OutcomeSet
        /\ o.valid = "no" => T(p).nullable /\ o.val \in {"zero", "old"}
        /\ o.valid = "old" => o.val \in {"zero", "old"}
        /\ o.val = "old" /\ o.valid = "no" => o.err /\ ~Reviving(T(p))
    BY ReadingLaw DEF CarriedInv
  <1>4. \A q \in Vars : T(q)' = T(q) /\ Family(q)' = Family(q) /\ Family(q) = Family(p)
    BY <1>1 DEF T, Family, VariablesOK
  <1>5. VariablesOK'
    <2>1. \A q \in Vars : var'[q].val \in ValuesOf(Family(q))
      BY <1>1, <1>2, <1>4 DEF VariablesOK
    <2>2. torn' \subseteq Vars
      BY <1>1 DEF VariablesOK
    <2> QED
      BY <1>1, <1>4, <2>1, <2>2 DEF VariablesOK
  <1>6. Shared'
    BY <1>1, <1>2, <1>4 DEF Shared
  <1>7. NullIsZero'
    <2>1. \A q \in Vars \ {p} : ~var'[q].valid =>
              T(q).nullable /\ (Reviving(T(q)) \/ ~(q \in torn' \/ var'[q].into # NoStruct) => var'[q].val = "zero")
      <3> SUFFICES ASSUME NEW q \in Vars \ {p}, ~var'[q].valid
                   PROVE  /\ T(q).nullable
                          /\ Reviving(T(q)) \/ ~(q \in torn' \/ var'[q].into # NoStruct) => var'[q].val = "zero"
        OBVIOUS
      <3>1. /\ T(q).nullable
            /\ Reviving(T(q)) \/ ~(q \in torn \/ var[q].into # NoStruct) => var[q].val = "zero"
        BY <1>1 DEF NullIsZero, Unsafe
      <3>2. var[q].into # NoStruct => ~Reviving(T(q))
        BY LawOf, FamilyOf DEF Shared, Law
      <3>3. q \in torn' <=> q \in torn
        BY <1>1
      <3> QED
        BY <1>1, <3>1, <3>2, <3>3
    <2>2. ~x.valid => T(p).nullable
      BY <1>2, <1>3 DEF NullIsZero, OutcomeSet
    <2>3. ~x.valid /\ Reviving(T(p)) => x.val = "zero"
      BY <1>2, <1>3 DEF NullIsZero, OutcomeSet
    <2>4. ~x.valid /\ ~(p \in torn' \/ x.into # NoStruct) => x.val = "zero"
      BY <1>1, <1>2, <1>3 DEF NullIsZero, Unsafe, OutcomeSet
    <2> QED
      BY <1>1, <1>4, <2>1, <2>2, <2>3, <2>4 DEF NullIsZero, Unsafe
  <1> QED
    BY <1>5, <1>6, <1>7

LEMMA ReadInv == ASSUME ValuesInv, NEW p \in Vars, Read(p) PROVE ValuesInv'
  <1> USE DEF ValuesInv
  <1>1. VariablesInv'
    BY ReadVariables
  <1>2. type' = type /\ carried' = IF UsesUp(T(p)) THEN [carried EXCEPT !.what = "bad"] ELSE carried
    BY DEF Read
  <1>3. CASE UsesUp(T(p))
    <2>1. /\ carried' = [carried EXCEPT !.what = "bad"]
          /\ carried.in = "text" /\ carried.what = "good"
      BY <1>2, <1>3 DEF UsesUp
    <2>2. CarriedOK'
      BY <2>1 DEF CarriedInv, CarriedOK, Sources
    <2>3. carried'.in = "text" /\ carried'.what = "bad" /\ carried'.val = carried.val /\ carried'.from = carried.from
      BY <2>1 DEF CarriedInv, CarriedOK
    <2>4. Traveller' /\ Faithful'
      BY <1>2, <2>1, <2>3 DEF CarriedInv, Traveller, Faithful, Family, T
    <2> QED
      BY <1>1, <2>2, <2>4 DEF CarriedInv
  <1>4. CASE ~UsesUp(T(p))
    BY <1>1, <1>2, <1>4, SameCarried
  <1> QED
    BY <1>3, <1>4

\* What is left of a document that was read in part: another value in the struct,
\* which all that point to it have.
LEMMA PartIs ==
  ASSUME ValuesInv, NEW p \in Vars, ReadInPart(p)
  PROVE  /\ UNCHANGED <<type, carried>>
         /\ torn' = torn \cup {p}
         /\ last' = Did("read", p, TRUE)
         /\ var' \in [Vars -> [val : Held, valid : BOOLEAN, into : Nat]]
         /\ var[p].into # NoStruct
         /\ var'[p].val \in ValuesOf(Family(p)) /\ (~var'[p].valid => T(p).nullable)
         /\ \A q \in Vars : var'[q].into = var[q].into
         /\ \A q \in Vars \ {p} :
               /\ var'[q].valid = var[q].valid
               /\ var[q].into = var[p].into => var'[q].val = var'[p].val
               /\ var[q].into # var[p].into => var'[q] = var[q]
  <1> USE DEF ValuesInv, VariablesInv
  <1>1. PICK v \in {"a", "b"} :
           Put(p, [var[p] EXCEPT !.val = Merged(var[p].val, v), !.valid = ~T(p).nullable])
    BY DEF ReadInPart
  <1> DEFINE x == [var[p] EXCEPT !.val = Merged(var[p].val, v), !.valid = ~T(p).nullable]
  <1>2. /\ var \in [Vars -> [val : Held, valid : BOOLEAN, into : Nat]]
        /\ var[p].val \in ValuesOf(Family(p)) /\ var[p].into # NoStruct
        /\ Family(p) = "json"
    BY DEF VariablesOK, Shared, ReadInPart
  <1>3. Merged(var[p].val, v) \in ValuesOf("json") /\ ValuesOf("json") \subseteq Held
    BY <1>2 DEF Merged, ValuesOf, Held
  <1>4. T(p).nullable \in BOOLEAN
    BY LawOf DEF Law
  <1>5. /\ x \in [val : Held, valid : BOOLEAN, into : Nat]
        /\ x.val \in ValuesOf("json") /\ x.into = var[p].into /\ (~x.valid => T(p).nullable)
    <2>1. PICK w \in Held, b \in BOOLEAN :
             w = Merged(var[p].val, v) /\ b = ~T(p).nullable
      BY <1>3, <1>4
    <2>2. var[p] \in [val : Held, valid : BOOLEAN, into : Nat]
      BY <1>2
    <2>3. x = [val |-> w, valid |-> b, into |-> var[p].into]
      <3>1. x = [var[p] EXCEPT !.val = w, !.valid = b]
        BY <2>1
      <3> HIDE DEF x
      <3> QED
        BY <2>2, <3>1
    <2>4. w \in ValuesOf("json") /\ var[p].into \in Nat
      BY <1>3, <2>1, <2>2
    <2>5. ~b => T(p).nullable
      BY <2>1
    <2> HIDE DEF x
    <2>6. x.val = w /\ x.valid = b /\ x.into = var[p].into
      BY <2>3
    <2> QED
      BY <2>3, <2>4, <2>5, <2>6
  <1>6. var' = [q \in Vars |->
                  IF q = p THEN x
                  ELSE IF x.into # NoStruct /\ var[q].into = x.into THEN [var[q] EXCEPT !.val = x.val]
                  ELSE var[q]]
    BY <1>1 DEF Put
  <1> HIDE DEF x
  <1>7. var'[p] = x
    BY <1>6
  <1>8. ASSUME NEW q \in Vars \ {p}
        PROVE  /\ var'[q] \in [val : Held, valid : BOOLEAN, into : Nat]
               /\ var'[q].valid = var[q].valid /\ var'[q].into = var[q].into
               /\ var[q].into = var[p].into => var'[q].val = x.val
               /\ var[q].into # var[p].into => var'[q] = var[q]
    <2>1. CASE var[q].into = var[p].into
      <3>1. var'[q] = [var[q] EXCEPT !.val = x.val]
        BY <1>2, <1>5, <1>6, <2>1
      <3> QED
        BY <1>2, <1>5, <2>1, <3>1
    <2>2. CASE var[q].into # var[p].into
      <3>1. var'[q] = var[q]
        BY <1>5, <1>6, <2>2
      <3> QED
        BY <1>2, <2>2, <3>1
    <2> QED
      BY <2>1, <2>2
  <1>9. var' \in [Vars -> [val : Held, valid : BOOLEAN, into : Nat]]
    BY <1>5, <1>6, <1>7, <1>8
  <1> QED
    BY <1>2, <1>5, <1>7, <1>8, <1>9 DEF ReadInPart

LEMMA PartInv == ASSUME ValuesInv, NEW p \in Vars, ReadInPart(p) PROVE ValuesInv'
  <1> USE DEF ValuesInv, VariablesInv
  <1>1. /\ UNCHANGED <<type, carried>>
        /\ torn' = torn \cup {p}
        /\ var' \in [Vars -> [val : Held, valid : BOOLEAN, into : Nat]]
        /\ var[p].into # NoStruct
        /\ var'[p].val \in ValuesOf(Family(p)) /\ (~var'[p].valid => T(p).nullable)
        /\ \A q \in Vars : var'[q].into = var[q].into
        /\ \A q \in Vars \ {p} :
              /\ var'[q].valid = var[q].valid
              /\ var[q].into = var[p].into => var'[q].val = var'[p].val
              /\ var[q].into # var[p].into => var'[q] = var[q]
    BY PartIs
  <1>2. \A q \in Vars : T(q)' = T(q) /\ Family(q)' = Family(q) /\ Family(q) = Family(p)
    BY <1>1 DEF T, Family, VariablesOK
  <1>3. VariablesOK'
    <2>1. \A q \in Vars : var'[q].val \in ValuesOf(Family(q))
      BY <1>1, <1>2 DEF VariablesOK
    <2> QED
      BY <1>1, <1>2, <2>1 DEF VariablesOK
  <1>4. Shared'
    BY <1>1, <1>2 DEF Shared
  <1>5. NullIsZero'
    <2> SUFFICES ASSUME NEW q \in Vars, ~var'[q].valid
                 PROVE  /\ T(q).nullable
                        /\ Reviving(T(q)) \/ ~(q \in torn' \/ var'[q].into # NoStruct)
                              => var'[q].val = "zero"
      BY <1>2 DEF NullIsZero, Unsafe
    <2>1. var[q].into # NoStruct => ~Reviving(T(q))
      BY LawOf, FamilyOf DEF Shared, Law
    <2>2. CASE q = p
      BY <1>1, <2>1, <2>2
    <2>3. CASE q # p
      <3>1. /\ T(q).nullable
            /\ Reviving(T(q)) \/ ~(q \in torn \/ var[q].into # NoStruct) => var[q].val = "zero"
        BY <1>1, <2>3 DEF NullIsZero, Unsafe
      <3> QED
        BY <1>1, <2>1, <2>3, <3>1
    <2> QED
      BY <2>2, <2>3
  <1> QED
    BY <1>1, <1>3, <1>4, <1>5, SameCarried

LEMMA ValuesNextInv == ValuesInv /\ [ValuesNext]_valueVars => ValuesInv'
  <1> SUFFICES ASSUME ValuesInv, [ValuesNext]_valueVars PROVE ValuesInv'
    OBVIOUS
  <1>1. CASE UNCHANGED valueVars
    BY <1>1, SameVariables, SameCarried DEF valueVars, ValuesInv
  <1>2. CASE Replace
    BY <1>2, ReplaceInv
  <1>3. ASSUME NEW p \in Vars, Assign(p) \/ Store(p) \/ Send(p) \/ Scan(p) \/ UnmarshalJSON(p) PROVE ValuesInv'
    BY <1>3, AssignInv, StoreInv, SendInv, ReadInv, PartInv DEF Scan, UnmarshalJSON
  <1>4. ASSUME NEW p \in Vars, NEW q \in Vars, ConvertFrom(p, q) \/ ConvertFails(p, q) PROVE ValuesInv'
    BY <1>4, ConvertFromInv, ConvertFailsInv
  <1> QED
    BY <1>1, <1>2, <1>3, <1>4 DEF ValuesNext

\* In every state the variables hold values of their family, two that point to
\* one struct hold the same, a value under a reset flag is zero but after an
\* error, and what is carried says what was meant (all Scan, UnmarshalJSON,
\* Value, MarshalJSON and ConvertFrom).
THEOREM ValuesInvHolds == ValuesSpec => []ValuesInv
  <1> QED
    BY ValuesInitInv, ValuesNextInv, PTL DEF ValuesSpec

-----------------------------------------------------------------------------
\* What an outcome that is read without an error has arrived as.
LEMMA NullArrives ==
  ASSUME ValuesInv, NEW p \in Vars, NEW o \in Outcomes(T(p)), o \in NullOutcomes(T(p)),
         NEW meant \in {"zero", "NULL"}, carried.what = "null"
  PROVE  ~o.err /\ Arrived(T(p), After(o, var[p], carried.val), meant)
  <1>1. /\ ~o.err
        /\ IF T(p).nullable THEN o.valid = "no" ELSE o.valid = "yes" /\ o.val \in {"zero", "nought"}
    BY OutcomesAre DEF NullOutcomes
  <1> DEFINE x == After(o, var[p], carried.val)
  <1>2. /\ x.valid <=> o.valid = "yes" \/ (o.valid = "old" /\ var[p].valid)
        /\ o.val \in {"zero", "nought"} => x.val = o.val
    BY AfterIs
  <1> HIDE DEF x
  <1>3. Arrived(T(p), x, meant)
    BY <1>1, <1>2 DEF Arrived, Plain
  <1> QED
    BY <1>1, <1>3 DEF x

LEMMA ValueArrives ==
  ASSUME ValuesInv, NEW p \in Vars, NEW o \in Outcomes(T(p)), o = Got, var[p].into = NoStruct,
         NEW meant, Plain(carried.val) = Plain(meant)
  PROVE  ~o.err /\ Arrived(T(p), After(o, var[p], carried.val), meant)
  <1>1. ~o.err /\ o.val = "new" /\ o.valid = "yes"
    BY OutcomesAre
  <1> DEFINE x == After(o, var[p], carried.val)
  <1>2. x.valid /\ x.val = carried.val
    BY <1>1, AfterIs
  <1> HIDE DEF x
  <1>3. Arrived(T(p), x, meant)
    BY <1>2 DEF Arrived
  <1> QED
    BY <1>1, <1>3 DEF x

\* NULL arrives as NullArrives says, anything else as ValueArrives says.
LEMMA StoredComesBackInv == ValuesInv => StoredComesBack
  <1> SUFFICES ASSUME ValuesInv, carried.in = "cell", carried.from # Nobody, NEW p \in Vars,
                      type[p] \notin {"Text", "XIDJsonTyped"}, var[p].into = NoStruct,
                      ~(Deaf(T(p)) /\ carried.what = "null"),
                      NEW o \in Outcomes(T(p))
               PROVE  ~o.err /\ Arrived(T(p), After(o, var[p], carried.val), carried.meant)
    BY DEF StoredComesBack
  <1> DEFINE t == T(p)
  <1>1. Law(type[p], t) /\ Family(p) = t.family
    BY LawOf, FamilyOf DEF ValuesInv, VariablesInv
  <1>2. /\ carried.what \in {"null", "empty", "good"}
        /\ carried.what = "null" => carried.meant \in {"zero", "NULL"}
        /\ carried.what = "empty" => carried.meant = "zero" /\ carried.val = "zero" /\ t.family = "string"
        /\ carried.what = "good" => Plain(carried.val) = Plain(carried.meant)
    BY <1>1 DEF ValuesInv, CarriedInv, CarriedOK, Faithful, Traveller, Sources
  <1>3. Reading(t) = t.scan[carried.what]
    BY DEF Reading
  <1>4. CASE carried.what = "null"
    <2>1. Reading(t) \in NullOutcomes(t)
      BY <1>1, <1>3, <1>4 DEF Law, ScanLaw, Silent
    <2>2. o = Reading(t)
      BY <2>1, OutcomesAre DEF Outcomes, NullOutcomes
    <2> QED
      BY <1>2, <1>4, <2>1, <2>2, NullArrives
  <1>5. CASE carried.what \in {"empty", "good"}
    <2>1. Reading(t) = Got
      BY <1>1, <1>2, <1>3, <1>5 DEF Law, ScanLaw, Silent
    <2>2. o = Got
      BY <2>1, OutcomesAre DEF Outcomes
    <2>3. Plain(carried.val) = Plain(carried.meant)
      BY <1>2, <1>5
    <2> QED
      BY <2>2, <2>3, ValueArrives
  <1> QED
    BY <1>2, <1>4, <1>5

LEMMA SentComesBackInv == ValuesInv => SentComesBack
  <1> SUFFICES ASSUME ValuesInv, carried.in = "text", carried.from # Nobody, carried.what # "bad",
                      NEW p \in Vars,
                      ~(carried.form \notin T(p).reads /\ carried.what = "good"), var[p].into = NoStruct,
                      ~(type[p] = "Text" /\ carried.what = "null"),
                      NEW o \in Outcomes(T(p))
               PROVE  ~o.err /\ Arrived(T(p), After(o, var[p], carried.val), RoundedValue(carried.meant))
    BY DEF SentComesBack
  <1> DEFINE t == T(p)
  <1>1. Law(type[p], t) /\ Family(p) = t.family
    BY LawOf, FamilyOf DEF ValuesInv, VariablesInv
  <1>2. /\ carried.what \in {"null", "empty", "good"}
        /\ carried.what = "null" => RoundedValue(carried.meant) \in {"zero", "NULL"}
        /\ carried.what = "empty" =>
              RoundedValue(carried.meant) = "zero" /\ carried.val = "zero" /\ t.family = "string"
        /\ carried.what = "good" => carried.val = RoundedValue(carried.meant)
    BY <1>1 DEF ValuesInv, CarriedInv, CarriedOK, Faithful, Traveller, Sources, RoundedValue
  <1>3. Reading(t) = t.json[carried.what]
    BY DEF Reading
  <1>4. CASE carried.what = "null"
    <2>1. Reading(t) \in NullOutcomes(t)
      BY <1>1, <1>3, <1>4 DEF Law, JsonLaw
    <2>2. o = Reading(t)
      BY <2>1, OutcomesAre DEF Outcomes, NullOutcomes
    <2> QED
      BY <1>2, <1>4, <2>1, <2>2, NullArrives
  <1>5. CASE carried.what \in {"empty", "good"}
    <2>1. Reading(t) = Got
      BY <1>1, <1>2, <1>3, <1>5 DEF Law, JsonLaw
    <2>2. o = Got
      BY <2>1, OutcomesAre DEF Outcomes
    <2>3. Plain(carried.val) = Plain(RoundedValue(carried.meant))
      BY <1>2, <1>5
    <2> QED
      BY <2>2, <2>3, ValueArrives
  <1> QED
    BY <1>2, <1>4, <1>5

\* What a variable stored, every type of its family reads from the column, NULLs
\* included (Scan and Value of all types).
THEOREM StoredValuesComeBack == ValuesSpec => []StoredComesBack
  <1> QED
    BY ValuesInvHolds, StoredComesBackInv, PTL

\* What a variable sent, every type that knows the form reads, to the millisecond
\* (MarshalJSON and UnmarshalJSON of all types).
THEOREM SentValuesComeBack == ValuesSpec => []SentComesBack
  <1> QED
    BY ValuesInvHolds, SentComesBackInv, PTL

-----------------------------------------------------------------------------
\* An error leaves the values, makes one zero, or NULL; a document that is read
\* in part shows in the struct that it was read into and nowhere else.
LEMMA FailureStep ==
  ASSUME ValuesInv, [ValuesNext]_valueVars, last'.err, NEW p \in Vars, type[p] # "Text"
  PROVE  \/ Meant(p)' \in {Meant(p), "zero", "NULL"}
         \/ var[p].into # NoStruct /\ Touched(p)'
  <1>1. CASE var' = var
    BY <1>1 DEF Meant
  <1>2. CASE Replace \/ \E q \in Vars : Assign(q) \/ Store(q) \/ Send(q)
    <2>1. var' = var \/ ~last'.err
      BY <1>2 DEF Replace, Assign, Store, Send, Did
    <2> QED
      BY <1>1, <2>1
  <1>3. CASE \E q, r \in Vars : ConvertFrom(q, r) \/ ConvertFails(q, r)
    <2>1. var' = var \/ ~last'.err
      BY <1>3 DEF ConvertFrom, ConvertFails, Did
    <2> QED
      BY <1>1, <2>1
  <1>4. ASSUME NEW q \in Vars, Read(q)
        PROVE  Meant(p)' \in {Meant(p), "zero", "NULL"}
    <2>0. PICK o \in Outcomes(T(q)) :
             LET x == After(o, var[q], carried.val)
             IN  /\ var'[q] = x
                 /\ \A r \in Vars \ {q} :
                       /\ var'[r].into = var[r].into /\ var'[r].valid = var[r].valid
                       /\ x.into # NoStruct /\ var[r].into = x.into => var'[r].val = x.val
                       /\ ~(x.into # NoStruct /\ var[r].into = x.into) => var'[r] = var[r]
                 /\ last' = Did("read", q, o.err)
      BY <1>4, ReadIs
    <2> DEFINE x == After(o, var[q], carried.val)
    <2>1. /\ var'[q] = x
          /\ \A r \in Vars \ {q} :
                /\ var'[r].into = var[r].into /\ var'[r].valid = var[r].valid
                /\ x.into # NoStruct /\ var[r].into = x.into => var'[r].val = x.val
                /\ ~(x.into # NoStruct /\ var[r].into = x.into) => var'[r] = var[r]
          /\ o.err
      BY <2>0 DEF Did
    <2>2. /\ x.valid <=> o.valid = "yes" \/ (o.valid = "old" /\ var[q].valid)
          /\ x.into = IF x.val = "zero" THEN NoStruct ELSE var[q].into
          /\ o.val = "old" => x.val = var[q].val
          /\ o.val \in {"zero", "nought"} => x.val = o.val
      BY <1>4, AfterIs
    <2> HIDE DEF x
    <2>3. /\ o.val \in {"old", "zero"} \/ type[q] = "Text"
          /\ o.val = "old" /\ o.valid = "yes" => Reviving(T(q))
          /\ o.valid \in {"yes", "no", "old"}
      BY <2>1, ReadingLaw DEF ValuesInv, VariablesInv, CarriedInv, OutcomeSet
    <2>4. CASE p = q
      BY <2>1, <2>2, <2>3, <2>4 DEF Meant, ValuesInv, VariablesInv, NullIsZero
    <2>5. CASE p # q
      <3>1. x.into # NoStruct =>
               /\ x.into = var[q].into
               /\ type[q] # "Text"
               /\ \A r \in Vars : var[r].into = x.into => var[r].val = var[q].val
        <4>1. x.into # NoStruct => x.into = var[q].into
          BY <2>2
        <4>2. type[q] = "Text" => Family(q) = "string"
          BY TextsAreStrings DEF Family, T
        <4> QED
          BY <4>1, <4>2 DEF ValuesInv, VariablesInv, Shared
      <3>2. x.into # NoStruct => x.val = var[q].val
        BY <2>2, <2>3, <3>1
      <3>3. var'[p].valid = var[p].valid /\ var'[p].val = var[p].val
        BY <2>1, <2>5, <3>1, <3>2
      <3> QED
        BY <3>3 DEF Meant
    <2> QED
      BY <2>4, <2>5
  <1>5. ASSUME NEW q \in Vars, ReadInPart(q)
        PROVE  \/ Meant(p)' \in {Meant(p), "zero", "NULL"}
               \/ var[p].into # NoStruct /\ Touched(p)'
    <2>1. /\ last'.of = q
          /\ var[q].into # NoStruct
          /\ \A s \in Vars : var'[s].into = var[s].into
          /\ \A s \in Vars \ {q} : var[s].into # var[q].into => var'[s] = var[s]
      BY <1>5, PartIs DEF Did
    <2>2. CASE var[p].into = var[q].into
      BY <2>1, <2>2 DEF Touched
    <2>3. CASE var[p].into # var[q].into
      <3>1. var'[p] = var[p]
        BY <2>1, <2>3
      <3> QED
        BY <3>1 DEF Meant
    <2> QED
      BY <2>2, <2>3
  <1> QED
    BY <1>1, <1>2, <1>3, <1>4, <1>5 DEF ValuesNext, Scan, UnmarshalJSON, valueVars

\* A call that returns an error shows no value that was not there, in whatever
\* variable (Scan, UnmarshalJSON and ConvertFrom of all types but Text), but for
\* the struct of a JsonB or NullJsonB, which the call itself read into.
THEOREM FailuresAreContained == ValuesSpec => FailureIsContained
  <1>1. ValuesInv /\ [ValuesNext]_valueVars =>
           [last'.err =>
              \A p \in Vars :
                  \/ Meant(p)' \in {Meant(p), "zero", "NULL"}
                  \/ type[p] = "Text"
                  \/ var[p].into # NoStruct /\ Touched(p)']_valueVars
    BY FailureStep
  <1> QED
    BY <1>1, ValuesInvHolds, PTL DEF ValuesSpec, FailureIsContained

-----------------------------------------------------------------------------
(***************************************************************************)
(* The refinement of ValueCopies, action by action.                        *)
(***************************************************************************)
LEMMA ContentsAre ==
  ASSUME VariablesOK, NEW p \in Vars
  PROVE  /\ \A v \in ValuesOf(Family(p)) : v \in Valuables /\ Plain(v) \in Valuables \ {"nought"}
         /\ "zero" \in Valuables \ {"nought"}
         /\ Family(p) = "string" => "a" \in Valuables \ {"nought"}
         /\ Plain(Meant(p)) \in (Valuables \ {"nought"}) \cup {"NULL"}
  <1>1. Family(p) \in Families /\ type[p] \in DOMAIN Types /\ Family(p) = Types[type[p]].family
    BY FamilyOf DEF VariablesOK, T
  <1>2. \A v \in ValuesOf(Family(p)) : v \in Valuables
    BY <1>1 DEF Valuables
  <1>3. "zero" \in ValuesOf(Family(p)) /\ (Family(p) = "string" => "a" \in ValuesOf(Family(p)))
    BY <1>1, ValuesAre
  <1>4. \A v \in ValuesOf(Family(p)) : Plain(v) \in Valuables \ {"nought"}
    BY <1>2, <1>3 DEF Plain
  <1>5. Meant(p) \in ValuesOf(Family(p)) \cup {"NULL"}
    BY DEF Meant, VariablesOK
  <1> QED
    BY <1>2, <1>3, <1>4, <1>5 DEF Plain

\* A step that changes one variable changes its place alone.
LEMMA OnePlace ==
  ASSUME NEW p \in Vars, torn' \ {p} = torn \ {p},
         \A q \in Vars \ {p} : var'[q].into = var[q].into /\ (var[q].into = NoStruct => var'[q] = var[q])
  PROVE  Place' = [Place EXCEPT ![p] = IF Unsafe(p)' THEN "unusable" ELSE Plain(Meant(p)')]
  <1>1. \A q \in Vars \ {p} : Unsafe(q)' = Unsafe(q) /\ (~Unsafe(q) => Meant(q)' = Meant(q))
    BY DEF Unsafe, Meant
  <1>2. Place' = [q \in Vars |-> IF Unsafe(q)' THEN "unusable" ELSE Plain(Meant(q)')]
    BY DEF Place, Plain
  <1> QED
    BY <1>1, <1>2 DEF Place

LEMMA SamePlace == ASSUME UNCHANGED <<var, torn>> PROVE Place' = Place
  BY DEF Place, Unsafe, Meant, Plain

LEMMA SameTransit == ASSUME UNCHANGED <<type, carried>> PROVE Transit' = Transit
  BY DEF Transit, Family, T, Plain

\* The types stay, and a call leaves its mark.
LEMMA DidCall ==
  ASSUME type' = type, NEW call, NEW of, NEW err, last' = Did(call, of, err)
  PROVE  Copies!Did(call, of, err)
  BY DEF Copies!Did, Did, T

LEMMA PlaceAt == ASSUME NEW p \in Vars PROVE Place[p] = IF Unsafe(p) THEN "unusable" ELSE Plain(Meant(p))
  BY DEF Place

LEMMA InitCopies == ASSUME ValuesInit PROVE Copies!Init
  <1>1. VariablesOK /\ \A p \in Vars : var[p].val = "zero" /\ ~Unsafe(p)
    BY ValuesInitInv DEF ValuesInv, VariablesInv, ValuesInit, Unsafe
  <1>2. Place \in [Vars -> {"zero", "NULL"}]
    BY <1>1 DEF Place, Plain, Meant
  <1>3. Transit = "unusable"
    BY DEF ValuesInit, Nothing, Transit
  <1> QED
    BY <1>2, <1>3 DEF ValuesInit, Did, Copies!Init

LEMMA AssignCopies == ASSUME ValuesInv, NEW p \in Vars, Assign(p) PROVE Copies!Assign(p)
  <1>1. PICK v \in ValuesOf(Family(p)) \ {"quoted"}, valid \in BOOLEAN, s \in {NoStruct} \cup Structs :
           var' = [var EXCEPT ![p] = [val |-> v, valid |-> valid, into |-> s]]
    BY DEF Assign
  <1>2. /\ type' = type /\ carried' = carried /\ torn' = torn \ {p}
        /\ last' = Did("assign", p, FALSE)
        /\ var \in [Vars -> [val : Held, valid : BOOLEAN, into : Nat]]
    BY DEF Assign, ValuesInv, VariablesInv, VariablesOK
  <1>3. Place' = [Place EXCEPT ![p] = IF Unsafe(p)' THEN "unusable" ELSE Plain(Meant(p)')]
    BY <1>1, <1>2, OnePlace
  <1>4. Meant(p)' = IF valid THEN v ELSE "NULL"
    BY <1>1, <1>2 DEF Meant
  <1>5. (IF Unsafe(p)' THEN "unusable" ELSE Plain(Meant(p)')) \in Copies!Contents
    BY <1>4, ContentsAre DEF Copies!Contents, ValuesInv, VariablesInv, Plain
  <1> QED
    BY <1>2, <1>3, <1>5, SameTransit, DidCall DEF Copies!Assign

\* What is made of a variable that is safe is what it means, or is rounded.
LEMMA MadeCopies ==
  ASSUME ValuesInv, NEW p \in Vars, UNCHANGED <<type, var, torn>>, last' = Did("make", p, FALSE),
         Transit' \in Copies!Contents,
         ~Unsafe(p) => Transit' \in Copies!Like(Plain(Meant(p))) \cup {RoundedValue(Plain(Meant(p)))}
  PROVE  Copies!Make(p)
  <1>1. Copies!Did("make", p, FALSE) /\ Place' = Place
    BY DidCall, SamePlace
  <1>2. Place[p] = IF Unsafe(p) THEN "unusable" ELSE Plain(Meant(p))
    BY PlaceAt
  <1>3. Plain(Meant(p)) \in Valuables \cup {"NULL"}
    BY ContentsAre DEF ValuesInv, VariablesInv
  <1>4. Plain(Meant(p)) # "unusable"
    <2>1. Meant(p) \in Held \cup {"NULL"}
      BY DEF Meant, ValuesInv, VariablesInv, VariablesOK
    <2> QED
      BY <2>1 DEF Plain, Held
  <1> QED
    BY <1>1, <1>2, <1>3, <1>4 DEF Copies!Make

LEMMA StoreCopies == ASSUME ValuesInv, NEW p \in Vars, Store(p) PROVE Copies!Make(p) \/ Copies!MakeFails(p)
  <1>1. PICK notNull \in BOOLEAN :
           LET refused == type[p] = "XIDJsonTyped" \/ (IsNull(p) /\ notNull)
           IN  /\ carried' = IF refused THEN carried ELSE Stored(p)
               /\ last' = Did("make", p, refused)
    BY DEF Store
  <1>2. UNCHANGED <<type, var, torn>>
    BY DEF Store
  <1>3. PICK refused \in BOOLEAN :
           /\ carried' = IF refused THEN carried ELSE Stored(p)
           /\ last' = Did("make", p, refused)
    BY <1>1
  <1>4. CASE refused
    BY <1>2, <1>3, <1>4, SamePlace, SameTransit, DidCall DEF Copies!MakeFails
  <1>5. CASE ~refused
    <2> DEFINE v == IF var[p].val = "zero" /\ Family(p) = "decimal" THEN "nought" ELSE var[p].val
    <2>1. /\ carried'.val = v
          /\ carried'.what = IF IsNull(p) THEN "null"
                             ELSE IF Family(p) = "string" /\ v = "zero" THEN "empty" ELSE "good"
      BY <1>3, <1>5 DEF Stored
    <2>2. Plain(v) = Plain(var[p].val)
      BY DEF Plain
    <2> HIDE DEF v
    <2>3. Transit' = IF IsNull(p) THEN "NULL" ELSE Plain(var[p].val)
      BY <2>1, <2>2 DEF Transit, Plain
    <2>4. var[p].val \in ValuesOf(Family(p)) /\ T(p).storedNull \subseteq {"zero"}
      BY LawOf DEF ValuesInv, VariablesInv, VariablesOK, Law
    <2>5. Transit' \in Copies!Contents
      BY <2>3, <2>4, ContentsAre DEF Copies!Contents, ValuesInv, VariablesInv
    <2>6. Transit' \in Copies!Like(Plain(Meant(p)))
      BY <2>3, <2>4 DEF Copies!Like, IsNull, Meant, Plain
    <2> QED
      BY <1>2, <1>3, <1>5, <2>5, <2>6, MadeCopies
  <1> QED
    BY <1>4, <1>5

LEMMA SendCopies == ASSUME ValuesInv, NEW p \in Vars, Send(p) PROVE Copies!Make(p) \/ Copies!MakeFails(p)
  <1>1. PICK refused \in BOOLEAN :
           /\ carried' = IF refused THEN carried ELSE Sent(p)
           /\ last' = Did("make", p, refused)
    BY DEF Send
  <1>2. UNCHANGED <<type, var, torn>>
    BY DEF Send
  <1>3. CASE refused
    BY <1>1, <1>2, <1>3, SamePlace, SameTransit, DidCall DEF Copies!MakeFails
  <1>4. CASE ~refused
    <2> DEFINE null == Meant(p) \in T(p).sentNull \cup {"NULL"}
               v == RoundedValue(var[p].val)
    <2>1. /\ carried'.val = v
          /\ carried'.what = IF null THEN "null"
                             ELSE IF Family(p) = "string" /\ var[p].val = "zero" THEN "empty" ELSE "good"
      BY <1>1, <1>4 DEF Sent, RoundedValue
    <2>2. Plain(v) = RoundedValue(Plain(var[p].val))
      BY DEF Plain, RoundedValue
    <2>3. /\ null => Meant(p) \in {"zero", "NULL"}
          /\ ~null => Meant(p) = var[p].val
      BY LawOf DEF ValuesInv, VariablesInv, Law, Meant
    <2>4. v \in ValuesOf(Family(p))
      BY FamilyOf, ValuesAre DEF ValuesInv, VariablesInv, VariablesOK
    <2> HIDE DEF v, null
    <2>5. Transit' = IF null THEN "NULL" ELSE Plain(v)
      BY <2>1 DEF Transit
    <2>6. Transit' \in Copies!Contents
      BY <2>4, <2>5, ContentsAre DEF Copies!Contents, ValuesInv, VariablesInv
    <2>7. Transit' \in Copies!Like(Plain(Meant(p))) \cup {RoundedValue(Plain(Meant(p)))}
      BY <2>2, <2>3, <2>5 DEF Copies!Like, Plain
    <2> QED
      BY <1>1, <1>2, <1>4, <2>6, <2>7, MadeCopies
  <1> QED
    BY <1>3, <1>4

LEMMA ReplaceCopies == ASSUME ValuesInv, Replace PROVE Copies!Replace
  <1>1. PICK p \in Vars, in \in {"cell", "text"}, what \in {"null", "empty", "bad", "other"} :
           carried' = [Nothing EXCEPT !.in = in, !.what = what,
                         !.val = IF what = "other" THEN "a" ELSE "zero",
                         !.meant = IF what = "null" THEN "NULL" ELSE IF what = "other" THEN "a" ELSE "zero"]
    BY DEF Replace
  <1>2. UNCHANGED <<type, var, torn>> /\ last' = Did("replace", Nobody, FALSE)
    BY DEF Replace
  <1>3. carried'.what = what /\ (what # "other" => carried'.val = "zero")
    BY <1>1 DEF Nothing
  <1>4. \A q \in Vars : Family(q)' = Family(q)
    BY <1>2 DEF Family, T
  <1>5. Transit' = CASE what = "bad" -> "unusable"
                     [] what = "other" -> IF \E q \in Vars : Family(q) = "string" THEN "a" ELSE "unusable"
                     [] what = "null" -> "NULL"
                     [] OTHER -> "zero"
    BY <1>3, <1>4 DEF Transit, Plain
  <1>6. Transit' \in Copies!Contents
    BY <1>5, ContentsAre DEF Copies!Contents, ValuesInv, VariablesInv
  <1> QED
    BY <1>2, <1>6, SamePlace, DidCall DEF Copies!Replace

\* NULL is taken for zero: the value under a reset flag is zero in a safe variable.
LEMMA ConvertCopies ==
  ASSUME ValuesInv, NEW p \in Vars, NEW q \in Vars, ConvertFrom(p, q) PROVE Copies!Convert(p, q)
  <1> USE DEF ValuesInv, VariablesInv
  <1>1. PICK how \in {"copy", "take", "wrap", "quote"} :
           /\ var' = [var EXCEPT ![p] = Converted(how, var[q])]
           /\ how = "quote" => Family(p) = "string"
    BY ConvertedFrom
  <1>2. /\ type' = type /\ carried' = carried /\ last' = Did("convert", p, FALSE)
        /\ torn' = IF q \in torn THEN torn \cup {p} ELSE torn \ {p}
    BY DEF ConvertFrom
  <1> DEFINE x == Converted(how, var[q])
  <1>3. var[q] \in [val : Held, valid : BOOLEAN, into : Nat] /\ Family(q) = Family(p)
        /\ var[q].val \in ValuesOf(Family(p))
    BY DEF VariablesOK
  <1>4. /\ x.val = IF how = "quote" THEN "quoted" ELSE var[q].val
        /\ x.valid <=> how # "copy" \/ var[q].valid
        /\ x.into = IF how = "wrap" THEN NoStruct ELSE var[q].into
    <2>1. CASE how = "copy"
      BY <1>3, <2>1 DEF Converted
    <2>2. CASE how = "take"
      BY <1>3, <2>2 DEF Converted
    <2>3. CASE how = "wrap"
      BY <1>3, <2>3 DEF Converted, NoStruct
    <2>4. CASE how = "quote"
      BY <1>3, <2>4 DEF Converted
    <2> QED
      BY <2>1, <2>2, <2>3, <2>4
  <1>5. var' = [var EXCEPT ![p] = x] /\ var \in [Vars -> [val : Held, valid : BOOLEAN, into : Nat]]
    BY <1>1 DEF VariablesOK
  <1> HIDE DEF x
  <1> DEFINE means == IF x.valid THEN x.val ELSE "NULL"
             new == IF p \in torn' \/ x.into # NoStruct THEN "unusable" ELSE Plain(means)
  <1>6. torn' \ {p} = torn \ {p}
    BY <1>2
  <1>7. var'[p] = x
    BY <1>5
  <1>8. Place' = [Place EXCEPT ![p] = new]
    <2>1. Place' = [Place EXCEPT ![p] = IF Unsafe(p)' THEN "unusable" ELSE Plain(Meant(p)')]
      BY <1>5, <1>6, OnePlace
    <2>2. Unsafe(p)' <=> p \in torn' \/ x.into # NoStruct
      BY <1>7 DEF Unsafe
    <2>3. Meant(p)' = means
      BY <1>7 DEF Meant
    <2> QED
      BY <2>1, <2>2, <2>3
  <1>9. Place[q] = IF Unsafe(q) THEN "unusable" ELSE Plain(Meant(q))
    BY PlaceAt
  <1>10. x.val \in ValuesOf(Family(p))
    BY <1>1, <1>3, <1>4, ValuesAre
  <1>11. new \in Copies!Contents
    BY <1>10, ContentsAre DEF Copies!Contents, Plain
  <1>12. ASSUME ~Unsafe(q)
         PROVE  new \in Copies!Like(Plain(Meant(q))) \cup {"quoted"}
    <2>1. var[q].into = NoStruct /\ p \notin torn' /\ x.into = NoStruct
      BY <1>2, <1>4, <1>12 DEF Unsafe
    <2>2. ~var[q].valid => var[q].val = "zero"
      BY <1>12 DEF NullIsZero
    <2>3. new = Plain(means)
      BY <2>1
    <2> QED
      BY <1>4, <2>2, <2>3 DEF Meant, Plain, Copies!Like
  <1>13. Plain(Meant(q)) # "unusable"
    BY <1>3 DEF Meant, Plain, Held
  <1>14. new \in IF Place[q] = "unusable" THEN Copies!Contents ELSE Copies!Like(Place[q]) \cup {"quoted"}
    BY <1>9, <1>11, <1>12, <1>13
  <1> HIDE DEF new
  <1> QED
    BY <1>2, <1>8, <1>14, SameTransit, DidCall DEF Copies!Convert

LEMMA ConvertFailsCopies ==
  ASSUME ValuesInv, NEW p \in Vars, NEW q \in Vars, ConvertFails(p, q) PROVE Copies!ConvertFails(p)
  <1>1. UNCHANGED <<type, var, carried>> /\ torn' = torn \cup {p} /\ last' = Did("convert", p, TRUE)
    BY DEF ConvertFails
  <1>2. Place' = [Place EXCEPT ![p] = "unusable"]
    <2>1. Place' = [Place EXCEPT ![p] = IF Unsafe(p)' THEN "unusable" ELSE Plain(Meant(p)')]
      BY <1>1, OnePlace
    <2> QED
      BY <1>1, <2>1 DEF Unsafe
  <1> QED
    BY <1>1, <1>2, SameTransit, DidCall DEF Copies!ConvertFails

\* A reading without an error passes over what came in, goes into a struct of
\* the program, or brings what is in transit.
LEMMA ReadCopies ==
  ASSUME ValuesInv, NEW p \in Vars, Read(p)
  PROVE  Copies!Read(p) \/ Copies!Pass(p) \/ Copies!ReadInto(p) \/ Copies!Fail(p)
  <1> USE DEF ValuesInv, VariablesInv
  <1>0. PICK o \in Outcomes(T(p)) :
           LET x == After(o, var[p], carried.val)
           IN  /\ type' = type
               /\ var' \in [Vars -> [val : Held, valid : BOOLEAN, into : Nat]]
               /\ var'[p] = x
               /\ \A q \in Vars \ {p} :
                     /\ var'[q].into = var[q].into /\ var'[q].valid = var[q].valid
                     /\ x.into # NoStruct /\ var[q].into = x.into => var'[q].val = x.val
                     /\ ~(x.into # NoStruct /\ var[q].into = x.into) => var'[q] = var[q]
               /\ torn' = IF o.err THEN torn \cup {p} ELSE IF o.val = "old" THEN torn ELSE torn \ {p}
               /\ last' = Did("read", p, o.err)
    BY ReadIs
  <1> DEFINE x == After(o, var[p], carried.val)
             means == IF x.valid THEN x.val ELSE "NULL"
             new == IF p \in torn' \/ x.into # NoStruct THEN "unusable" ELSE Plain(means)
  <1>1. /\ type' = type
        /\ var'[p] = x
        /\ \A q \in Vars \ {p} :
              /\ var'[q].into = var[q].into
              /\ ~(x.into # NoStruct /\ var[q].into = x.into) => var'[q] = var[q]
        /\ torn' = IF o.err THEN torn \cup {p} ELSE IF o.val = "old" THEN torn ELSE torn \ {p}
        /\ last' = Did("read", p, o.err)
    BY <1>0
  <1>2. /\ x \in [val : Held, valid : BOOLEAN, into : Nat]
        /\ x.valid <=> o.valid = "yes" \/ (o.valid = "old" /\ var[p].valid)
        /\ x.into = IF x.val = "zero" THEN NoStruct ELSE var[p].into
        /\ o.val = "old" => x.val = var[p].val
        /\ o.val \in {"zero", "nought"} => x.val = o.val
        /\ o.val = "new" /\ (var[p].into = NoStruct \/ carried.val = "zero") => x.val = carried.val
    BY AfterIs
  <1>3. /\ o \in OutcomeSet
        /\ o.valid = "no" => T(p).nullable /\ o.val \in {"zero", "old"}
        /\ o.valid = "old" => o.val \in {"zero", "old"}
        /\ o.val = "old" /\ o.valid = "no" => o.err /\ ~Reviving(T(p))
        /\ o.val = "old" /\ o.valid = "yes" => Reviving(T(p))
        /\ o.val = "old" /\ ~o.err =>
              /\ Family(p) # "json" /\ Deaf(T(p))
              /\ carried.what # "good"
              /\ carried.what = "other" => Family(p) # "string"
        /\ ~o.err => carried.what # "bad"
        /\ ~o.err /\ o.val = "old" /\ carried.what = "other" => o = Keep
        /\ ~o.err /\ o.val # "old" =>
              /\ carried.what = "null" => o.val \in {"zero", "nought"}
              /\ carried.what = "other" => Family(p) = "string" /\ o = Got
              /\ carried.what = "good" => o = Got
    BY ReadingLaw DEF CarriedInv
  <1>4. o.val = "new" /\ var[p].into # NoStruct /\ carried.val # "zero" => x.val # "zero"
    BY DEF After, Merged
  <1> HIDE DEF x
  <1>5. Place' = [Place EXCEPT ![p] = new]
    <2>1. torn' \ {p} = torn \ {p}
      BY <1>1
    <2>2. Place' = [Place EXCEPT ![p] = IF Unsafe(p)' THEN "unusable" ELSE Plain(Meant(p)')]
      BY <1>1, <2>1, OnePlace
    <2>3. (Unsafe(p)' <=> p \in torn' \/ x.into # NoStruct) /\ Meant(p)' = means
      BY <1>1 DEF Unsafe, Meant
    <2> QED
      BY <2>2, <2>3
  <1>6. Place \in [Vars -> {Place[q] : q \in Vars}] /\ Place[p] = IF Unsafe(p) THEN "unusable" ELSE Plain(Meant(p))
    BY DEF Place
  <1>7. /\ UsesUp(T(p)) => carried.what = "good" /\ T(p).form = "prefixed"
        /\ carried' = IF UsesUp(T(p)) THEN [carried EXCEPT !.what = "bad"] ELSE carried
    BY DEF Read, UsesUp
  <1>8. (~UsesUp(T(p)) => Transit' = Transit) /\ Transit' \in {Transit, "unusable"}
    <2>1. ~UsesUp(T(p)) => Transit' = Transit
      BY <1>1, <1>7, SameTransit
    <2>2. UsesUp(T(p)) => Transit' = "unusable"
      BY <1>7 DEF Transit, CarriedInv, CarriedOK
    <2> QED
      BY <2>1, <2>2
  <1>9. /\ Transit = CASE carried.what = "bad" -> "unusable"
                       [] carried.what = "other" ->
                             IF \E q \in Vars : Family(q) = "string" THEN "a" ELSE "unusable"
                       [] carried.what = "null" -> "NULL"
                       [] OTHER -> Plain(carried.val)
        /\ carried.what \in Sources
        /\ carried.what = "empty" => carried.val = "zero"
        /\ carried.what = "other" => carried.val = "a"
        /\ carried.val \in Held
    BY DEF Transit, CarriedInv, CarriedOK, Traveller
  <1>10. \A q \in Vars : Family(q) = Family(p)
    BY DEF VariablesOK
  <1>11. /\ ~o.err => Copies!Did("read", p, FALSE)
         /\ o.err => Copies!Did("read", p, TRUE)
    BY <1>1, <1>3, DidCall DEF OutcomeSet
  <1>12. CASE o.err
    <2>1. new = "unusable"
      BY <1>1, <1>12
    <2> QED
      BY <1>5, <1>8, <1>11, <1>12, <2>1 DEF Copies!Fail
  <1>13. CASE ~o.err /\ x.into # NoStruct
    <2>1. new = "unusable" /\ Place[p] = "unusable"
      BY <1>2, <1>6, <1>13 DEF Unsafe
    <2>2. ~UsesUp(T(p))
      <3>1. Family(p) = "json"
        BY <1>2, <1>13 DEF Shared
      <3> QED
        BY <1>7, <3>1, LawOf, FamilyOf DEF Law
    <2>3. Place' = Place
      BY <1>5, <1>6, <2>1
    <2> QED
      BY <1>8, <1>11, <1>13, <2>1, <2>2, <2>3 DEF Copies!ReadInto
  <1>14. ASSUME ~o.err, x.into = NoStruct, o.val = "old"
         PROVE  Copies!Read(p) \/ Copies!Pass(p)
    <2>1. torn' = torn /\ var[p].into = NoStruct /\ Transit' = Transit
      BY <1>1, <1>3, <1>7, <1>8, <1>14 DEF Shared
    <2>2. Transit \in {"zero", "NULL", "unusable"}
      BY <1>3, <1>9, <1>10, <1>14 DEF Plain, Sources
    <2>3. x.val = var[p].val
      BY <1>2, <1>14
    <2>4. CASE x.valid = var[p].valid \/ p \in torn
      <3>1. new = Place[p]
        BY <1>6, <1>14, <2>1, <2>3, <2>4 DEF Unsafe, Meant
      <3>2. Place' = Place
        BY <1>5, <1>6, <3>1
      <3>3. Copies!Pass(p)
        BY <1>1, <1>3, <1>11, <1>14, <2>1, <2>2, <3>2 DEF Copies!Pass
      <3> QED
        BY <3>3
    <2>5. CASE x.valid # var[p].valid /\ p \notin torn
      <3>1. o.valid = "yes" /\ ~var[p].valid /\ x.valid
        BY <1>2, <1>3, <1>14, <2>5 DEF OutcomeSet, VariablesOK
      <3>2. var[p].val = "zero"
        BY <1>3, <1>14, <3>1 DEF NullIsZero
      <3>3. new = "zero"
        BY <1>14, <2>1, <2>3, <2>5, <3>1, <3>2 DEF Plain
      <3>4. carried.what \in {"null", "empty"}
        BY <1>3, <1>9, <1>14, <3>1, OutcomesAre DEF Sources
      <3>5. Transit \in {"zero", "NULL"}
        BY <1>9, <3>4 DEF Plain
      <3>6. Copies!Read(p)
        BY <1>5, <1>11, <1>14, <2>1, <3>3, <3>5 DEF Copies!Read, Copies!Like
      <3> QED
        BY <3>6
    <2> QED
      BY <2>4, <2>5
  <1>15. ASSUME ~o.err, x.into = NoStruct, o.val # "old"
         PROVE  Copies!Read(p)
    <2>1. new = Plain(means)
      BY <1>1, <1>15
    <2>2. CASE carried.what = "null"
      <3>1. Transit = "NULL" /\ new \in {"zero", "NULL"}
        BY <1>2, <1>3, <1>9, <1>15, <2>1, <2>2 DEF Plain
      <3> QED
        BY <1>5, <1>8, <1>11, <1>15, <3>1 DEF Copies!Read, Copies!Like
    <2>3. CASE carried.what = "empty"
      <3>1. Transit = "zero" /\ new \in {"zero", "NULL"}
        BY <1>2, <1>3, <1>9, <1>15, <2>1, <2>3 DEF Plain, OutcomeSet
      <3> QED
        BY <1>5, <1>8, <1>11, <1>15, <3>1 DEF Copies!Read, Copies!Like
    <2>4. CASE carried.what \in {"good", "other"}
      <3>1. o.val = "new" /\ o.valid = "yes"
        BY <1>3, <1>15, <2>4, OutcomesAre
      <3>2. x.valid /\ x.val = carried.val
        BY <1>2, <1>4, <1>15, <3>1
      <3>3. new = Transit
        BY <1>3, <1>9, <1>15, <2>1, <2>4, <3>2 DEF Plain
      <3>4. Transit # "unusable" /\ Transit \in Copies!Like(Transit)
        BY <1>9, <2>1, <3>2, <3>3 DEF Plain, Held, Copies!Like
      <3> QED
        BY <1>5, <1>8, <1>11, <1>15, <3>3, <3>4 DEF Copies!Read
    <2> QED
      BY <1>3, <1>9, <1>15, <2>2, <2>3, <2>4 DEF Sources
  <1> QED
    BY <1>12, <1>13, <1>14, <1>15

\* A reading in part leaves the variable unusable, and those that have its struct
\* are so anyway.
LEMMA PartCopies ==
  ASSUME ValuesInv, NEW p \in Vars, ReadInPart(p) PROVE Copies!Fail(p)
  <1>1. /\ UNCHANGED <<type, carried>>
        /\ torn' = torn \cup {p}
        /\ last' = Did("read", p, TRUE)
        /\ var[p].into # NoStruct
        /\ \A q \in Vars : var'[q].into = var[q].into
        /\ \A q \in Vars \ {p} : var[q].into # var[p].into => var'[q] = var[q]
    BY PartIs
  <1>2. Place' = [Place EXCEPT ![p] = "unusable"]
    <2>1. Place' = [Place EXCEPT ![p] = IF Unsafe(p)' THEN "unusable" ELSE Plain(Meant(p)')]
      BY <1>1, OnePlace
    <2> QED
      BY <1>1, <2>1 DEF Unsafe
  <1> QED
    BY <1>1, <1>2, SameTransit, DidCall DEF Copies!Fail

LEMMA NextCopies == ValuesInv /\ [ValuesNext]_valueVars => [Copies!Next]_(Copies!vars)
  <1> SUFFICES ASSUME ValuesInv, [ValuesNext]_valueVars PROVE [Copies!Next]_(Copies!vars)
    OBVIOUS
  <1>1. CASE UNCHANGED valueVars
    <2>1. Place' = Place /\ Transit' = Transit /\ last' = last /\ type' = type
      BY <1>1, SamePlace, SameTransit DEF valueVars
    <2> QED
      BY <2>1 DEF Copies!vars, T
  <1>2. CASE Replace
    BY <1>2, ReplaceCopies DEF Copies!Next
  <1>3. ASSUME NEW p \in Vars, Assign(p) \/ Store(p) \/ Send(p) PROVE Copies!Next
    BY <1>3, AssignCopies, StoreCopies, SendCopies DEF Copies!Next
  <1>4. ASSUME NEW p \in Vars, Scan(p) \/ UnmarshalJSON(p) PROVE Copies!Next
    BY <1>4, ReadCopies, PartCopies DEF Copies!Next, Scan, UnmarshalJSON
  <1>5. ASSUME NEW p \in Vars, NEW q \in Vars, ConvertFrom(p, q) \/ ConvertFails(p, q) PROVE Copies!Next
    BY <1>5, ConvertCopies, ConvertFailsCopies DEF Copies!Next
  <1> QED
    BY <1>1, <1>2, <1>3, <1>4, <1>5 DEF ValuesNext

\* Every call on variables of value types is one that ValueCopies allows, or
\* changes nothing that it sees.
THEOREM ValuesAreCopies == ValuesSpec => ImplementsValueCopies
  <1> QED
    BY InitCopies, NextCopies, ValuesInvHolds, PTL DEF ValuesSpec, ImplementsValueCopies, Copies!Spec
=============================================================================
