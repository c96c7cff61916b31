-------------------------------- MODULE Shards --------------------------------
(***************************************************************************)
(* The registry of shards: shards.go.  Goroutines look shards up (every    *)
(* WithTxInShard does, and every statement that names another shard), add, *)
(* replace and delete them, and walk over them with a callback that may    *)
(* use the registry itself.                                                *)
(***************************************************************************)
EXTENDS RWMutex, FiniteSets

CONSTANTS
    Ids, NoId,     \* ids of shards, and none
    MaxStores,     \* bound: PgStores made
    CallbackOps    \* what a callback of Walk does with the registry

ASSUME CallbackOpsAssumption == CallbackOps \subseteq {"lookup", "set", "delete"}
ASSUME NoIdAssumption == NoId \notin Ids

Ops == {"lookup", "set", "delete", "walk"}

NoStore == 0   \* PgStores are numbered as they are made

VARIABLES
    m,        \* Shards.m: the store of each id
    made,     \* the number of stores made
    pc, op, id,
    walk      \* a Walk: the map when it began, and the ids to visit

vars == <<mutexVars, m, made, pc, op, id, walk>>

NotWalking == [on |-> FALSE, start |-> <<>>, todo |-> {}]

Init ==
    /\ MutexInit
    /\ m = [i \in Ids |-> NoStore]
    /\ made = 0
    /\ pc = [p \in Procs |-> "idle"]
    /\ op = [p \in Procs |-> "none"]
    /\ id = [p \in Procs |-> NoId]
    /\ walk = [p \in Procs |-> NotWalking]

Present == {i \in Ids : m[i] # NoStore}

Goto(p, l) == pc' = [pc EXCEPT ![p] = l]

\* A call that a callback made returns to it.
Return(p) ==
    /\ Goto(p, IF walk[p].on THEN "callback" ELSE "idle")
    /\ op' = [op EXCEPT ![p] = "none"]
    /\ id' = [id EXCEPT ![p] = NoId]

Call(p, o, i) ==
    /\ \/ pc[p] = "idle"
       \/ pc[p] = "callback" /\ o \in CallbackOps
    /\ o \in {"set", "delete"} <=> i # NoId   \* lookup and walk change nothing
    /\ o = "set" => made + Cardinality(Procs) <= MaxStores
    /\ op' = [op EXCEPT ![p] = o]
    /\ id' = [id EXCEPT ![p] = i]
    /\ Goto(p, "call")
    /\ UNCHANGED <<mutexVars, m, made, walk>>

\* Mutant: Walk takes no lock.
EnterUnlocked(p) ==
    /\ pc[p] = "call"
    /\ CASE op[p] = "lookup" -> RLock(p)
         [] op[p] = "walk" -> UNCHANGED mutexVars
         [] OTHER -> Lock(p)
    /\ Goto(p, "entered")
    /\ UNCHANGED <<m, made, op, id, walk>>

Enter(p) ==
    /\ pc[p] = "call"
    /\ IF op[p] \in {"lookup", "walk"} THEN RLock(p) ELSE Lock(p)
    /\ Goto(p, "entered")
    /\ UNCHANGED <<m, made, op, id, walk>>

ShardByID(p) ==
    /\ pc[p] = "entered" /\ op[p] = "lookup"
    /\ HasRLock(p)
    /\ RUnlock(p)
    /\ Return(p)
    /\ UNCHANGED <<m, made, walk>>

SetShard(p) ==
    /\ pc[p] = "entered" /\ op[p] = "set"
    /\ HasLock(p)
    /\ made' = made + 1
    /\ m' = [m EXCEPT ![id[p]] = made + 1]
    /\ Unlock(p)
    /\ Return(p)
    /\ UNCHANGED walk

\* Mutant: the Unlock is not deferred.
SetShardPanicsLocked(p) ==
    /\ pc[p] = "entered" /\ op[p] = "set"
    /\ HasLock(p)
    /\ Return(p)
    /\ UNCHANGED <<mutexVars, m, made, walk>>

\* The schema is empty: NewPgStore panics, and the deferred Unlock runs.
SetShardPanics(p) ==
    /\ pc[p] = "entered" /\ op[p] = "set"
    /\ HasLock(p)
    /\ Unlock(p)
    /\ Return(p)
    /\ UNCHANGED <<m, made, walk>>

DeleteShard(p) ==
    /\ pc[p] = "entered" /\ op[p] = "delete"
    /\ HasLock(p)
    /\ m' = [m EXCEPT ![id[p]] = NoStore]
    /\ Unlock(p)
    /\ Return(p)
    /\ UNCHANGED <<made, walk>>

WalkBegins(p) ==
    /\ pc[p] = "entered" /\ op[p] = "walk"
    /\ HasRLock(p)
    /\ walk' = [walk EXCEPT ![p] = [on |-> TRUE, start |-> m, todo |-> Present]]
    /\ op' = [op EXCEPT ![p] = "none"]
    /\ id' = [id EXCEPT ![p] = NoId]
    /\ Goto(p, "range")
    /\ UNCHANGED <<mutexVars, m, made>>

\* The range takes any order.
WalkNext(p) ==
    /\ pc[p] = "range"
    /\ \E i \in walk[p].todo \cap Present :
        walk' = [walk EXCEPT ![p].todo = @ \ {i}]
    /\ Goto(p, "callback")
    /\ UNCHANGED <<mutexVars, m, made, op, id>>

CallbackReturns(p) ==
    /\ pc[p] = "callback"
    /\ Goto(p, "range")
    /\ UNCHANGED <<mutexVars, m, made, op, id, walk>>

\* Mutant: an error of the callback starts the range over.
StartOver(p) ==
    \/ /\ pc[p] = "range" /\ walk[p].todo \cap Present = {}
       /\ RUnlock(p)
       /\ walk' = [walk EXCEPT ![p] = NotWalking]
       /\ Goto(p, "idle")
       /\ UNCHANGED <<m, made, op, id>>
    \/ /\ pc[p] = "callback"
       /\ walk' = [walk EXCEPT ![p].todo = Present]
       /\ Goto(p, "range")
       /\ UNCHANGED <<mutexVars, m, made, op, id>>

\* The range is over, or the callback has returned an error or panicked.
WalkEnds(p) ==
    /\ \/ pc[p] = "range" /\ walk[p].todo \cap Present = {}
       \/ pc[p] = "callback"
    /\ RUnlock(p)
    /\ walk' = [walk EXCEPT ![p] = NotWalking]
    /\ Goto(p, "idle")
    /\ UNCHANGED <<m, made, op, id>>
-----------------------------------------------------------------------------
Step(p) ==
    \/ Enter(p)
    \/ ShardByID(p)
    \/ SetShard(p) \/ SetShardPanics(p) \/ DeleteShard(p)
    \/ WalkBegins(p) \/ WalkNext(p) \/ WalkEnds(p)

Next == \E p \in Procs : \/ \E o \in Ops, i \in Ids \cup {NoId} : Call(p, o, i)
                         \/ CallbackReturns(p)
                         \/ Step(p)

Spec == Init /\ [][Next]_vars

\* Goroutines run on, a mutex is handed to who has waited long enough, and
\* callbacks return.
FairSpec ==
    Spec /\ \A p \in Procs : SF_vars(Step(p)) /\ SF_vars(CallbackReturns(p))
-----------------------------------------------------------------------------
TypeOK ==
    /\ MutexTypeOK
    /\ made \in Nat
    /\ m \in [Ids -> 0 .. made]
    /\ pc \in [Procs -> {"idle", "call", "entered", "range", "callback"}]
    /\ op \in [Procs -> Ops \cup {"none"}]
    /\ id \in [Procs -> Ids \cup {NoId}]
    /\ walk \in [Procs -> [on : BOOLEAN, start : [Ids -> Nat] \cup {<<>>}, todo : SUBSET Ids]]

\* While a Walk runs the registry stays as it was when the Walk began, also
\* when the callbacks or other goroutines add, replace and delete shards
\* (shards.go:89).
WalkIsASnapshot == \A p \in Procs : walk[p].on => m = walk[p].start

\* What makes it inductive: every goroutine is where its locks say,
Located ==
    \A p \in Procs :
        /\ writing = p <=> pc[p] = "entered" /\ op[p] \in {"set", "delete"}
        /\ pc[p] \in {"range", "callback"} => walk[p].on
        /\ pc[p] = "idle" => ~walk[p].on
        /\ op[p] = "walk" => ~walk[p].on
        /\ pc[p] \in {"call", "entered"} => op[p] # "none"
        /\ op[p] \in {"set", "delete"} => id[p] \in Ids

\* and holds a read lock for its Walk and one for the call that has one.
Entered(p) == pc[p] = "entered" /\ op[p] \in {"lookup", "walk"}

ReadersKnown ==
    /\ \A p \in Procs :
        reading[p] = (IF walk[p].on THEN 1 ELSE 0)
                     + (IF Entered(p) /\ p \notin queued THEN 1 ELSE 0)
    /\ \A p \in queued : Entered(p)
    /\ writing = NoProc => queued = {}

Inv == TypeOK /\ Located /\ ReadersKnown /\ WalkIsASnapshot

\* The next step of p waits for nobody.
CanGoOn(p) ==
    \/ pc[p] \in {"range", "callback"}
    \/ op[p] \in {"lookup", "walk"} /\ pc[p] = "call"
    \/ op[p] \in {"lookup", "walk"} /\ pc[p] = "entered" /\ HasRLock(p)
    \/ op[p] \in {"set", "delete"} /\ pc[p] = "call" /\ writing = NoProc
    \/ op[p] \in {"set", "delete"} /\ pc[p] = "entered" /\ HasLock(p)

\* Of the goroutines in the registry one can go on at any time, unless a
\* callback of Walk uses the registry: the reader that a writer waits for may
\* then queue behind this writer (shards.go:90), but otherwise they never wait
\* for one another, and who leaves takes no lock along.
SomeoneCanGoOn ==
    /\ \A p \in Procs : walk[p].on => op[p] = "none"
    /\ \E p \in Procs : pc[p] # "idle"
    => \E p \in Procs : CanGoOn(p)

\* Calls return, if no callback of Walk uses the registry.
EveryCallReturns ==
    [](\A p \in Procs : walk[p].on => op[p] = "none")
        => \A p \in Procs : pc[p] # "idle" ~> pc[p] = "idle"
=============================================================================
