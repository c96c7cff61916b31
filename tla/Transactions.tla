---------------------------- MODULE Transactions ----------------------------
(***************************************************************************)
(* Transactions of pgparty: pgparty.go, shard.go, prepare.go, replace.go.  *)
(*                                                                         *)
(* Goroutines call WithTx, WithTxInShard, Shard.WithTx, the Prep*          *)
(* statements, Replace and SelectCursorWalk, nested in each other's        *)
(* callbacks.  The context of a call carries a shard and a copy of its     *)
(* store, and the store copy carries the open transaction, or none: WithTx *)
(* joins the one it finds and begins one otherwise.  A transaction holds a *)
(* connection of its shard's pool until it ends.                           *)
(*                                                                         *)
(* The call chain of a goroutine is a stack of frames, the innermost at    *)
(* the head: fn says whose code the frame runs, shard and tx are what the  *)
(* context given to that code carries, own is TRUE when the frame is a     *)
(* WithBeginTx that began tx and must end it.                              *)
(***************************************************************************)
EXTENDS Naturals, Sequences

CONSTANTS
    Procs,      \* goroutines
    Shards,     \* shard ids
    Conns,      \* connections of all pools (25 per pool unless configured)
    PoolOf,     \* PoolOf[s]: the connections of the *sqlx.DB of shard s
    Tx, NoTx,   \* identities of *sqlx.Tx values, and the nil pointer
    MaxDepth,   \* bound: user callbacks nested in one call chain
    Features,   \* Features[p]: what p does beyond WithTx and reads in it
    Faults      \* failures of the environment that can happen

\* detached: a callback calls Shard.WithTx, or WithTx with the context that
\* SelectShard returned.  replaceOutside: Replace without a transaction.
\* walk: SelectCursorWalk.  writes: statements that write.
AllFeatures == {"detached", "replaceOutside", "walk", "writes"}

\* begin: BEGIN or the dial fails.  sql: a statement fails on the server.
\* call: a call fails or panics before it reaches the server.
\* commit: COMMIT is refused.  lostReply: COMMIT succeeds, its answer is lost.
\* cancel: a context is cancelled.
AllFaults == {"begin", "sql", "call", "commit", "lostReply", "cancel"}

ASSUME ConstantsAssumption ==
    /\ NoTx \notin Tx
    /\ MaxDepth \in Nat
    /\ PoolOf \in [Shards -> SUBSET Conns]
    /\ Features \in [Procs -> SUBSET AllFeatures]
    /\ Faults \subseteq AllFaults

VARIABLES
    stack,      \* stack[p]: the frames of p's call chain
    pc,         \* pc[p]: where the innermost frame stands
    result,     \* result[p]: what p's last outermost call returned
    cancelled,  \* goroutines whose call's context is cancelled
    status,     \* status[t]: the state of a transaction
    path,       \* transactions whose search_path was set to their schema
    cursors,    \* transactions in which the cursor of the walks is open
    conn,       \* conn[c]: the transaction connection c serves
    dirty,      \* dirty[t]: goroutines with undecided writes in t
    kept, lost  \* goroutines whose call has a committed / rolled back write

callVars == <<stack, pc, result, cancelled>>
txVars == <<status, path, cursors, conn>>
fateVars == <<dirty, kept, lost>>
vars == <<callVars, txVars, fateVars>>

Frame == [fn : {"WithTx", "stmt", "replace", "walk"}, shard : Shards,
          tx : Tx \cup {NoTx}, own : BOOLEAN]

\* idle: no call.  acquire: in BeginTxx.  path: in set_config.  run: in the
\* closure.  fetch: at a FETCH.  ok, err, panic: the closure ended so.
PCs == {"idle", "acquire", "path", "run", "fetch", "ok", "err", "panic"}

\* open; aborted by a failed statement; doomed by a cancelled context, until
\* database/sql rolls it back; done.
TxStates == {"open", "aborted", "doomed", "done"}

LiveStates == {"open", "aborted", "doomed"}
Live(t) == status[t] \in LiveStates

Top(p) == Head(stack[p])

FramesOf(p) == {stack[p][i] : i \in 1 .. Len(stack[p])}

Referenced == {f.tx : f \in UNION {FramesOf(p) : p \in Procs}}

\* The contexts p can pass to the next call: that of the callback it runs, or
\* the context of a shard when it is outside any call.
Contexts(p) ==
    IF pc[p] = "idle" THEN [shard : Shards, tx : {NoTx}]
    ELSE IF pc[p] = "run" /\ Top(p).fn = "WithTx"
         THEN {[shard |-> Top(p).shard, tx |-> Top(p).tx]}
         ELSE {}

Init ==
    /\ stack = [p \in Procs |-> <<>>]
    /\ pc = [p \in Procs |-> "idle"]
    /\ result = [p \in Procs |-> "none"]
    /\ cancelled = {}
    /\ status = [t \in Tx |-> "done"]
    /\ path = {}
    /\ cursors = {}
    /\ conn = [c \in Conns |-> NoTx]
    /\ dirty = [t \in Tx |-> {}]
    /\ kept = {}
    /\ lost = {}
-----------------------------------------------------------------------------
\* An outermost call starts with a fresh context and no writes of its own.
FreshCall(p, r) ==
    /\ result' = [result EXCEPT ![p] = r]
    /\ cancelled' = cancelled \ {p}
    /\ dirty' = [t \in Tx |-> dirty[t] \ {p}]
    /\ kept' = kept \ {p}
    /\ lost' = lost \ {p}

StartCall(p) ==
    IF pc[p] = "idle"
    THEN FreshCall(p, "none")
    ELSE UNCHANGED <<result, cancelled, fateVars>>

\* PgStore.WithTx: inside the transaction of the store, or in a new one.
Enter(p, fn, s, t) ==
    /\ stack' = [stack EXCEPT ![p] =
                    <<[fn |-> fn, shard |-> s, tx |-> t, own |-> t = NoTx]>> \o @]
    /\ pc' = [pc EXCEPT ![p] = IF t = NoTx THEN "acquire" ELSE "run"]
    /\ StartCall(p)
    /\ UNCHANGED txVars

CallWithTx(p) ==
    /\ Len(stack[p]) < MaxDepth
    /\ \E c \in Contexts(p) : Enter(p, "WithTx", c.shard, c.tx)

\* Mutant: the check for a transaction in another shard is missing.
UnguardedWithTxInShard(p) ==
    /\ Len(stack[p]) < MaxDepth
    /\ \E c \in Contexts(p), s \in Shards :
        Enter(p, "WithTx", s, IF c.shard = s THEN c.tx ELSE NoTx)

\* Mutant: an id that no shard has is not refused.
UncheckedWithTxInShard(p) ==
    /\ Len(stack[p]) < MaxDepth
    /\ \E c \in Contexts(p), s \in Shards \cup {"unknown"} :
        /\ c.shard = s \/ c.tx = NoTx
        /\ Enter(p, "WithTx", s, IF c.shard = s THEN c.tx ELSE NoTx)

\* Refused, with no effect, while a transaction of another shard is open, and
\* for an id that no shard has.
CallWithTxInShard(p) ==
    /\ Len(stack[p]) < MaxDepth
    /\ \E c \in Contexts(p), s \in Shards :
        /\ c.shard = s \/ c.tx = NoTx
        /\ Enter(p, "WithTx", s, IF c.shard = s THEN c.tx ELSE NoTx)

\* The context gets the Shard value of the registry, whose store has no tx.
CallShardWithTx(p) ==
    /\ "detached" \in Features[p]
    /\ Len(stack[p]) < MaxDepth
    /\ Contexts(p) # {}
    /\ \E s \in Shards : Enter(p, "WithTx", s, NoTx)

\* PrepGet, PrepSelect and PrepExec wrap themselves in a transaction when the
\* store has none.  PrepQueryx refuses, with no effect, instead.
CallStatement(p) ==
    \E c \in Contexts(p) : Enter(p, "stmt", c.shard, c.tx)

CallReplace(p) ==
    \E c \in Contexts(p) :
        /\ c.tx = NoTx => "replaceOutside" \in Features[p]
        /\ Enter(p, "replace", c.shard, c.tx)

CallCursorWalk(p) ==
    /\ "walk" \in Features[p]
    /\ Len(stack[p]) < MaxDepth
    /\ \E c \in Contexts(p) : c.tx # NoTx /\ Enter(p, "walk", c.shard, c.tx)

\* PrepSelectCursorWalk refuses outside a transaction, but only after In and
\* PrepareQuery: when one of these panics, nothing recovers it.
RefuseCursorWalk(p) ==
    /\ "walk" \in Features[p]
    /\ pc[p] = "idle"
    /\ \/ FreshCall(p, "err")
       \/ "call" \in Faults /\ FreshCall(p, "panic")
    /\ UNCHANGED <<stack, pc, txVars>>
-----------------------------------------------------------------------------
\* Where a caller goes on that gets outcome r: a user callback does what it
\* likes with an error, a walk fetches again if its callback returned nil, and
\* the others return what they get.
After(f, r) ==
    CASE f.fn = "WithTx" /\ r # "panic" -> "run"
      [] f.fn = "walk" /\ r = "ok" -> "fetch"
      [] OTHER -> r

\* The innermost frame of p is popped and its caller gets outcome r.
Leave(p, r) ==
    LET rest == Tail(stack[p]) IN
    /\ stack' = [stack EXCEPT ![p] = rest]
    /\ pc' = [pc EXCEPT ![p] = IF rest = <<>> THEN "idle" ELSE After(Head(rest), r)]
    /\ result' = [result EXCEPT ![p] = IF rest = <<>> THEN r ELSE @]
    /\ UNCHANGED cancelled

Goto(p, l) ==
    /\ pc' = [pc EXCEPT ![p] = l]
    /\ UNCHANGED <<stack, result, cancelled>>

\* The transaction ends, its connection goes back to the pool, and the writes
\* in it are decided.
EndTx(t, committed) ==
    /\ status' = [status EXCEPT ![t] = "done"]
    /\ path' = path \ {t}
    /\ cursors' = cursors \ {t}
    /\ conn' = [c \in Conns |-> IF conn[c] = t THEN NoTx ELSE conn[c]]
    /\ dirty' = [dirty EXCEPT ![t] = {}]
    /\ kept' = IF committed THEN kept \cup dirty[t] ELSE kept
    /\ lost' = IF committed THEN lost ELSE lost \cup dirty[t]

FreeConns(s) == {c \in PoolOf[s] : conn[c] = NoTx}

\* BeginTxx waits for a connection of the pool, then BEGINs.
Acquire(p) ==
    /\ pc[p] = "acquire"
    /\ p \notin cancelled
    /\ \E c \in FreeConns(Top(p).shard), t \in Tx \ Referenced :
        /\ ~Live(t)
        /\ conn' = [conn EXCEPT ![c] = t]
        /\ status' = [status EXCEPT ![t] = "open"]
        /\ stack' = [stack EXCEPT ![p] = <<[Top(p) EXCEPT !.tx = t]>> \o Tail(@)]
    /\ pc' = [pc EXCEPT ![p] = "path"]
    /\ UNCHANGED <<result, cancelled, path, cursors, fateVars>>

\* The error of BeginTxx is returned before the deferred end is installed.
AcquireFails(p) ==
    /\ pc[p] = "acquire"
    /\ \/ p \in cancelled
       \/ "begin" \in Faults /\ FreeConns(Top(p).shard) # {}
    /\ Leave(p, "err")
    /\ UNCHANGED <<txVars, fateVars>>

\* Mutant: set_config is forgotten.
ForgetSearchPath(p) ==
    /\ pc[p] = "path"
    /\ Goto(p, "run")
    /\ UNCHANGED <<txVars, fateVars>>

\* A statement on t succeeds only while t is open.
SetSearchPath(p) ==
    /\ pc[p] = "path"
    /\ LET t == Top(p).tx IN
        \/ /\ status[t] = "open"
           /\ path' = path \cup {t}
           /\ Goto(p, "run")
           /\ UNCHANGED status
        \/ /\ status[t] = "open"
           /\ "sql" \in Faults
           /\ status' = [status EXCEPT ![t] = "aborted"]
           /\ Goto(p, "err")
           /\ UNCHANGED path
        \/ /\ status[t] # "open"
           /\ Goto(p, "err")
           /\ UNCHANGED <<status, path>>
    /\ UNCHANGED <<cursors, conn, fateVars>>

\* A user callback returns.
ReturnFromCallback(p) ==
    /\ pc[p] = "run"
    /\ Top(p).fn = "WithTx"
    /\ \/ Goto(p, "ok")
       \/ Goto(p, "err")
       \/ "call" \in Faults /\ Goto(p, "panic")
    /\ UNCHANGED <<txVars, fateVars>>

\* In, PrepareQuery, then the statement on the transaction of the store.  What
\* was done stays done when the rows that come back do not fit the destination.
RunStatement(p) ==
    /\ pc[p] = "run"
    /\ Top(p).fn = "stmt"
    /\ LET t == Top(p).tx IN
        \/ /\ status[t] = "open"
           /\ \/ "writes" \in Features[p] /\ dirty' = [dirty EXCEPT ![t] = @ \cup {p}]
              \/ dirty' = dirty                              \* it only read
           /\ \/ Goto(p, "ok")
              \/ "call" \in Faults /\ (Goto(p, "err") \/ Goto(p, "panic"))
           /\ UNCHANGED <<txVars, kept, lost>>
        \/ /\ status[t] = "open"
           /\ "sql" \in Faults
           /\ status' = [status EXCEPT ![t] = "aborted"]
           /\ Goto(p, "err")
           /\ UNCHANGED <<path, cursors, conn, fateVars>>
        \/ /\ status[t] # "open"
           /\ Goto(p, "err")
           /\ UNCHANGED <<txVars, fateVars>>
        \/ /\ "call" \in Faults
           /\ Goto(p, "err") \/ Goto(p, "panic")
           /\ UNCHANGED <<txVars, fateVars>>

\* The closure of Replace fails on the model, or calls PrepExec on sr, the
\* store Replace was called on, not on the store of the closure: sr has the
\* transaction Replace joined, and none when Replace began one.
RunReplace(p) ==
    /\ pc[p] = "run"
    /\ Top(p).fn = "replace"
    /\ \/ LET f == Top(p) IN
            Enter(p, "stmt", f.shard, IF f.own THEN NoTx ELSE f.tx)
       \/ /\ "call" \in Faults
          /\ Goto(p, "err") \/ Goto(p, "panic")
          /\ UNCHANGED <<txVars, fateVars>>

\* A statement of a walk fails on the server, as a DECLARE of a cursor that is
\* open does, which aborts an open transaction; a call that does not get there
\* fails or panics.
WalkFails(p) ==
    LET t == Top(p).tx IN
    \/ /\ status[t] = "open"
       /\ "sql" \in Faults \/ (pc[p] = "run" /\ t \in cursors)
       /\ status' = [status EXCEPT ![t] = "aborted"]
       /\ Goto(p, "err")
       /\ UNCHANGED <<path, cursors, conn, fateVars>>
    \/ /\ status[t] # "open"
       /\ Goto(p, "err")
       /\ UNCHANGED <<txVars, fateVars>>
    \/ /\ "call" \in Faults
       /\ Goto(p, "err") \/ Goto(p, "panic")
       /\ UNCHANGED <<txVars, fateVars>>

\* In, PrepareQuery and DECLARE.  Nothing closes the cursor before the end of
\* the transaction, which can have one of a name.
DeclareCursor(p) ==
    /\ pc[p] = "run"
    /\ Top(p).fn = "walk"
    /\ LET t == Top(p).tx IN
        \/ /\ status[t] = "open"
           /\ t \notin cursors
           /\ cursors' = cursors \cup {t}
           /\ Goto(p, "fetch")
           /\ UNCHANGED <<status, path, conn, fateVars>>
        \/ WalkFails(p)

\* FETCH: some rows, for which the callback runs in the context of the walk's
\* caller,
FetchRows(p) ==
    /\ pc[p] = "fetch"
    /\ \/ /\ status[Top(p).tx] = "open"
          /\ Enter(p, "WithTx", Top(p).shard, Top(p).tx)
       \/ WalkFails(p)

\* or none.
FetchNothing(p) ==
    /\ pc[p] = "fetch"
    /\ status[Top(p).tx] = "open"
    /\ Goto(p, "ok")
    /\ UNCHANGED <<txVars, fateVars>>

Ended(p) == pc[p] \in {"ok", "err", "panic"}

\* The end of a call that joined a transaction leaves the transaction alone.
LeaveJoined(p) ==
    /\ Ended(p)
    /\ ~Top(p).own
    /\ Leave(p, pc[p])
    /\ UNCHANGED <<txVars, fateVars>>

\* Mutant: the error of COMMIT is dropped.
UncheckedCommit(p) ==
    /\ pc[p] = "ok"
    /\ Top(p).own
    /\ LET t == Top(p).tx IN
        IF Live(t) THEN EndTx(t, status[t] = "open" /\ "commit" \notin Faults)
                   ELSE UNCHANGED <<txVars, fateVars>>
    /\ Leave(p, "ok")

\* The deferred function of WithBeginTx, after the closure returned nil.  A
\* commit of an aborted transaction rolls back; one of a doomed transaction
\* returns the error of the context and leaves the rollback to database/sql.
Commit(p) ==
    /\ pc[p] = "ok"
    /\ Top(p).own
    /\ LET t == Top(p).tx IN
        \/ status[t] = "open" /\ EndTx(t, TRUE) /\ Leave(p, "ok")
        \/ /\ status[t] = "open"
           /\ "lostReply" \in Faults
           /\ EndTx(t, TRUE)
           /\ Leave(p, "err")
        \/ /\ \/ status[t] = "open" /\ "commit" \in Faults
              \/ status[t] = "aborted"
           /\ EndTx(t, FALSE)
           /\ Leave(p, "err")
        \/ /\ status[t] \in {"doomed", "done"}
           /\ Leave(p, "err")
           /\ UNCHANGED <<txVars, fateVars>>

\* Mutant: an error returns without the deferred Rollback.
ForgetRollback(p) ==
    /\ pc[p] \in {"err", "panic"}
    /\ Top(p).own
    /\ Leave(p, "err")
    /\ UNCHANGED <<txVars, fateVars>>

\* The same after an error or a panic, which it recovers and returns.
Rollback(p) ==
    /\ pc[p] \in {"err", "panic"}
    /\ Top(p).own
    /\ LET t == Top(p).tx IN
        IF Live(t) THEN EndTx(t, FALSE) ELSE UNCHANGED <<txVars, fateVars>>
    /\ Leave(p, "err")
-----------------------------------------------------------------------------
\* The context of p's call is cancelled, and with it the transactions begun
\* under it; database/sql rolls each back when it gets to it.
Cancel(p) ==
    /\ "cancel" \in Faults
    /\ pc[p] # "idle"
    /\ p \notin cancelled
    /\ cancelled' = cancelled \cup {p}
    /\ status' = [t \in Tx |->
                    IF Live(t) /\ \E f \in FramesOf(p) : f.own /\ f.tx = t
                    THEN "doomed" ELSE status[t]]
    /\ UNCHANGED <<stack, pc, result, path, cursors, conn, fateVars>>

RollbackDoomed(t) ==
    /\ status[t] = "doomed"
    /\ EndTx(t, FALSE)
    /\ UNCHANGED callVars
-----------------------------------------------------------------------------
CallStep(p) ==
    \/ CallWithTx(p)
    \/ CallWithTxInShard(p)
    \/ CallShardWithTx(p)
    \/ CallStatement(p)
    \/ CallReplace(p)
    \/ CallCursorWalk(p)
    \/ RefuseCursorWalk(p)

StoreStep(p) ==
    \/ AcquireFails(p)
    \/ SetSearchPath(p)
    \/ RunStatement(p)
    \/ RunReplace(p)
    \/ DeclareCursor(p)
    \/ FetchRows(p)
    \/ FetchNothing(p)
    \/ LeaveJoined(p)
    \/ Commit(p)
    \/ Rollback(p)

Next ==
    \/ \E p \in Procs :
        \/ CallStep(p)
        \/ Acquire(p)
        \/ ReturnFromCallback(p)
        \/ StoreStep(p)
        \/ Cancel(p)
    \/ \E t \in Tx : RollbackDoomed(t)

Spec == Init /\ [][Next]_vars

\* The code of the store runs on; database/sql serves waiting BeginTxx calls
\* from a queue and rolls back what is cancelled; user callbacks return, those
\* that make calls of their own included; the rows of a cursor come to an end.
Fairness ==
    /\ \A p \in Procs : /\ WF_vars(StoreStep(p))
                        /\ SF_vars(Acquire(p))
                        /\ \A k \in 1 .. MaxDepth + 1 :
                                SF_vars(/\ Len(stack[p]) = k
                                        /\ ReturnFromCallback(p) \/ FetchNothing(p))
    /\ \A t \in Tx : WF_vars(RollbackDoomed(t))

FairSpec == Spec /\ Fairness
-----------------------------------------------------------------------------
TypeOK ==
    /\ stack \in [Procs -> Seq(Frame)]
    /\ pc \in [Procs -> PCs]
    /\ result \in [Procs -> {"none", "ok", "err", "panic"}]
    /\ cancelled \subseteq Procs
    /\ status \in [Tx -> TxStates]
    /\ path \subseteq Tx
    /\ cursors \subseteq Tx
    /\ conn \in [Conns -> Tx \cup {NoTx}]
    /\ dirty \in [Tx -> SUBSET Procs]
    /\ kept \subseteq Procs
    /\ lost \subseteq Procs

\* A store call made inside a transaction runs inside that transaction: the
\* call chain of a goroutine begins one transaction at most (the comments at
\* pgparty.go:85 and pgparty.go:93).
OneTxPerChain ==
    \A p \in Procs : \A i, j \in 1 .. Len(stack[p]) :
        stack[p][i].own /\ stack[p][j].own => i = j

\* A goroutine that waits in BeginTxx for a connection holds none: the pools
\* cannot be exhausted by goroutines that wait for each other.
NoHoldAndWait ==
    \A p \in Procs : pc[p] = "acquire" =>
        \A f \in FramesOf(p) : f.tx # NoTx => ~Live(f.tx)

\* A busy connection serves a transaction that has not ended, which has no
\* other connection and belongs to a WithBeginTx that will end it, or is about
\* to be rolled back: no return, error or panic leaks a connection.
NoLeak ==
    /\ \A c \in Conns : conn[c] # NoTx => Live(conn[c])
    /\ \A t \in Tx : Live(t) =>
        /\ \E c \in Conns : \A d \in Conns : conn[d] = t <=> d = c
        /\ \/ status[t] = "doomed"
           \/ \E p \in Procs : \E f \in FramesOf(p) : f.own /\ f.tx = t

\* Statements run with the search_path of their schema: no closure runs in a
\* live transaction before set_config succeeded in it.
SearchPathSet ==
    \A p \in Procs : pc[p] = "run" /\ Live(Top(p).tx) => Top(p).tx \in path

\* The writes of one outermost call are never split: not some committed and
\* others rolled back, or still undecided.
AllOrNothing ==
    \A p \in kept : p \notin lost /\ \A t \in Tx : p \notin dirty[t]

\* A call that returned nil lost no write; one that returned an error kept
\* none, unless the answer to its COMMIT was lost; one that a panic left has
\* neither, and nothing to be decided.
ResultTellsFate ==
    \A p \in Procs :
        /\ result[p] = "ok" => p \notin lost /\ \A t \in Tx : p \notin dirty[t]
        /\ result[p] = "err" /\ "lostReply" \notin Faults => p \notin kept
        /\ result[p] = "panic" => /\ p \notin kept \cup lost
                                  /\ \A t \in Tx : p \notin dirty[t]

\* Every outermost call returns, if no goroutine ever waits for a connection
\* while it holds another (begins a transaction inside one).
EveryCallReturns ==
    []NoHoldAndWait => \A p \in Procs : pc[p] # "idle" ~> pc[p] = "idle"

\* The promise to callers, as AtomicCalls states it.
Fate == [p \in Procs |->
            IF p \in kept THEN "durable"
            ELSE IF p \in lost THEN "undone"
            ELSE IF \E t \in Tx : p \in dirty[t] THEN "tentative" ELSE "clean"]

Promise == INSTANCE AtomicCalls
    WITH MayLoseReply <- "lostReply" \in Faults, fate <- Fate

ImplementsAtomicCalls == Promise!Spec
-----------------------------------------------------------------------------
(***************************************************************************)
(* The inductive invariant behind these properties, for programs that      *)
(* begin no transaction inside another.                                    *)
(***************************************************************************)

\* The transaction p's call chain runs in.
HeldTx(p) == IF stack[p] = <<>> THEN NoTx ELSE Top(p).tx

\* All frames of a chain run in one transaction, which the outermost began.
ChainInv ==
    \A p \in Procs :
        /\ \A i \in 1 .. Len(stack[p]) :
            /\ stack[p][i].own => i = Len(stack[p]) /\ stack[p][i].fn # "replace"
            /\ stack[p][i].tx = HeldTx(p)
        /\ pc[p] = "acquire" => HeldTx(p) = NoTx

\* Chains share no transaction, and live transactions have a connection each.
HolderInv ==
    /\ \A p, q \in Procs : HeldTx(p) = HeldTx(q) => p = q \/ HeldTx(p) = NoTx
    /\ \A c \in Conns : conn[c] # NoTx => Live(conn[c])
    /\ \A t \in Tx : Live(t) =>
        /\ \E c \in Conns : \A d \in Conns : conn[d] = t <=> d = c
        /\ status[t] = "doomed" \/ \E p \in Procs : HeldTx(p) = t

\* Undecided writes are in the live transaction of the call that made them, or
\* in a doomed one if the call has returned; writes are decided once.
FateInv ==
    \A p \in Procs :
        /\ pc[p] # "idle" => result[p] = "none"
        /\ \A t \in Tx : p \in dirty[t] =>
            /\ Live(t)
            /\ IF pc[p] = "idle" THEN result[p] = "err" /\ status[t] = "doomed"
                                 ELSE HeldTx(p) = t
        /\ p \in lost =>
            IF pc[p] = "idle" THEN result[p] = "err"
                              ELSE HeldTx(p) # NoTx /\ ~Live(HeldTx(p))
        /\ p \in kept =>
            /\ pc[p] = "idle" /\ p \notin lost
            /\ result[p] = "ok" \/ (result[p] = "err" /\ "lostReply" \in Faults)
            /\ \A t \in Tx : p \notin dirty[t]

Inv == ChainInv /\ HolderInv /\ FateInv
=============================================================================
