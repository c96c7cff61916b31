------------------------------- MODULE RWMutex -------------------------------
(***************************************************************************)
(* sync.RWMutex of Go, as md.go and shards.go use it.  A writer announces  *)
(* itself and then waits until the readers are gone; from then on readers  *)
(* queue, also those that hold the lock already.  Unlock lets all queued   *)
(* readers in before the next writer.                                      *)
(***************************************************************************)
EXTENDS Naturals

CONSTANTS Procs, NoProc

ASSUME NoProcAssumption == NoProc \notin Procs

VARIABLES
    reading,   \* reading[p]: the read locks p holds
    writing,   \* the writer that holds the lock or waits for the readers
    queued     \* the readers that wait for the writer

mutexVars == <<reading, writing, queued>>

MutexTypeOK ==
    /\ reading \in [Procs -> Nat]
    /\ writing \in Procs \cup {NoProc}
    /\ queued \subseteq Procs

MutexInit ==
    /\ reading = [p \in Procs |-> 0]
    /\ writing = NoProc
    /\ queued = {}

\* The call returns at once, or when p is no longer queued.
RLock(p) ==
    IF writing = NoProc
    THEN reading' = [reading EXCEPT ![p] = @ + 1] /\ UNCHANGED <<writing, queued>>
    ELSE queued' = queued \cup {p} /\ UNCHANGED <<reading, writing>>

HasRLock(p) == p \notin queued

RUnlock(p) ==
    /\ reading' = [reading EXCEPT ![p] = @ - 1]
    /\ UNCHANGED <<writing, queued>>

\* The call returns when HasLock(p).
Lock(p) ==
    /\ writing = NoProc
    /\ writing' = p
    /\ UNCHANGED <<reading, queued>>

HasLock(p) == writing = p /\ \A q \in Procs : reading[q] = 0

Unlock(p) ==
    /\ writing' = NoProc
    /\ reading' = [q \in Procs |-> IF q \in queued THEN reading[q] + 1 ELSE reading[q]]
    /\ queued' = {}
=============================================================================
