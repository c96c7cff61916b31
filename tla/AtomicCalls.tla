---------------------------- MODULE AtomicCalls ----------------------------
(***************************************************************************)
(* What a caller of the transactional interface of pgparty is promised.    *)
(* A goroutine makes one outermost call at a time.  Everything the call    *)
(* writes shares one fate: it all becomes durable, or it is all undone.    *)
(* A call that returns nil has lost nothing; a call that returns an error  *)
(* left nothing behind, except that the answer to a COMMIT may be lost, in *)
(* which case an error is returned for writes that are durable.  A call    *)
(* can be refused at once, and only then by a panic.                       *)
(*                                                                         *)
(* fate[p] says what became of the writes of p's current (or last) call:   *)
(*   clean      it has written nothing                                     *)
(*   tentative  it has written, and the writes are not decided             *)
(*   durable    its writes are committed                                   *)
(*   undone     its writes are rolled back                                 *)
(***************************************************************************)
CONSTANTS Procs,          \* goroutines
          MayLoseReply    \* TRUE when the answer to a COMMIT can be lost

VARIABLES result, fate

vars == <<result, fate>>

Fates == {"clean", "tentative", "durable", "undone"}

\* "none" before the first call and while a call is running.
Results == {"none", "ok", "err", "panic"}

TypeOK == /\ result \in [Procs -> Results]
          /\ fate \in [Procs -> Fates]

Init == /\ result = [p \in Procs |-> "none"]
        /\ fate = [p \in Procs |-> "clean"]

Begin(p, r) == /\ result' = [result EXCEPT ![p] = r]
               /\ fate' = [fate EXCEPT ![p] = "clean"]

Call(p) == Begin(p, "none")

Refuse(p) == Begin(p, "err") \/ Begin(p, "panic")

\* Writes made on behalf of a running call are tentative until it ends.
Write(p) == /\ result[p] = "none"
            /\ fate[p] \in {"clean", "tentative"}
            /\ fate' = [fate EXCEPT ![p] = "tentative"]
            /\ UNCHANGED result

\* The database gives up a call's writes: while it runs (its context was
\* cancelled), or after it reported an error.
Undo(p) == /\ result[p] \in {"none", "err"}
           /\ fate[p] = "tentative"
           /\ fate' = [fate EXCEPT ![p] = "undone"]
           /\ UNCHANGED result

Succeed(p) == /\ result[p] = "none"
              /\ fate[p] \in {"clean", "tentative"}
              /\ result' = [result EXCEPT ![p] = "ok"]
              /\ fate' = [fate EXCEPT ![p] = IF @ = "tentative" THEN "durable" ELSE @]

Fail(p) == /\ result[p] = "none"
           /\ result' = [result EXCEPT ![p] = "err"]
           /\ \/ /\ fate[p] \in {"clean", "undone", "tentative"}
                 /\ fate' = fate
              \/ /\ fate[p] = "tentative"
                 /\ fate' = [fate EXCEPT ![p] = "undone"]
              \/ /\ MayLoseReply
                 /\ fate[p] = "tentative"
                 /\ fate' = [fate EXCEPT ![p] = "durable"]

Next == \E p \in Procs : Call(p) \/ Refuse(p) \/ Write(p) \/ Undo(p) \/ Succeed(p) \/ Fail(p)

Spec == Init /\ [][Next]_vars
=============================================================================
