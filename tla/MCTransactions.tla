--------------------------- MODULE MCTransactions ---------------------------
(***************************************************************************)
(* Instances of Transactions for TLC.                                      *)
(***************************************************************************)
EXTENDS Transactions, TLC

CONSTANTS s1, s2, c1, c2, p1, p2

\* Both goroutines write and walk cursors, in the transaction they have.
Walks == [p \in Procs |-> {"walk", "writes"}]

\* One begins transactions inside transactions, the other walks cursors.
Mixed == (p1 :> {"detached", "replaceOutside"}) @@ (p2 :> {"walk"})

\* One goroutine, which calls Replace outside a transaction.
Replaces == p1 :> {"replaceOutside", "writes"}

\* Two shards, each with its own database and a pool of one connection.
OwnPools == (s1 :> {c1}) @@ (s2 :> {c2})

\* Two shards that are schemas of one database: both use one pool.
SharedPool == (s1 :> {c1, c2}) @@ (s2 :> {c1, c2})

\* Transaction identities and goroutines are interchangeable, and so are the
\* shards and the connections of a pool that all shards share.
Symmetry == UNION {Permutations(S) : S \in {Tx, Procs, Shards, Conns}}
=============================================================================
