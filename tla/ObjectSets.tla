----------------------------- MODULE ObjectSets -----------------------------
(***************************************************************************)
(* What the users of UniqueObjects see: a sequence of rows, one for every  *)
(* id that was put, in the order in which the ids came.  A row takes the   *)
(* place of the one with its id.  Sets have nothing in common.             *)
(***************************************************************************)
EXTENDS Naturals, Sequences

CONSTANTS Sets, Rows, ID

VARIABLE contents   \* contents[u].open; rows: the rows of set u

Becomes(u, open, rows) ==
    contents' = [contents EXCEPT ![u] = [open |-> open, rows |-> rows]]

Init == contents = [u \in Sets |-> [open |-> FALSE, rows |-> <<>>]]

New(u) == ~contents[u].open /\ Becomes(u, TRUE, <<>>)

Reset(u) == contents[u].open /\ Becomes(u, TRUE, <<>>)

Close(u) == contents[u].open /\ Becomes(u, FALSE, <<>>)

\* One row of the new ones was put: its place is that of the old one with its
\* id, or the end.
OneRowPut(old, new) ==
    \E i \in DOMAIN new :
        /\ new[i] \in Rows
        /\ IF \E j \in DOMAIN old : old[j][ID] = new[i][ID]
           THEN i \in DOMAIN old /\ old[i][ID] = new[i][ID] /\ new = [old EXCEPT ![i] = new[i]]
           ELSE new = Append(old, new[i])

Put(u) ==
    /\ contents[u].open
    /\ OneRowPut(contents[u].rows, contents'[u].rows)
    /\ Becomes(u, TRUE, contents'[u].rows)

Next == \E u \in Sets : New(u) \/ Reset(u) \/ Close(u) \/ Put(u)

Spec == Init /\ [][Next]_contents
=============================================================================
