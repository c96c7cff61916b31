------------------------------ MODULE MCViews ------------------------------
(***************************************************************************)
(* Views for TLC: a model with a field in JSON and in a column, one that   *)
(* is in JSON only and omitted when empty, and one in a column only.       *)
(***************************************************************************)
EXTENDS Views, TLC

CONSTANTS Both, Json, Column

Pair(k, x) == [key |-> k, val |-> x]

\* Texts of clients: a field of another version first, in the middle, a value
\* of another type, a field twice, a field that JSON does not have.
MCTexts == {<<Pair(Unknown, 1), Pair(Both, 1)>>,
            <<Pair(Json, 1), Pair(Unknown, 1), Pair(Both, 1)>>,
            <<Pair(Both, Bad), Pair(Json, 1), Pair(Column, 1)>>,
            <<Pair(Both, 1), Pair(Both, 0)>>,
            <<Pair(Column, 1), Pair(Both, 1)>>}

\* Rows: columns of another table, a value of another type, a column twice.
MCRows == {<<Pair(Unknown, 1), Pair(Column, 1), Pair(Both, 1)>>,
           <<Pair(Column, 1), Pair(Both, Bad), Pair(Json, 1)>>,
           <<Pair(Both, 1), Pair(Unknown, 0), Pair(Both, 0)>>}

Symmetry == Permutations(Arrays)
=============================================================================
