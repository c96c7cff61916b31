------------------------------- MODULE MCValues -------------------------------
EXTENDS Values, TLC

\* Variables are only compared.
Symmetry == Permutations(Vars)

\* No step depends on what the last call was.
ButLast == <<type, var, carried, torn>>
=============================================================================
