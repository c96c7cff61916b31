---------------------------- MODULE MCContainers ----------------------------
(***************************************************************************)
(* An instance of List and one of Objects for TLC.  They share nothing:    *)
(* a program uses the lists or the sets, which is every interleaving that  *)
(* either can tell from the others.                                        *)
(***************************************************************************)
EXTENDS List, Objects, TLC

CONSTANTS Key, Json, Unknown

\* The columns of two joins: one has the id of both tables, the other a column
\* of another table.
First == <<Key, Key>>

MCLayouts == {First, <<Json, Other>>}

\* A field with a key of another version, and one with a value of another type.
MCTexts == {Json :> 1 @@ Unknown :> 1, Key :> 1 @@ Json :> Bad}

NoObjects == ObjectsInit /\ query = First

ContainersInit == Init /\ NoObjects

UsesLists == NoObjects /\ Next /\ UNCHANGED objectVars

UsesObjects == Init /\ ObjectsNext /\ UNCHANGED vars

ContainersSpec ==
    ContainersInit /\ [][UsesLists \/ UsesObjects]_<<vars, objectVars>>

\* Lists are interchangeable, and so are the values of their elements.
Symmetry == {f @@ g : f \in Permutations(Lists), g \in Permutations(Values)}

\* What a set has, whichever array it is in.
Seen(u) ==
    <<[set[u] EXCEPT !.arr = NoArray], mem[set[u].arr], set[u].arr \in pool,
      Cardinality({w \in Sets : set[w].arr = set[u].arr})>>

\* No step depends on what the last call to a list was.  Sets and arrays are
\* interchangeable too: sets are counted by what they have, arrays of the pool
\* by their length.
View ==
    <<links, cleared, copying, hand, query,
      {<<Seen(u), Cardinality({w \in Sets : Seen(w) = Seen(u)})>> : u \in Sets},
      [n \in 0..MaxCap |-> Cardinality({a \in pool : Len(mem[a]) = n})]>>
=============================================================================
