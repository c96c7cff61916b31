-------------------------------- MODULE List --------------------------------
(***************************************************************************)
(* Package list (list/list.go): doubly linked lists as rings of pointers.  *)
(* The root of list l, &l.root, is written l.  Several lists share the     *)
(* type of their elements, so every call can be handed an element of       *)
(* another list, or one that was removed.  Elements are made by the calls  *)
(* that insert values and stay known to the program for ever.              *)
(***************************************************************************)
EXTENDS Integers, FiniteSets, Sequences

CONSTANTS
    Lists, Elems,   \* Elems bounds the elements that are made
    Values, Nil

ASSUME ListAssumption ==
    /\ Lists \cap Elems = {}
    /\ IsFiniteSet(Elems)
    /\ Nil \notin Lists \cup Elems \cup Values

VARIABLES
    next, prev,   \* of elements and roots
    list,         \* Element.list
    len,          \* List.len
    value,        \* Element.Value, Nil until the element is made
    cleared,      \* elements whose list was cleared by Init: their list
                  \* field still names it
    copying,      \* the loop of PushBackList or PushFrontList that runs
    call          \* the last call that returned

links == <<next, prev, list, len, value>>
vars == <<links, cleared, copying, call>>

Nodes == Lists \cup Elems

Made == {e \in Elems : value[e] # Nil}

\* &Element{Value: v}; which of the elements not made it is does not matter.
New == CHOOSE e \in Elems : e \notin Made

\* The elements a program passes to calls: an element of a cleared list is
\* none of l any more, and must not be used (Remove and the others would take
\* its list field for true).
Usable == Made \ cleared

NotCopying == [to |-> Nil, op |-> "none", other |-> Nil, e |-> Nil, i |-> 0, made |-> {}]

Calls == {"none", "Init", "Remove", "PushFront", "PushBack", "InsertBefore",
          "InsertAfter", "MoveToFront", "MoveToBack", "MoveBefore", "MoveAfter",
          "PushBackList", "PushFrontList"}

\* The zero List of Go is an empty list.
Init ==
    /\ next = [n \in Nodes |-> Nil]
    /\ prev = [n \in Nodes |-> Nil]
    /\ list = [e \in Elems |-> Nil]
    /\ len = [l \in Lists |-> 0]
    /\ value = [e \in Elems |-> Nil]
    /\ cleared = {}
    /\ copying = NotCopying
    /\ call = [op |-> "none", list |-> Nil, elem |-> Nil, mark |-> Nil]

\* f after the assignment f[n] = v.
Put(f, n, v) == [f EXCEPT ![n] = v]

Done(l, op, e, m) ==
    /\ call' = [op |-> op, list |-> l, elem |-> e, mark |-> m]
    /\ UNCHANGED copying

\* Element.Next, or with the links f = prev Element.Prev; ls is the field list.
Step(ls, f, e) == IF ls[e] # Nil /\ f[e] # ls[e] THEN f[e] ELSE Nil

Front(l) == IF len[l] = 0 THEN Nil ELSE next[l]

Back(l) == IF len[l] = 0 THEN Nil ELSE prev[l]

Contents(l) == {e \in Elems : list[e] = l /\ e \notin cleared}
-----------------------------------------------------------------------------
\* The links after lazyInit of l.
LazyNext(l) == IF next[l] = Nil THEN Put(next, l, l) ELSE next
LazyPrev(l) == IF next[l] = Nil THEN Put(prev, l, l) ELSE prev

\* insert: the new element e with value v goes after node at, where n and p
\* are the links.
InsertValue(l, n, p, at, e, v) ==
    /\ Made # Elems
    /\ next' = Put(Put(n, e, n[at]), at, e)
    /\ prev' = Put(Put(p, e, at), n[at], e)
    /\ list' = [list EXCEPT ![e] = l]
    /\ len' = [len EXCEPT ![l] = @ + 1]
    /\ value' = [value EXCEPT ![e] = v]
    /\ UNCHANGED cleared

\* The links once e is cut out, where it is not yet set to nil.
CutNext(e) == Put(next, prev[e], next[e])
CutPrev(e) == Put(prev, next[e], prev[e])

\* Mutant: the link back is not updated.
RelinkOneWay(e, at) ==
    /\ IF e = at
       THEN UNCHANGED <<next, prev>>
       ELSE /\ next' = Put(Put(CutNext(e), e, CutNext(e)[at]), at, e)
            /\ prev' = Put(CutPrev(e), e, at)
    /\ UNCHANGED <<list, len, value, cleared>>

\* move: e goes after node at.
Relink(e, at) ==
    /\ IF e = at
       THEN UNCHANGED <<next, prev>>
       ELSE /\ next' = Put(Put(CutNext(e), e, CutNext(e)[at]), at, e)
            /\ prev' = Put(Put(CutPrev(e), e, at), CutNext(e)[at], e)
    /\ UNCHANGED <<list, len, value, cleared>>

Stay == UNCHANGED <<links, cleared>>
-----------------------------------------------------------------------------
InitList(l) ==
    /\ next' = Put(next, l, l)
    /\ prev' = Put(prev, l, l)
    /\ len' = [len EXCEPT ![l] = 0]
    /\ cleared' = cleared \cup Contents(l)
    /\ UNCHANGED <<list, value>>
    /\ Done(l, "Init", Nil, Nil)

Remove(l, e) ==
    /\ IF list[e] = l
       THEN /\ next' = Put(CutNext(e), e, Nil)
            /\ prev' = Put(CutPrev(e), e, Nil)
            /\ list' = [list EXCEPT ![e] = Nil]
            /\ len' = [len EXCEPT ![l] = @ - 1]
            /\ UNCHANGED <<value, cleared>>
       ELSE Stay
    /\ Done(l, "Remove", e, Nil)

PushFront(l, v) ==
    /\ InsertValue(l, LazyNext(l), LazyPrev(l), l, New, v)
    /\ Done(l, "PushFront", New, Nil)

PushBack(l, v) ==
    /\ InsertValue(l, LazyNext(l), LazyPrev(l), LazyPrev(l)[l], New, v)
    /\ Done(l, "PushBack", New, Nil)

\* Mutant: a mark of another list is taken.
InsertBeforeAnyMark(l, v, mark) ==
    /\ list[mark] # Nil
    /\ InsertValue(l, next, prev, prev[mark], New, v)
    /\ Done(l, "InsertBefore", New, mark)

InsertBefore(l, v, mark) ==
    \/ /\ list[mark] # l
       /\ Stay /\ Done(l, "InsertBefore", Nil, mark)
    \/ /\ list[mark] = l
       /\ InsertValue(l, next, prev, prev[mark], New, v)
       /\ Done(l, "InsertBefore", New, mark)

InsertAfter(l, v, mark) ==
    \/ /\ list[mark] # l
       /\ Stay /\ Done(l, "InsertAfter", Nil, mark)
    \/ /\ list[mark] = l
       /\ InsertValue(l, next, prev, mark, New, v)
       /\ Done(l, "InsertAfter", New, mark)

MoveToFront(l, e) ==
    /\ IF list[e] # l \/ next[l] = e THEN Stay ELSE Relink(e, l)
    /\ Done(l, "MoveToFront", e, Nil)

MoveToBack(l, e) ==
    /\ IF list[e] # l \/ prev[l] = e THEN Stay ELSE Relink(e, prev[l])
    /\ Done(l, "MoveToBack", e, Nil)

MoveBefore(l, e, mark) ==
    /\ IF list[e] # l \/ e = mark \/ list[mark] # l THEN Stay ELSE Relink(e, prev[mark])
    /\ Done(l, "MoveBefore", e, mark)

MoveAfter(l, e, mark) ==
    /\ IF list[e] # l \/ e = mark \/ list[mark] # l THEN Stay ELSE Relink(e, mark)
    /\ Done(l, "MoveAfter", e, mark)
-----------------------------------------------------------------------------
(***************************************************************************)
(* The loops of PushBackList and PushFrontList.  The other list may be l,  *)
(* which grows while it is copied: the number of copies is fixed before.   *)
(***************************************************************************)
PushListBegins(l, other) ==
    /\ len[other] <= Cardinality(Elems \ Made)
    /\ next' = LazyNext(l)
    /\ prev' = LazyPrev(l)
    /\ \/ copying' = [to |-> l, op |-> "PushBackList", other |-> other,
                      e |-> Front(other), i |-> len[other], made |-> {}]
       \/ copying' = [to |-> l, op |-> "PushFrontList", other |-> other,
                      e |-> Back(other), i |-> len[other], made |-> {}]
    /\ UNCHANGED <<list, len, value, cleared, call>>

\* Mutant: the copies always go to the back.
AppendOne ==
    LET c == copying IN
    /\ c.i > 0 /\ c.e \in Elems
    /\ InsertValue(c.to, next, prev, prev[c.to], New, value[c.e])
    /\ copying' = [c EXCEPT !.i = @ - 1,
                            !.e = Step(list', IF c.op = "PushBackList" THEN next' ELSE prev', @),
                            !.made = @ \cup {New}]
    /\ UNCHANGED call

\* The loop counts i and follows e; it would stop for ever on an e that is nil
\* or a root.
CopyOne ==
    LET c == copying IN
    /\ c.i > 0 /\ c.e \in Elems
    /\ InsertValue(c.to, next, prev,
                   IF c.op = "PushBackList" THEN prev[c.to] ELSE c.to, New, value[c.e])
    /\ copying' = [to |-> c.to, op |-> c.op, other |-> c.other, i |-> c.i - 1,
                   e |-> Step(list', IF c.op = "PushBackList" THEN next' ELSE prev', c.e),
                   made |-> c.made \cup {New}]
    /\ UNCHANGED call

PushListEnds ==
    /\ copying.to # Nil
    /\ copying.i = 0
    /\ call' = [op |-> copying.op, list |-> copying.to, elem |-> Nil, mark |-> copying.other]
    /\ copying' = NotCopying
    /\ UNCHANGED <<links, cleared>>
-----------------------------------------------------------------------------
Operation ==
    \E l \in Lists :
        \/ InitList(l)
        \/ \E v \in Values : \/ PushFront(l, v) \/ PushBack(l, v)
                             \/ \E mark \in Usable : \/ InsertBefore(l, v, mark)
                                                     \/ InsertAfter(l, v, mark)
        \/ \E e \in Usable : \/ Remove(l, e) \/ MoveToFront(l, e) \/ MoveToBack(l, e)
                             \/ \E mark \in Usable : \/ MoveBefore(l, e, mark)
                                                     \/ MoveAfter(l, e, mark)
        \/ \E other \in Lists : PushListBegins(l, other)

Next ==
    \/ copying.to = Nil /\ Operation
    \/ CopyOne
    \/ PushListEnds

Spec == Init /\ [][Next]_vars
-----------------------------------------------------------------------------
TypeOK ==
    /\ next \in [Nodes -> Nodes \cup {Nil}]
    /\ prev \in [Nodes -> Nodes \cup {Nil}]
    /\ list \in [Elems -> Lists \cup {Nil}]
    /\ len \in [Lists -> Nat]
    /\ value \in [Elems -> Values \cup {Nil}]
    /\ cleared \subseteq Made
    /\ copying \in [to : Lists \cup {Nil}, op : Calls, other : Lists \cup {Nil},
                    e : Nodes \cup {Nil}, i : Nat, made : SUBSET Elems]
    /\ call \in [op : Calls, list : Lists \cup {Nil}, elem : Elems \cup {Nil},
                 mark : Elems \cup Lists \cup {Nil}]

\* The list a node is of, and the nodes that are in a ring, for lists with the
\* links n and p, the list fields ls and the cleared elements cl.
ListOf(ls, x) == IF x \in Lists THEN x ELSE ls[x]
InRing(n, ls, cl, x) == IF x \in Lists THEN n[x] # Nil ELSE ls[x] # Nil /\ x \notin cl

\* x has a neighbour y in its list that leads back to x.
Linked(n, p, ls, cl, x, y) ==
    y \in Nodes /\ p[y] = x /\ InRing(n, ls, cl, y) /\ ListOf(ls, y) = ListOf(ls, x)

Rings(n, p, ls, cl) ==
    \A x \in Nodes : InRing(n, ls, cl, x) => /\ Linked(n, p, ls, cl, x, n[x])
                                           /\ Linked(n, n, ls, cl, x, p[x])

\* Who follows the links from a node of a list stays in the list, and comes
\* back the way he went.
LinksMatch == Rings(next, prev, list, cleared)

\* The elements of lists are made, and their lists were seen by lazyInit.
Unlinked ==
    /\ \A e \in Elems : list[e] # Nil => value[e] # Nil /\ next[list[e]] # Nil
    /\ \A l \in Lists : next[l] = Nil => prev[l] = Nil

\* A loop that runs is at an element of a list, and copies to one that
\* lazyInit has seen.
CopyInv ==
    /\ copying.to = Nil => copying.i = 0 /\ copying.e = Nil
    /\ copying.to # Nil => next[copying.to] # Nil
    /\ copying.e # Nil => InRing(next, list, cleared, copying.e)

\* Len counts the elements of the list (list.go:64).
LenCounts == \A l \in Lists : len[l] = Cardinality(Contents(l))

Inv == TypeOK /\ LinksMatch /\ Unlinked /\ CopyInv /\ LenCounts

\* The nodes after the root of l, as `for e := l.Front(); e != nil; e = e.Next()`
\* meets them.
Walk(l) ==
    LET at[i \in Nat] == IF i = 0 THEN l ELSE next[at[i - 1]]
    IN [i \in 1 .. len[l] |-> at[i]]

\* The elements of l as its users know them: the copies that a loop makes, at
\* the end of the list where it puts them, appear when it is over.
ContentsSeen ==
    [l \in Lists |->
        LET copies == IF l = copying.to THEN Cardinality(copying.made) ELSE 0
        IN  IF copying.op = "PushFrontList"
            THEN SubSeq(Walk(l), copies + 1, len[l])
            ELSE SubSeq(Walk(l), 1, len[l] - copies)]

ValueSeen == [e \in Elems |-> IF e \in copying.made THEN Nil ELSE value[e]]

Promise == INSTANCE ListContents WITH contents <- ContentsSeen, value <- ValueSeen

\* Every call does to the sequences of elements what its comment says, and
\* nothing to those of other lists (list.go:131-235).
ImplementsListContents == Promise!Spec

\* From the front to the back there are all elements of the list and no other
\* (list.go:7).
WalkIsComplete ==
    \A l \in Lists : LET w == Walk(l) IN
        /\ {w[i] : i \in 1 .. Len(w)} = Contents(l)
        /\ w # <<>> => Front(l) = w[1] /\ Back(l) = w[Len(w)]
=============================================================================
