---------------------------- MODULE ListContents ----------------------------
(***************************************************************************)
(* What the users of package list see: every list is a sequence of         *)
(* elements, an element is in one list at most, and a call that names an   *)
(* element of another list changes nothing.  call is the last call with    *)
(* the elements it took and returned, so that no operation can pass for    *)
(* another one.                                                            *)
(***************************************************************************)
EXTENDS Naturals, SequencesExt

CONSTANTS Lists, Elems, Values, Nil

VARIABLES contents,   \* contents[l]: the elements of l in order
          value,      \* value[e]: Element.Value, once e is made
          call

vars == <<contents, value, call>>

Made == {e \in Elems : value[e] # Nil}

Has(l, e) == e \in ToSet(contents[l])

Pos(s, e) == SelectInSeq(s, LAMBDA x : x = e)

Before(s, e, m) == InsertAt(s, Pos(s, m), e)
After(s, e, m) == InsertAt(s, Pos(s, m) + 1, e)

Init ==
    /\ contents = [l \in Lists |-> <<>>]
    /\ value = [e \in Elems |-> Nil]
    /\ call = [op |-> "none", list |-> Nil, elem |-> Nil, mark |-> Nil]

\* The call op on list l, which took or returned element e.
Called(op, l, e, m) == call' = [op |-> op, list |-> l, elem |-> e, mark |-> m]

Becomes(l, s) == contents' = [contents EXCEPT ![l] = s]

Clear(l) ==
    /\ Called("Init", l, Nil, Nil)
    /\ Becomes(l, <<>>)
    /\ UNCHANGED value

TakeOut(l, e) ==
    /\ Called("Remove", l, e, Nil)
    /\ Becomes(l, RemoveFirst(contents[l], e))
    /\ UNCHANGED value

Push(l, e, v) ==
    /\ \/ /\ Called("PushFront", l, e, Nil)
          /\ Becomes(l, <<e>> \o contents[l])
       \/ /\ Called("PushBack", l, e, Nil)
          /\ Becomes(l, Append(contents[l], e))
    /\ value' = [value EXCEPT ![e] = v]

Insert(l, e, v, m) ==
    /\ Has(l, m)
    /\ \/ /\ Called("InsertBefore", l, e, m)
          /\ Becomes(l, Before(contents[l], e, m))
       \/ /\ Called("InsertAfter", l, e, m)
          /\ Becomes(l, After(contents[l], e, m))
    /\ value' = [value EXCEPT ![e] = v]

InsertNothing(l, m) ==
    /\ ~Has(l, m)
    /\ Called("InsertBefore", l, Nil, m) \/ Called("InsertAfter", l, Nil, m)
    /\ UNCHANGED <<contents, value>>

Move(l, e) ==
    LET rest == RemoveFirst(contents[l], e) IN
    /\ \/ /\ Called("MoveToFront", l, e, Nil)
          /\ Becomes(l, IF Has(l, e) THEN <<e>> \o rest ELSE rest)
       \/ /\ Called("MoveToBack", l, e, Nil)
          /\ Becomes(l, IF Has(l, e) THEN Append(rest, e) ELSE rest)
    /\ UNCHANGED value

MoveNextTo(l, e, m) ==
    LET moves == e # m /\ Has(l, e) /\ Has(l, m)
        rest == RemoveFirst(contents[l], e)
    IN
    /\ \/ /\ Called("MoveBefore", l, e, m)
          /\ Becomes(l, IF moves THEN Before(rest, e, m) ELSE contents[l])
       \/ /\ Called("MoveAfter", l, e, m)
          /\ Becomes(l, IF moves THEN After(rest, e, m) ELSE contents[l])
    /\ UNCHANGED value

\* The copies are new elements with the values of the other list, in its
\* order; the other list may be l itself.
Copies(l, other, copy) ==
    /\ \/ /\ Called("PushBackList", l, Nil, other)
          /\ Becomes(l, contents[l] \o copy)
       \/ /\ Called("PushFrontList", l, Nil, other)
          /\ Becomes(l, copy \o contents[l])
    /\ value' = [e \in Elems |-> IF e \in ToSet(copy)
                                THEN value[contents[other][Pos(copy, e)]]
                                ELSE value[e]]

PushList(l, other) ==
    /\ Called("PushBackList", l, Nil, other) \/ Called("PushFrontList", l, Nil, other)
    /\ \E copy \in [DOMAIN contents[other] -> Elems \ Made] :
        IsInjective(copy) /\ Copies(l, other, copy)

Next ==
    \E l \in Lists :
        \/ Clear(l)
        \/ \E other \in Lists : PushList(l, other)
        \/ \E e \in Elems \ Made, v \in Values :
            Push(l, e, v) \/ \E m \in Made : Insert(l, e, v, m)
        \/ \E e \in Made : \/ TakeOut(l, e)
                           \/ Move(l, e)
                           \/ InsertNothing(l, e)
                           \/ \E m \in Made : MoveNextTo(l, e, m)

Spec == Init /\ [][Next]_vars
=============================================================================
