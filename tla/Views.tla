------------------------------- MODULE Views -------------------------------
(***************************************************************************)
(* JsonView, SQLView and the pairs of a view and an error around them      *)
(* (jsonview.go, sqlview.go, viewerr.go).  A view holds a value of the     *)
(* model and a slice Filled of pointers to the descriptions of the fields  *)
(* that a caller, a JSON text or a row gave.  A slice is a length and a    *)
(* backing array; arrays are shared unless the code copies them.           *)
(***************************************************************************)
EXTENDS Integers, FiniteSets, Sequences, FiniteSetsExt

CONSTANTS
    Fields,       \* descriptions of the model's fields
    Values, Zero, \* what a field may hold; Zero is the zero value
    JsonFields,   \* fields with a JSON name (json:"-" has none; one tagged
                  \* json:"-,", which is read but never sent, is left out)
    OmitEmpty,    \* fields with ,omitempty, or of an interface type, of which
                  \* nil is not sent either
    Stored,       \* fields with a column (not Skip)
    Unknown,      \* a key that is no field, or a column of another table
    Bad,          \* a JSON or SQL value of a type that is not the field's
    JsonViews, SQLViews,
    Arrays, NoArray, NoField,
    MaxFilled,    \* bounds the arrays
    Texts, Rows   \* what clients and queries send

Views == JsonViews \cup SQLViews
Memory == Arrays \cup {NoArray}

Pairs == [key : Fields \cup {Unknown}, val : Values \cup {Bad}]

ASSUME ViewsAssumption ==
    /\ IsFiniteSet(Fields)
    /\ Zero \in Values /\ Bad \notin Values
    /\ JsonFields \subseteq Fields /\ OmitEmpty \subseteq Fields /\ Stored \subseteq Fields
    /\ Unknown \notin Fields /\ NoField \notin Fields
    /\ NoArray \notin Arrays
    /\ JsonViews \cap SQLViews = {}
    /\ MaxFilled \in Nat
    /\ Texts \subseteq Seq(Pairs) /\ Rows \subseteq Seq(Pairs)

VARIABLES
    view,   \* view[v].md: MD is not nil; v: the value V; arr, len: Filled;
            \* status: "ok", "failed" beside an error, "none" for no view, an error
    mem     \* mem[a]: the slots of array a, <<>> while no slice has it

vars == <<view, mem>>

Zeros == [f \in Fields |-> Zero]

Filled(v) == [i \in 1..view[v].len |-> mem[view[v].arr][i]]
Given(v) == {Filled(v)[i] : i \in 1..view[v].len}

Init ==
    /\ view = [v \in Views |-> [status |-> "ok", md |-> TRUE, v |-> Zeros,
                                arr |-> NoArray, len |-> 0]]
    /\ mem = [a \in Memory |-> <<>>]

\* Arrays that no slice has are gone.
Written(m) == mem' = [a \in Memory |-> IF \E w \in Views : view'[w].arr = a THEN m[a] ELSE <<>>]

\* View v with other fields in it: a slice of n elements of array a.
Becomes(v, status, md, x, a, n) ==
    view' = [view EXCEPT ![v] = [status |-> status, md |-> md, v |-> x, arr |-> a, len |-> n]]

Padded(s, c) == [i \in 1..c |-> IF i <= Len(s) THEN s[i] ELSE NoField]

\* The slots of an array made for c elements once n are appended: append makes
\* a new one, as large as it likes, when there are too few.
Slots(c, n) == IF n <= c THEN {c} ELSE n..MaxFilled

\* Arrays an allocation may give.
Unused == {a \in Arrays : \A w \in Views : view[w].arr # a}

\* The elements s in a new array made for c.
InNewArray(v, status, x, s, c) ==
    \E a \in Unused, n \in Slots(c, Len(s)) :
        /\ Becomes(v, status, TRUE, x, a, Len(s))
        /\ Written([mem EXCEPT ![a] = Padded(s, n)])

Nil(v, status, md) ==
    /\ Becomes(v, status, md, Zeros, NoArray, 0)
    /\ Written(mem)
-----------------------------------------------------------------------------
(* Calls of the program on a view.  It changes none that came with an      *)
(* error.                                                                  *)

\* NewJsonView, NewSQLView.
New(v) == Nil(v, "ok", TRUE)

\* The program sets a field of V.
Assign(v, f, x) ==
    /\ view[v].status = "ok"
    /\ Becomes(v, "ok", view[v].md, [view[v].v EXCEPT ![f] = x], view[v].arr, view[v].len)
    /\ Written(mem)

\* One name of SetFilled: the call goes through its names one by one and ends
\* at the first that is no field.  On a view without MD it panics.
SetFilled(v, f) ==
    /\ view[v].status = "ok" /\ view[v].md
    /\ f \notin Given(v)
    /\ LET n == view[v].len
           a == view[v].arr
       IN  IF n < Len(mem[a])
           THEN /\ Becomes(v, "ok", TRUE, view[v].v, a, n + 1)
                /\ Written([mem EXCEPT ![a] = [@ EXCEPT ![n + 1] = f]])
           ELSE InNewArray(v, "ok", view[v].v, Append(Filled(v), f), n)

\* The numbers in P in ascending order (a set of one function).
Ascending(P) == {p \in [1..Cardinality(P) -> P] :
                    \A i, j \in 1..Cardinality(P) : i < j => p[i] < p[j]}

\* SetUnfilled moves the elements that stay to the front of the array and
\* clears the others.  F is the fields named, of those in the view.
SetUnfilled(v, F) ==
    /\ view[v].status = "ok"
    /\ LET a == view[v].arr
           stay == {i \in 1..view[v].len : mem[a][i] \notin F}
           n == Cardinality(stay)
       IN  \E p \in Ascending(stay) :
           /\ Becomes(v, "ok", view[v].md, view[v].v, a, n)
           /\ Written([mem EXCEPT ![a] =
                  [i \in 1..Len(mem[a]) |-> IF i <= n THEN mem[a][p[i]]
                                            ELSE IF i <= view[v].len THEN NoField
                                            ELSE mem[a][i]]])

\* SetFullFilled appends nothing for any field: the view is left without any.
SetFullFilled(v) ==
    /\ view[v].status = "ok" /\ view[v].md
    /\ InNewArray(v, "ok", view[v].v, <<>>, Cardinality(Fields))

\* SQLView of a JsonView and JsonView of an SQLView: the slice is copied.
\* The pairs with an error pass the error on; without a view they panic.
\* Mutant: the copy has the slice of the original.
CopyShares(v, w) ==
    /\ view[w].status # "none"
    /\ Becomes(v, view[w].status, view[w].md, view[w].v, view[w].arr, view[w].len)
    /\ Written(mem)

CopyView(v, w) ==
    /\ view[w].status # "none"
    /\ IF view[w].len = 0
       THEN /\ Becomes(v, view[w].status, view[w].md, view[w].v, NoArray, 0)
            /\ Written(mem)
       ELSE \E a \in Unused :
            /\ Becomes(v, view[w].status, view[w].md, view[w].v, a, view[w].len)
            /\ Written([mem EXCEPT ![a] = Filled(w)])

SQLView(s, j) == s \in SQLViews /\ j \in JsonViews /\ CopyView(s, j)
JsonView(j, s) == j \in JsonViews /\ s \in SQLViews /\ CopyView(j, s)
-----------------------------------------------------------------------------
(* Texts and rows: sequences of keys with values.  What a view sends is a  *)
(* set of one text.                                                        *)

PairsOf(v, F) ==
    {[i \in DOMAIN p |-> [key |-> Filled(v)[p[i]], val |-> view[v].v[Filled(v)[p[i]]]]] :
        p \in Ascending({i \in 1..view[v].len : Filled(v)[i] \in F})}

\* MarshalJSON; a pair with an error becomes {"_err": ...}.  When a value
\* cannot be encoded nothing is sent, which is no step, and so for Value.
MarshalJSON(v) ==
    IF view[v].status = "ok"
    THEN PairsOf(v, JsonFields \ {f \in OmitEmpty : view[v].v[f] = Zero})
    ELSE {<<[key |-> Unknown, val |-> Bad]>>}

\* Value of a JsonView, the value of a jsonb column, and Columns with Values
\* of an SQLView, a row.
DBValue(v) == PairsOf(v, Stored)

\* What ReadObjectCB reads of text t when the callback consumes the values of
\* the keys in F: the callback returns true for another key and leaves its
\* value, where the next key is expected, and reading ends without an error
\* that anyone looks at.  After a value of another type it may end as well.
Reads(t, F) ==
    {[i \in 1..n |-> t[i]] : n \in {n \in 0..Len(t) :
        /\ \A i \in 1..n : t[i].key \in F
        /\ \/ n = Len(t)
           \/ t[n + 1].key \notin F
           \/ n > 0 /\ t[n].val = Bad}}

\* Field f after the first n pairs of t: the last one of its key, which leaves
\* it zero when it does not fit.
Value(t, n, f) ==
    LET at == {i \in 1..n : t[i].key = f}
    IN  IF at = {} \/ t[Max(at)].val = Bad THEN Zero ELSE t[Max(at)].val

Keys(t) == [i \in DOMAIN t |-> t[i].key]

\* Mutant: V is not made zero before it is read.
ReadOverOld(v, t, F) ==
    \E r \in Reads(t, F) :
        InNewArray(v, "ok",
                   [f \in Fields |-> IF \E i \in DOMAIN r : r[i].key = f
                                     THEN Value(r, Len(r), f) ELSE view[v].v[f]],
                   Keys(r), Cardinality(Fields))

ReadObject(v, t, F) ==
    \E r \in Reads(t, F) :
        InNewArray(v, "ok", [f \in Fields |-> Value(r, Len(r), f)], Keys(r), Cardinality(Fields))

\* Mutant: JSON is read by the store tags.
UnmarshalStored(v, t) == v \in JsonViews /\ ReadObject(v, t, Stored)

UnmarshalJSON(v, t) == v \in JsonViews /\ ReadObject(v, t, JsonFields)

\* JsonView.Scan of a json or jsonb value.
ScanObject(v, t) == v \in JsonViews /\ ReadObject(v, t, Stored)

\* The text is null: the description is given up.
ReadNull(v) == v \in JsonViews /\ Nil(v, "ok", FALSE)

\* The text is no object, or the column is NULL: the view is left empty, and
\* a pair of a view and an error without a view.
ReadNothing(v) ==
    /\ v \in JsonViews
    /\ \/ Nil(v, "ok", TRUE)
       \/ Nil(v, "none", FALSE)

\* SQLView.Scan of row r.  The columns are set one after the other up to one
\* that does not fit, when the call fails.
Scan(v, r) ==
    /\ v \in SQLViews
    /\ LET mine == {i \in 1..Len(r) : r[i].key \in Stored}
           bad == {i \in mine : r[i].val = Bad}
           set == IF bad = {} THEN Len(r) ELSE Min(bad) - 1
       IN  \E p \in Ascending(mine) :
           InNewArray(v, IF bad = {} THEN "ok" ELSE "failed",
                      [f \in Fields |-> IF f \in Stored THEN Value(r, set, f) ELSE Zero],
                      [i \in DOMAIN p |-> r[p[i]].key], Len(r))

\* The names of the columns cannot be read.
ScanFails(v) == v \in SQLViews /\ Nil(v, "failed", TRUE)
-----------------------------------------------------------------------------
SentTexts == UNION {MarshalJSON(v) : v \in JsonViews}
SentObjects == UNION {DBValue(v) : v \in JsonViews}
SentRows == UNION {DBValue(v) : v \in SQLViews}

Next ==
    \E v \in Views :
        \/ New(v) \/ SetFullFilled(v) \/ ReadNull(v) \/ ReadNothing(v) \/ ScanFails(v)
        \/ \E f \in Fields, x \in Values : Assign(v, f, x)
        \/ \E f \in Fields : SetFilled(v, f)
        \/ \E F \in SUBSET Given(v) : SetUnfilled(v, F)
        \/ \E w \in Views : SQLView(v, w) \/ JsonView(v, w)
        \/ \E t \in SentTexts \cup Texts : UnmarshalJSON(v, t)
        \/ \E t \in SentObjects \cup Rows : ScanObject(v, t)
        \/ \E r \in SentRows \cup Rows : Scan(v, r)

Spec == Init /\ [][Next]_vars

-----------------------------------------------------------------------------
(* Properties.                                                             *)

\* Every variable holds values of its kind.
TypeOK ==
    /\ view \in [Views -> [status : {"ok", "failed", "none"}, md : BOOLEAN,
                           v : [Fields -> Values], arr : Memory, len : Nat]]
    /\ mem \in [Memory -> Seq(Fields \cup {NoField})]

\* The slices are in their arrays and hold no nil pointer.
Whole == \A v \in Views :
            /\ view[v].len \in 0..Len(mem[view[v].arr])
            /\ \A i \in 1..view[v].len : mem[view[v].arr][i] \in Fields

\* Two views share no array.
Private == \A v, w \in Views :
              view[v].arr = view[w].arr => v = w \/ view[v].arr = NoArray

\* A view with fields has their descriptions: SetFilled and SetFullFilled panic
\* on a view without them.
Described == \A v \in Views : ~view[v].md => view[v].len = 0

(***************************************************************************)
(* SetFilled and SetUnfilled write into the array of their view, so a view *)
(* made from another by SQLView or JsonView must have an array of its own; *)
(* and no view may be left with a nil pointer in Filled, on which          *)
(* MarshalJSON, Value, Columns and IsFilled would panic (jsonview.go       *)
(* 84-105, 319-329, sqlview.go 181-191).                                   *)
(***************************************************************************)
Inv == Whole /\ Private /\ Described

Sets == INSTANCE ViewSets WITH
            content <- [v \in Views |->
                          [is |-> view[v].status # "none", val |-> view[v].v,
                           given |-> {mem[view[v].arr][i] : i \in 1..view[v].len}]]

(***************************************************************************)
(* The slices implement sets of fields: a call gives or takes the fields   *)
(* that it says, in the view that it is made on and in no other one, and a *)
(* view that was read is zero but in the fields that were given.           *)
(***************************************************************************)
ImplementsViewSets == Sets!Spec

\* What w had of the fields F is in v now.  A field that does not arrive is
\* zero, and of those whose zero is omitted.
Arrives(v, w, F, omit) ==
    LET given == {mem'[view'[v].arr][i] : i \in 1..view'[v].len}
    IN  /\ view'[v].status = "ok"
        /\ given \subseteq Given(w)
        /\ \A f \in Given(w) \cap F :
              /\ view'[v].v[f] = view[w].v[f]
              /\ f \in given \/ (f \in omit /\ view[w].v[f] = Zero)

(***************************************************************************)
(* What a view sends arrives: MarshalJSON read by UnmarshalJSON, Value     *)
(* read by Scan, Columns and Values read as a row.  The first pair goes by *)
(* the JSON tags of the fields, the others by the store tags; a reader     *)
(* that goes by the wrong ones loses fields or stops at the first of them. *)
(***************************************************************************)
WhatIsSentArrives ==
    [][\A v, w \in Views : view'[v].arr \in Unused =>
          /\ w \in JsonViews /\ view[w].status = "ok" => \A t \in MarshalJSON(w) :
                UnmarshalJSON(v, t) => Arrives(v, w, JsonFields, OmitEmpty)
          /\ w \in JsonViews => \A t \in DBValue(w) :
                ScanObject(v, t) => Arrives(v, w, Stored, {})
          /\ w \in SQLViews => \A t \in DBValue(w) :
                Scan(v, t) => Arrives(v, w, Stored, {})]_vars
=============================================================================
