------------------------------ MODULE Objects ------------------------------
(***************************************************************************)
(* ModelObject, a row of a model without a struct (modelobject.go), and    *)
(* UniqueObjects, a set of such rows by id (modelobjects.go).  The sets of *)
(* all goroutines take their slices from one sync.Pool and give them back; *)
(* a slice is a length and a backing array.                                *)
(*                                                                         *)
(* An object that is put keeps its slice of values.  The model is of       *)
(* programs that make a new object for the next row, and that only read    *)
(* the rows that Object, Objects and CopyObjects give them, before Close.  *)
(***************************************************************************)
EXTENDS Integers, FiniteSetsExt, Sequences, Functions

CONSTANTS
    Fields, ID,            \* the fields of the model and the one with the id
    JsonFields, OmitEmpty, \* fields with a JSON name; those with ,omitempty
    Stored,                \* fields with a column
    FieldValues, Zero, Null, \* values of a field's type, its zero value, and nil
    Bad,                   \* a value of a type that is not the field's
    ByName,                \* fields that the program sets by their name
    Sets,                  \* UniqueObjects
    Arrays, NoArray, NoObject,
    InitCap,               \* slots of a new slice (16 in the code)
    MaxCap, MaxRows,       \* bound a slice, and the rows of two sets together
    Layouts, Other,        \* columns of queries: fields, and other columns
    Texts                  \* JSON objects of clients: functions from keys

Memory == Arrays \cup {NoArray}

Row == [Fields -> FieldValues \cup {Null, Bad}]

\* Whatever is not nil can be an id.
Ids == FieldValues \cup {Bad}

ASSUME ObjectsAssumption ==
    /\ ID \in Fields
    /\ JsonFields \subseteq Fields /\ OmitEmpty \subseteq Fields /\ Stored \subseteq Fields
    /\ Zero \in FieldValues /\ Null \notin FieldValues
    /\ Bad \notin FieldValues /\ Bad # Null
    /\ NoArray \notin Arrays /\ NoObject \notin Row
    /\ Other \notin Fields /\ ByName \subseteq Fields
    /\ InitCap \in Nat /\ MaxCap \in Nat /\ InitCap <= MaxCap /\ MaxRows \in Nat
    /\ Layouts \subseteq Seq(Fields \cup {Other})
    /\ \A t \in Texts : \A k \in DOMAIN t : t[k] \in FieldValues \cup {Null, Bad}

VARIABLES
    hand,   \* the object that the program fills: is, its values row, and fds,
            \* <<>> when lastColScanner is not the query
    query,  \* the columns of the result that is read
    set,    \* set[u]: arr and len are objs, uniq the index, 0 for no position
    mem,    \* mem[a]: the slots of array a, <<>> while nobody has it
    pool    \* the arrays in uoPool

objectVars == <<hand, query, set, mem, pool>>

Nothing == [is |-> FALSE, row |-> [f \in Fields |-> Null], fds |-> <<>>]

NoIndex == [id \in Ids |-> 0]

Closed == [open |-> FALSE, arr |-> NoArray, len |-> 0, uniq |-> NoIndex]

ObjectsInit ==
    /\ hand = Nothing
    /\ query \in Layouts
    /\ set = [u \in Sets |-> Closed]
    /\ mem = [a \in Memory |-> <<>>]
    /\ pool = {}

\* The object in hand with other values.
Holds(row) ==
    /\ hand.is
    /\ hand' = [hand EXCEPT !.row = row]
    /\ UNCHANGED <<query, set, mem, pool>>
-----------------------------------------------------------------------------
(* ModelObject.                                                            *)

Takes(row) ==
    /\ hand' = [is |-> TRUE, row |-> row, fds |-> <<>>]
    /\ UNCHANGED <<query, set, mem, pool>>

NewModelObject == Takes([f \in Fields |-> Zero])

\* The values of a struct.
ModelObjectFrom(row) == row \in [Fields -> FieldValues] /\ Takes(row)

\* SetValue and SetFieldID refuse, with no effect, what cannot be converted to
\* the type of the field.
SetValue(f, x) == x # Bad /\ Holds([hand.row EXCEPT ![f] = x])

\* SetValueByName does not look at the type.
SetValueByName(f, x) == Holds([hand.row EXCEPT ![f] = x])

\* Clear, and what UnmarshalJSON and Scan make of null.
Clear == Holds([f \in Fields |-> Null])

\* The JSON object that MarshalJSON writes: none where it panics, on nil in a
\* field to omit (reflect.Value.IsZero has no type to look at).
MarshalJSON(row) ==
    IF \E f \in JsonFields \cap OmitEmpty : row[f] = Null
    THEN {}
    ELSE {Restrict(row, JsonFields \ {f \in OmitEmpty : row[f] = Zero})}

\* The one that Value writes, of the columns of DBData.
DBData(row) == Restrict(row, Stored)

\* The keys of text t that are read when those in F are known: all, or up to
\* an unknown one or a value of another type, behind which reading may end.
Taken(t, F) ==
    IF DOMAIN t \subseteq F /\ \A k \in DOMAIN t : t[k] # Bad
    THEN {DOMAIN t}
    ELSE SUBSET (DOMAIN t \cap F)

\* The row with the keys K of text t read into it: null and a value of another
\* type leave a new variable as it is.
Merged(row, t, K) ==
    [f \in Fields |-> IF f \notin K THEN row[f]
                      ELSE IF t[f] \in FieldValues THEN t[f] ELSE Zero]

\* Mutant: JSON is read by the store tags.
ReadByColumn(row, t) == {Merged(row, t, K) : K \in Taken(t, Stored)}

ReadJSON(row, t) == {Merged(row, t, K) : K \in Taken(t, JsonFields)}

UnmarshalJSON(t) == \E row \in ReadJSON(hand.row, t) : Holds(row)

ReadObject(row, t) == {Merged(row, t, K) : K \in Taken(t, Stored)}

\* Scan of a json value.
Scan(t) == \E row \in ReadObject(hand.row, t) : Holds(row)

\* Mutant: the columns are looked up once for an object.
FdsKept == hand.fds

\* lastColScanner is not the scanner of a new result: its columns will be
\* looked up.
FdsOfNewResult == <<>>

\* A query gives its rows.
Query(cols) ==
    /\ query' = cols
    /\ hand' = [hand EXCEPT !.fds = FdsOfNewResult]
    /\ UNCHANGED <<set, mem, pool>>

Columns == IF hand.fds # <<>> THEN hand.fds ELSE query

\* The values r of columns cols in the fields of old: the last column of a
\* field counts.
Filled(old, cols, r) ==
    [f \in Fields |-> IF f \in Range(cols) THEN r[Max({i \in DOMAIN cols : cols[i] = f})]
                      ELSE old[f]]

RowScan(r) ==
    /\ hand.is
    /\ Len(r) = Len(Columns)
    /\ UNCHANGED <<query, set, mem, pool>>
    /\ hand' = [is |-> TRUE, row |-> Filled(hand.row, Columns, r), fds |-> Columns]

\* Scan of the row fails, on NULL for example: the columns are known by then.
RowScanFails ==
    /\ hand.is
    /\ hand' = [hand EXCEPT !.fds = Columns]
    /\ UNCHANGED <<query, set, mem, pool>>
-----------------------------------------------------------------------------
(* UniqueObjects.                                                          *)

Objects(u) == [i \in 1..set[u].len |-> mem[set[u].arr][i]]

Becomes(u, open, a, n, uniq) ==
    set' = [set EXCEPT ![u] = [open |-> open, arr |-> a, len |-> n, uniq |-> uniq]]

Empty(n) == [i \in 1..n |-> NoObject]

\* The memory m without the arrays that nobody has any more.  What is left of
\* the rows in an array of the pool is never read.
Written(m) ==
    mem' = [a \in Memory |-> IF a \in pool' THEN Empty(Len(m[a]))
                             ELSE IF \E u \in Sets : set'[u].arr = a THEN m[a] ELSE <<>>]

Unused == {a \in Arrays \ pool : \A u \in Sets : set[u].arr # a}

\* NewUniqueObjects: getMOSlice takes a slice of the pool, or makes one when
\* sync.Pool has none for this goroutine.
NewUniqueObjects(u) ==
    /\ ~set[u].open
    /\ \/ \E a \in pool :
            /\ Len(mem[a]) >= InitCap
            /\ Becomes(u, TRUE, a, 0, NoIndex)
            /\ pool' = pool \ {a}
            /\ Written(mem)
       \/ \E a \in Unused :
            /\ Becomes(u, TRUE, a, 0, NoIndex)
            /\ pool' = pool
            /\ Written([mem EXCEPT ![a] = Empty(InitCap)])
    /\ UNCHANGED <<hand, query>>

\* append of the object in hand: in place, or in a new and larger array.
AppendObject(u) ==
    LET n == set[u].len
        a == set[u].arr
        uniq == [set[u].uniq EXCEPT ![hand.row[ID]] = n + 1]
    IN
    /\ \A w \in Sets \ {u} : n + set[w].len < MaxRows
    /\ IF n < Len(mem[a])
        THEN /\ Becomes(u, TRUE, a, n + 1, uniq)
             /\ Written([mem EXCEPT ![a] = [mem[a] EXCEPT ![n + 1] = hand.row]])
        ELSE \E b \in Unused, c \in n + 1..MaxCap :
             /\ Becomes(u, TRUE, b, n + 1, uniq)
             /\ Written([mem EXCEPT ![b] = [i \in 1..c |->
                    IF i <= n THEN mem[a][i] ELSE IF i = n + 1 THEN hand.row ELSE NoObject]])

\* Mutant: the object goes to the end although its id is known.
PutObjectAgain(u) ==
    /\ set[u].open /\ hand.is /\ hand.row[ID] # Null
    /\ hand' = Nothing
    /\ UNCHANGED <<query, pool>>
    /\ AppendObject(u)

\* Without an id the call fails.
PutObject(u) ==
    /\ set[u].open /\ hand.is /\ hand.row[ID] # Null
    /\ hand' = Nothing
    /\ UNCHANGED <<query, pool>>
    /\ LET i == set[u].uniq[hand.row[ID]]
           a == set[u].arr
       IN  IF i # 0
           THEN /\ UNCHANGED set
                /\ Written([mem EXCEPT ![a] = [mem[a] EXCEPT ![i] = hand.row]])
           ELSE AppendObject(u)

\* Mutant: the index is not emptied.
ResetKeepsIndex(u) ==
    /\ set[u].open
    /\ UNCHANGED <<hand, query, pool>>
    /\ Becomes(u, TRUE, set[u].arr, 0, set[u].uniq)
    /\ Written(mem)

Reset(u) ==
    /\ set[u].open
    /\ UNCHANGED <<hand, query, pool>>
    /\ Becomes(u, TRUE, set[u].arr, 0, NoIndex)
    /\ Written([mem EXCEPT ![set[u].arr] =
           [i \in 1..Len(mem[set[u].arr]) |-> IF i <= set[u].len THEN NoObject
                                              ELSE mem[set[u].arr][i]]])

\* Close; a second one does nothing.
Close(u) ==
    /\ set[u].open
    /\ pool' = pool \cup {set[u].arr}
    /\ Becomes(u, FALSE, NoArray, 0, NoIndex)
    /\ Written(mem)
    /\ UNCHANGED <<hand, query>>

\* sync.Pool forgets what it has when it likes.
PoolDrops(a) ==
    /\ a \in pool
    /\ pool' = pool \ {a}
    /\ mem' = [mem EXCEPT ![a] = <<>>]
    /\ UNCHANGED <<hand, query, set>>
-----------------------------------------------------------------------------
RowsOf(cols) == [DOMAIN cols -> FieldValues]

ObjectsNext ==
    \/ NewModelObject \/ Clear \/ RowScanFails
    \/ \E row \in [Fields -> FieldValues] : ModelObjectFrom(row)
    \/ \E f \in Fields, x \in FieldValues \cup {Null, Bad} :
          SetValue(f, x) \/ (f \in ByName /\ SetValueByName(f, x))
    \/ \E t \in Texts : UnmarshalJSON(t) \/ Scan(t)
    \/ \E cols \in Layouts : Query(cols)
    \/ \E r \in RowsOf(query) : RowScan(r)
    \/ \E u \in Sets : NewUniqueObjects(u) \/ PutObject(u) \/ Reset(u) \/ Close(u)
    \/ \E a \in pool : PoolDrops(a)

ObjectsSpec == ObjectsInit /\ [][ObjectsNext]_objectVars

-----------------------------------------------------------------------------
(* Properties.                                                             *)

\* Every variable holds values of its kind.
ObjectsTypeOK ==
    /\ hand \in [is : BOOLEAN, row : Row, fds : Layouts \cup {<<>>}]
    /\ query \in Layouts
    /\ set \in [Sets -> [open : BOOLEAN, arr : Memory, len : 0..MaxCap,
                         uniq : [Ids -> 0..MaxCap]]]
    /\ mem \in [Memory -> Seq(Row \cup {NoObject})]
    /\ pool \subseteq Arrays

\* A set that is open has an array, which is in no other set and not in the pool.
Owned == \A u \in Sets :
            /\ set[u].arr \notin pool
            /\ set[u].open <=> set[u].arr # NoArray
            /\ \A w \in Sets : set[u].arr = set[w].arr => u = w \/ ~set[u].open

\* The slices are in their arrays and hold rows.
Whole == \A u \in Sets :
            /\ set[u].len \in 0..Len(mem[set[u].arr])
            /\ \A i \in 1..set[u].len : mem[set[u].arr][i] \in Row

\* The index has the ids of the rows and no other.
Indexed == \A u \in Sets :
            /\ \A id \in Ids :
                  LET i == set[u].uniq[id]
                  IN  i # 0 => i \in 1..set[u].len /\ mem[set[u].arr][i][ID] = id
            /\ \A i \in 1..set[u].len :
                  LET id == mem[set[u].arr][i][ID]
                  IN  id \in Ids /\ set[u].uniq[id] = i

(***************************************************************************)
(* Object(id) reads objs[uniq[id]]: the index must never lead outside of   *)
(* the slice or to the row of another id, after any sequence of PutObject, *)
(* Reset, Close and NewUniqueObjects; and a slice that is in the pool must *)
(* not be in a set, nor in two sets at once (modelobjects.go 10-26,        *)
(* 33-86), or the rows of one goroutine get into the set of another.       *)
(***************************************************************************)
ObjectsInv == Owned /\ Whole /\ Indexed

Abstract == INSTANCE ObjectSets WITH
                Rows <- Row,
                contents <- [u \in Sets |->
                               [open |-> set[u].open,
                                rows |-> [i \in 1..set[u].len |-> mem[set[u].arr][i]]]]

(***************************************************************************)
(* Slices, index and pool implement sets with one row for an id, in the    *)
(* order of their first PutObject; a call changes the set that it is made  *)
(* on and no other.                                                        *)
(***************************************************************************)
ImplementsObjectSets == Abstract!Spec

(***************************************************************************)
(* RowScan looks the columns up once for a result and keeps them in the    *)
(* object (modelobject.go 316-366).  Whatever results and other calls came *)
(* between, the values of a row get into the fields of their columns, the  *)
(* last one of a name counts, and all other fields keep what they had.     *)
(***************************************************************************)
RowInPlace ==
    [][hand'.fds # <<>> => \A r \in RowsOf(query) :
          RowScan(r) => hand'.row = Filled(hand.row, query, r)]_objectVars

(***************************************************************************)
(* A new object that reads what MarshalJSON or Value of another one wrote  *)
(* has its fields, of those that JSON or the database have: nil arrives as *)
(* the zero value.  A value of another type (SetValueByName) never arrives *)
(* and may keep fields behind it from arriving, but none gets a value that *)
(* was not its own.  Of an object whose MarshalJSON panics nothing is said *)
(* but what Value sends.                                                   *)
(***************************************************************************)
Arrives(row, F, got) ==
    IF \A f \in F : row[f] # Bad
    THEN \A f \in F : got[f] = IF row[f] = Null THEN Zero ELSE row[f]
    ELSE \A f \in F : got[f] = Zero \/ (got[f] = row[f] /\ row[f] \in FieldValues)

WhatIsSentArrives ==
    LET new == [f \in Fields |-> Zero]
    IN  hand.is =>
          /\ \A text \in MarshalJSON(hand.row) : \A got \in ReadJSON(new, text) :
                Arrives(hand.row, JsonFields, got)
          /\ \A got \in ReadObject(new, DBData(hand.row)) : Arrives(hand.row, Stored, got)
=============================================================================
