---------------------------- MODULE ViewsProofs ----------------------------
(***************************************************************************)
(* Views of a model never share an array, and what one sends arrives,      *)
(* whatever the fields, the texts and the number of views.                 *)
(***************************************************************************)
EXTENDS Views, FiniteSetTheorems, SequenceTheorems, WellFoundedInduction, TLAPS

\* The shape of the two variables, as far as Inv needs it.
Shape ==
    /\ view = [v \in Views |-> view[v]]
    /\ \A v \in Views : view[v].arr \in Memory
    /\ mem \in [Memory -> Seq(Fields \cup {NoField})]
    /\ mem[NoArray] = <<>>

IInv == Shape /\ Inv

-----------------------------------------------------------------------------
(* Every call gives one view v a record r and writes one array at most,    *)
(* one that no other view has.                                             *)
LEMMA OneView ==
    ASSUME IInv, NEW v \in Views, NEW r, NEW m,
           view' = [view EXCEPT ![v] = r], Written(m),
           r.arr \in Memory,
           r.arr = NoArray \/ \A w \in Views \ {v} : view[w].arr # r.arr,
           m \in [Memory -> Seq(Fields \cup {NoField})],
           m[NoArray] = <<>>,
           \A b \in Memory \ {r.arr} : m[b] = mem[b],
           r.len \in 0..Len(m[r.arr]),
           \A i \in 1..r.len : m[r.arr][i] \in Fields,
           ~r.md => r.len = 0
    PROVE  IInv'
<1> USE DEF IInv, Inv, Shape
<1>1. /\ view'[v] = r
      /\ \A w \in Views \ {v} : view'[w] = view[w]
      /\ view' = [w \in Views |-> view'[w]]
  OBVIOUS
<1>2. \A w \in Views : view'[w].arr \in Memory
  BY <1>1
<1>3. /\ mem' \in [Memory -> Seq(Fields \cup {NoField})]
      /\ mem'[NoArray] = <<>>
      /\ \A w \in Views : mem'[view'[w].arr] = m[view'[w].arr]
  <2>1. <<>> \in Seq(Fields \cup {NoField})
    OBVIOUS
  <2> QED
    BY <1>2, <2>1 DEF Written, Memory
<1>4. Private'
  BY <1>1 DEF Private
<1>5. Whole'
  <2> SUFFICES ASSUME NEW w \in Views
               PROVE  /\ view'[w].len \in 0..Len(mem'[view'[w].arr])
                      /\ \A i \in 1..view'[w].len : mem'[view'[w].arr][i] \in Fields
    BY DEF Whole
  <2>1. CASE w = v
    BY <1>1, <1>3, <2>1
  <2>2. CASE w # v
    <3>1. m[view[w].arr] = mem[view[w].arr]
      BY <2>2
    <3> QED
      BY <1>1, <1>3, <2>2, <3>1 DEF Whole
  <2> QED
    BY <2>1, <2>2
<1>6. Described'
  BY <1>1 DEF Described
<1> QED
  BY <1>1, <1>2, <1>3, <1>4, <1>5, <1>6

-----------------------------------------------------------------------------
(* A call that leaves the view without a slice.                            *)
LEMMA NilStep ==
    ASSUME IInv, NEW v \in Views, NEW r,
           view' = [view EXCEPT ![v] = r], Written(mem),
           r.arr = NoArray, r.len = 0
    PROVE  IInv'
<1>1. mem \in [Memory -> Seq(Fields \cup {NoField})] /\ mem[NoArray] = <<>>
  BY DEF IInv, Shape
<1>2. /\ r.arr \in Memory
      /\ r.len \in 0..Len(mem[r.arr])
      /\ \A i \in 1..r.len : mem[r.arr][i] \in Fields
  BY <1>1 DEF Memory
<1>3. /\ \A b \in Memory \ {r.arr} : mem[b] = mem[b]
      /\ ~r.md => r.len = 0
  OBVIOUS
<1> DEFINE m == mem
<1>4. m \in [Memory -> Seq(Fields \cup {NoField})] /\ m[NoArray] = <<>> /\ Written(m)
  BY <1>1
<1>5. /\ r.len \in 0..Len(m[r.arr])
      /\ \A i \in 1..r.len : m[r.arr][i] \in Fields
      /\ \A b \in Memory \ {r.arr} : m[b] = mem[b]
  BY <1>2
<1> HIDE DEF m
<1> QED
  BY <1>2, <1>3, <1>4, <1>5, OneView

\* A call that puts the slice of a view into a new array.
LEMMA NewArrayStep ==
    ASSUME IInv, NEW v \in Views, NEW r, NEW a \in Unused, NEW s, NEW n \in Nat,
           view' = [view EXCEPT ![v] = r], Written([mem EXCEPT ![a] = s]),
           s \in Seq(Fields \cup {NoField}), Len(s) = n,
           r.arr = a, r.len \in 0..n,
           \A i \in 1..r.len : s[i] \in Fields,
           ~r.md => r.len = 0
    PROVE  IInv'
<1> DEFINE m == [mem EXCEPT ![a] = s]
<1>1. /\ mem \in [Memory -> Seq(Fields \cup {NoField})]
      /\ mem[NoArray] = <<>>
      /\ a \in Memory /\ a # NoArray
  BY ViewsAssumption DEF IInv, Shape, Unused, Memory
<1>2. /\ m \in [Memory -> Seq(Fields \cup {NoField})]
      /\ m[NoArray] = <<>> /\ m[a] = s
      /\ \A b \in Memory \ {a} : m[b] = mem[b]
  BY <1>1, ViewsAssumption DEF Memory
<1>3. \A w \in Views \ {v} : view[w].arr # a
  BY DEF Unused
<1> HIDE DEF m
<1>4. Written(m)
  BY DEF m
<1> QED
  BY <1>1, <1>2, <1>3, <1>4, OneView

\* What reading, and SetFilled when the array is full, do.
LEMMA InNewArrayStep ==
    ASSUME IInv, NEW v \in Views, NEW status, NEW x, NEW s \in Seq(Fields), NEW c \in Nat,
           InNewArray(v, status, x, s, c)
    PROVE  IInv'
<1> DEFINE n == Len(s)
<1>1. n \in Nat /\ \A i \in 1..n : s[i] \in Fields
  OBVIOUS
<1>2. PICK a \in Unused, k \in Slots(c, Len(s)) :
        /\ Becomes(v, status, TRUE, x, a, Len(s))
        /\ Written([mem EXCEPT ![a] = Padded(s, k)])
  BY DEF InNewArray
<1> DEFINE r == [status |-> status, md |-> TRUE, v |-> x, arr |-> a, len |-> n]
<1>3. view' = [view EXCEPT ![v] = r]
  BY <1>1, <1>2 DEF Becomes
<1>4. r.arr = a /\ r.len = n /\ r.md
  OBVIOUS
<1>5. k \in Nat /\ n <= k
  BY <1>1, <1>2, ViewsAssumption DEF Slots
<1> DEFINE t == Padded(s, k)
<1>6. t \in Seq(Fields \cup {NoField}) /\ Len(t) = k
  BY <1>1, <1>5 DEF Padded
<1>7. \A i \in 1..n : t[i] \in Fields
  BY <1>1, <1>5 DEF Padded
<1>8. Written([mem EXCEPT ![a] = t])
  BY <1>2
<1> HIDE DEF r, t
<1>9. /\ r.len \in 0..k
      /\ \A i \in 1..r.len : t[i] \in Fields
      /\ ~r.md => r.len = 0
  BY <1>4, <1>5, <1>7
<1> QED
  BY <1>3, <1>4, <1>5, <1>6, <1>8, <1>9, NewArrayStep

-----------------------------------------------------------------------------
(* The calls.                                                              *)

LEMMA NilPreserves ==
    ASSUME IInv, NEW v \in Views, NEW status, NEW md, Nil(v, status, md)
    PROVE  IInv'
<1> DEFINE r == [status |-> status, md |-> md, v |-> Zeros, arr |-> NoArray, len |-> 0]
<1>1. view' = [view EXCEPT ![v] = r] /\ Written(mem)
  BY DEF Nil, Becomes
<1>2. r.arr = NoArray /\ r.len = 0
  OBVIOUS
<1> HIDE DEF r
<1> QED
  BY <1>1, <1>2, NilStep

LEMMA AssignPreserves ==
    ASSUME IInv, NEW v \in Views, NEW f, NEW x, Assign(v, f, x)
    PROVE  IInv'
<1> DEFINE r == [status |-> "ok", md |-> view[v].md, v |-> [view[v].v EXCEPT ![f] = x],
                 arr |-> view[v].arr, len |-> view[v].len]
           m == mem
<1>1. view' = [view EXCEPT ![v] = r] /\ Written(m)
  BY DEF Assign, Becomes
<1>2. r.arr = view[v].arr /\ r.len = view[v].len /\ r.md = view[v].md
  OBVIOUS
<1>3. /\ m \in [Memory -> Seq(Fields \cup {NoField})] /\ m[NoArray] = <<>>
      /\ \A b \in Memory \ {r.arr} : m[b] = mem[b]
  BY DEF IInv, Shape
<1> HIDE DEF r
<1>4. /\ r.arr \in Memory
      /\ r.arr = NoArray \/ \A w \in Views \ {v} : view[w].arr # r.arr
      /\ r.len \in 0..Len(m[r.arr])
      /\ \A i \in 1..r.len : m[r.arr][i] \in Fields
      /\ ~r.md => r.len = 0
  BY <1>2 DEF IInv, Shape, Inv, Whole, Private, Described
<1> HIDE DEF m
<1> QED
  BY <1>1, <1>3, <1>4, OneView

LEMMA FilledType ==
    ASSUME IInv, NEW v \in Views
    PROVE  Filled(v) \in Seq(Fields) /\ Len(Filled(v)) = view[v].len
<1> DEFINE n == view[v].len
           q == mem[view[v].arr]
<1>1. n \in Nat /\ \A i \in 1..n : q[i] \in Fields
  BY DEF IInv, Shape, Inv, Whole
<1>2. Filled(v) = [i \in 1..n |-> q[i]]
  BY DEF Filled
<1> HIDE DEF n, q
<1>3. [i \in 1..n |-> q[i]] \in Seq(Fields) /\ Len([i \in 1..n |-> q[i]]) = n
  BY <1>1
<1> QED
  BY <1>2, <1>3 DEF n

LEMMA SetFilledPreserves ==
    ASSUME IInv, NEW v \in Views, NEW f \in Fields, SetFilled(v, f)
    PROVE  IInv'
<1> DEFINE n == view[v].len
           a == view[v].arr
<1>1. /\ a \in Memory /\ n \in 0..Len(mem[a])
      /\ \A i \in 1..n : mem[a][i] \in Fields
      /\ mem \in [Memory -> Seq(Fields \cup {NoField})] /\ mem[NoArray] = <<>>
      /\ a = NoArray \/ \A w \in Views \ {v} : view[w].arr # a
  BY DEF IInv, Shape, Inv, Whole, Private
<1>2. CASE n < Len(mem[a])
  <2> DEFINE m == [mem EXCEPT ![a] = [@ EXCEPT ![n + 1] = f]]
             r == [status |-> "ok", md |-> TRUE, v |-> view[v].v, arr |-> a, len |-> n + 1]
  <2>1. view' = [view EXCEPT ![v] = r] /\ Written(m)
    BY <1>2 DEF SetFilled, Becomes
  <2>2. r.arr = a /\ r.len = n + 1 /\ r.md
    OBVIOUS
  <2>3. a # NoArray
    BY <1>1, <1>2
  <2> HIDE DEF n, a
  <2>4. [mem[a] EXCEPT ![n + 1] = f] \in Seq(Fields \cup {NoField})
    <3>1. mem[a] \in Seq(Fields \cup {NoField}) /\ n + 1 \in 1..Len(mem[a])
      BY <1>1, <1>2
    <3> QED
      BY <3>1, ExceptSeq
  <2>5. m \in [Memory -> Seq(Fields \cup {NoField})] /\ m[NoArray] = <<>>
    BY <1>1, <2>3, <2>4
  <2>6. \A b \in Memory \ {a} : m[b] = mem[b]
    BY <1>1
  <2>7. m[a] = [mem[a] EXCEPT ![n + 1] = f]
    BY <1>1
  <2> HIDE DEF m, r
  <2>8. n + 1 \in 0..Len(m[a]) /\ \A i \in 1..(n + 1) : m[a][i] \in Fields
    BY <1>1, <1>2, <2>7
  <2>9. ~r.md => r.len = 0
    BY <2>2
  <2> QED
    BY <1>1, <2>1, <2>2, <2>5, <2>6, <2>8, <2>9, OneView
<1>3. CASE ~(n < Len(mem[a]))
  <2> DEFINE s == Append(Filled(v), f)
  <2>1. InNewArray(v, "ok", view[v].v, s, n)
    BY <1>3 DEF SetFilled
  <2>2. s \in Seq(Fields) /\ n \in Nat
    BY <1>1, FilledType, AppendProperties
  <2> HIDE DEF s, n
  <2> QED
    BY <2>1, <2>2, InNewArrayStep
<1> QED
  BY <1>2, <1>3

LEMMA AscendingType ==
    ASSUME NEW k \in Nat, NEW P \in SUBSET (1..k), NEW p \in Ascending(P)
    PROVE  /\ Cardinality(P) \in 0..k
           /\ p \in [1..Cardinality(P) -> P]
<1>1. IsFiniteSet(1..k) /\ Cardinality(1..k) = k
  BY FS_Interval
<1>2. Cardinality(P) <= k /\ Cardinality(P) \in Nat
  BY <1>1, FS_Subset, FS_CardinalityType
<1> QED
  BY <1>2 DEF Ascending

LEMMA SetUnfilledPreserves ==
    ASSUME IInv, NEW v \in Views, NEW F, SetUnfilled(v, F)
    PROVE  IInv'
<1> DEFINE n == view[v].len
           a == view[v].arr
           q == mem[a]
           stay == {i \in 1..n : q[i] \notin F}
           k == Cardinality(stay)
<1>1. /\ a \in Memory /\ n \in 0..Len(q)
      /\ \A i \in 1..n : q[i] \in Fields
      /\ mem \in [Memory -> Seq(Fields \cup {NoField})] /\ mem[NoArray] = <<>>
      /\ q \in Seq(Fields \cup {NoField})
      /\ a = NoArray \/ \A w \in Views \ {v} : view[w].arr # a
      /\ ~view[v].md => n = 0
  BY DEF IInv, Shape, Inv, Whole, Private, Described
<1>2. PICK p \in Ascending(stay) :
        /\ Becomes(v, "ok", view[v].md, view[v].v, a, k)
        /\ Written([mem EXCEPT ![a] =
               [i \in 1..Len(q) |-> IF i <= k THEN q[p[i]]
                                    ELSE IF i <= n THEN NoField ELSE q[i]]])
  BY DEF SetUnfilled
<1> DEFINE t == [i \in 1..Len(q) |-> IF i <= k THEN q[p[i]]
                                    ELSE IF i <= n THEN NoField ELSE q[i]]
           m == [mem EXCEPT ![a] = t]
           r == [status |-> "ok", md |-> view[v].md, v |-> view[v].v, arr |-> a, len |-> k]
<1>3. view' = [view EXCEPT ![v] = r] /\ Written(m)
  BY <1>2 DEF Becomes
<1>4. r.arr = a /\ r.len = k /\ r.md = view[v].md
  OBVIOUS
<1>5. k \in 0..n /\ p \in [1..k -> stay]
  <2>1. n \in Nat /\ stay \subseteq 1..n
    BY <1>1
  <2> HIDE DEF n, stay
  <2> QED
    BY <2>1, AscendingType
<1>6. \A i \in 1..k : q[p[i]] \in Fields
  BY <1>1, <1>5
<1> HIDE DEF n, a, q, stay, k, r
<1>7. t \in Seq(Fields \cup {NoField}) /\ Len(t) = Len(q)
  BY <1>1, <1>5, <1>6
<1>8. \A i \in 1..k : t[i] \in Fields
  BY <1>1, <1>5, <1>6
<1>9. a = NoArray => t = <<>>
  BY <1>1, <1>7 DEF q
<1> HIDE DEF t
<1>10. /\ m \in [Memory -> Seq(Fields \cup {NoField})] /\ m[NoArray] = <<>>
       /\ m[a] = t
       /\ \A b \in Memory \ {a} : m[b] = mem[b]
  BY <1>1, <1>7, <1>9 DEF Memory
<1> HIDE DEF m
<1>11. r.len \in 0..Len(m[r.arr])
  <2>1. k \in 0..Len(m[a])
    BY <1>1, <1>5, <1>7, <1>10
  <2> QED
    BY <1>4, <2>1
<1>12. ~r.md => r.len = 0
  <2>1. n = 0 => k = 0
    BY <1>5
  <2> QED
    BY <1>1, <1>4, <2>1
<1>13. /\ r.arr \in Memory
       /\ r.arr = NoArray \/ \A w \in Views \ {v} : view[w].arr # r.arr
  BY <1>1, <1>4
<1>14. \A i \in 1..r.len : m[r.arr][i] \in Fields
  BY <1>4, <1>8, <1>10
<1>15. \A b \in Memory \ {r.arr} : m[b] = mem[b]
  BY <1>4, <1>10
<1> QED
  BY <1>3, <1>10, <1>11, <1>12, <1>13, <1>14, <1>15, OneView

LEMMA SetFullFilledPreserves ==
    ASSUME IInv, NEW v \in Views, SetFullFilled(v)
    PROVE  IInv'
<1> DEFINE c == Cardinality(Fields)
<1>1. c \in Nat
  BY ViewsAssumption, FS_CardinalityType
<1>2. <<>> \in Seq(Fields)
  OBVIOUS
<1>3. InNewArray(v, "ok", view[v].v, <<>>, c)
  BY DEF SetFullFilled
<1> HIDE DEF c
<1> QED
  BY <1>1, <1>2, <1>3, InNewArrayStep

LEMMA CopyViewPreserves ==
    ASSUME IInv, NEW v \in Views, NEW w \in Views, CopyView(v, w)
    PROVE  IInv'
<1>1. CASE view[w].len = 0
  <2> DEFINE r == [status |-> view[w].status, md |-> view[w].md, v |-> view[w].v,
                   arr |-> NoArray, len |-> 0]
  <2>1. view' = [view EXCEPT ![v] = r] /\ Written(mem)
    BY <1>1 DEF CopyView, Becomes
  <2>2. r.arr = NoArray /\ r.len = 0
    OBVIOUS
  <2> HIDE DEF r
  <2> QED
    BY <2>1, <2>2, NilStep
<1>2. CASE view[w].len # 0
  <2> DEFINE n == view[w].len
             s == Filled(w)
  <2>1. PICK a \in Unused : /\ Becomes(v, view[w].status, view[w].md, view[w].v, a, n)
                            /\ Written([mem EXCEPT ![a] = s])
    BY <1>2 DEF CopyView
  <2> DEFINE r == [status |-> view[w].status, md |-> view[w].md, v |-> view[w].v,
                   arr |-> a, len |-> n]
  <2>2. view' = [view EXCEPT ![v] = r]
    BY <2>1 DEF Becomes
  <2>3. r.arr = a /\ r.len = n /\ r.md = view[w].md
    OBVIOUS
  <2>4. s \in Seq(Fields) /\ Len(s) = n
    BY FilledType
  <2>5. ~view[w].md => n = 0
    BY DEF IInv, Inv, Described
  <2>6. Written([mem EXCEPT ![a] = s])
    BY <2>1
  <2> HIDE DEF n, s, r
  <2>7. n \in Nat /\ s \in Seq(Fields \cup {NoField}) /\ \A i \in 1..n : s[i] \in Fields
    BY <2>4
  <2>8. r.len \in 0..n /\ (\A i \in 1..r.len : s[i] \in Fields) /\ (~r.md => r.len = 0)
    BY <2>3, <2>5, <2>7
  <2> QED
    BY <2>2, <2>3, <2>4, <2>6, <2>7, <2>8, NewArrayStep
<1> QED
  BY <1>1, <1>2

LEMMA ReadObjectPreserves ==
    ASSUME IInv, NEW v \in Views, NEW t, NEW F \in SUBSET Fields, ReadObject(v, t, F)
    PROVE  IInv'
<1> DEFINE c == Cardinality(Fields)
<1>1. c \in Nat
  BY ViewsAssumption, FS_CardinalityType
<1>2. PICK r \in Reads(t, F) :
        InNewArray(v, "ok", [f \in Fields |-> Value(r, Len(r), f)], Keys(r), c)
  BY DEF ReadObject
<1>3. PICK n \in 0..Len(t) : /\ r = [i \in 1..n |-> t[i]]
                             /\ \A i \in 1..n : t[i].key \in F
  BY DEF Reads
<1>4. Keys(r) \in Seq(Fields)
  <2>1. n \in Nat
    OBVIOUS
  <2>2. DOMAIN r = 1..n /\ \A i \in 1..n : r[i].key \in Fields
    BY <1>3
  <2>3. [i \in 1..n |-> r[i].key] \in Seq(Fields)
    BY <2>1, <2>2
  <2> QED
    BY <2>2, <2>3 DEF Keys
<1> DEFINE x == [f \in Fields |-> Value(r, Len(r), f)]
           s == Keys(r)
<1>5. s \in Seq(Fields) /\ InNewArray(v, "ok", x, s, c)
  BY <1>2, <1>4
<1> HIDE DEF x, s, c
<1> QED
  BY <1>1, <1>5, InNewArrayStep

\* What Scan is given is a sequence.
LEMMA SentIsSeq ==
    ASSUME IInv, NEW v \in Views, NEW F, NEW t \in PairsOf(v, F)
    PROVE  Len(t) \in Nat
<1> DEFINE P == {i \in 1..view[v].len : Filled(v)[i] \in F}
<1>1. PICK p \in Ascending(P) :
        t = [i \in DOMAIN p |-> [key |-> Filled(v)[p[i]], val |-> view[v].v[Filled(v)[p[i]]]]]
  BY DEF PairsOf
<1>2. view[v].len \in Nat
  BY DEF IInv, Shape, Inv, Whole
<1>3. Cardinality(P) \in Nat /\ DOMAIN p = 1..Cardinality(P)
  <2> DEFINE n == view[v].len
  <2>1. n \in Nat /\ P \in SUBSET (1..n)
    BY <1>2
  <2> HIDE DEF n, P
  <2>2. Cardinality(P) \in 0..n /\ p \in [1..Cardinality(P) -> P]
    BY <2>1, AscendingType
  <2> QED
    BY <2>1, <2>2
<1>4. t = [i \in 1..Cardinality(P) |-> t[i]]
  BY <1>1, <1>3
<1> HIDE DEF P
<1> QED
  BY <1>3, <1>4

LEMMA ScanPreserves ==
    ASSUME IInv, NEW v \in Views, NEW t, Len(t) \in Nat, Scan(v, t)
    PROVE  IInv'
<1> DEFINE n == Len(t)
           mine == {i \in 1..n : t[i].key \in Stored}
           bad == {i \in mine : t[i].val = Bad}
           status == IF bad = {} THEN "ok" ELSE "failed"
           set == IF bad = {} THEN n ELSE Min(bad) - 1
           x == [f \in Fields |-> IF f \in Stored THEN Value(t, set, f) ELSE Zero]
           k == Cardinality(mine)
<1>1. PICK p \in Ascending(mine) :
        InNewArray(v, status, x, [i \in DOMAIN p |-> t[p[i]].key], n)
  BY DEF Scan
<1>2. n \in Nat /\ mine \in SUBSET (1..n) /\ \A i \in mine : t[i].key \in Fields
  BY ViewsAssumption
<1> DEFINE s == [i \in DOMAIN p |-> t[p[i]].key]
<1>3. k \in Nat /\ p \in [1..k -> mine]
  <2> HIDE DEF n, mine
  <2>1. k \in 0..n /\ p \in [1..k -> mine]
    BY <1>2, AscendingType
  <2> QED
    BY <1>2, <2>1
<1>4. InNewArray(v, status, x, s, n)
  BY <1>1
<1> HIDE DEF n, mine, k, status, x
<1>5. s \in Seq(Fields)
  <2>1. DOMAIN p = 1..k /\ \A i \in 1..k : t[p[i]].key \in Fields
    BY <1>2, <1>3
  <2>2. [i \in 1..k |-> t[p[i]].key] \in Seq(Fields)
    BY <1>3, <2>1
  <2> QED
    BY <2>1, <2>2
<1> HIDE DEF s
<1> QED
  BY <1>2, <1>4, <1>5, InNewArrayStep

-----------------------------------------------------------------------------
LEMMA StepPreserves == IInv /\ [Next]_vars => IInv'
<1> SUFFICES ASSUME IInv, [Next]_vars
             PROVE  IInv'
  OBVIOUS
<1>1. CASE UNCHANGED vars
  BY <1>1 DEF vars, IInv, Shape, Inv, Whole, Private, Described
<1>2. CASE Next
  <2> SUFFICES ASSUME NEW v \in Views,
                      \/ New(v) \/ SetFullFilled(v) \/ ReadNull(v) \/ ReadNothing(v)
                      \/ ScanFails(v)
                      \/ \E f \in Fields, x \in Values : Assign(v, f, x)
                      \/ \E f \in Fields : SetFilled(v, f)
                      \/ \E F \in SUBSET Given(v) : SetUnfilled(v, F)
                      \/ \E w \in Views : SQLView(v, w) \/ JsonView(v, w)
                      \/ \E t \in SentTexts \cup Texts : UnmarshalJSON(v, t)
                      \/ \E t \in SentObjects \cup Rows : ScanObject(v, t)
                      \/ \E r \in SentRows \cup Rows : Scan(v, r)
               PROVE  IInv'
    BY <1>2 DEF Next
  <2>1. CASE New(v) \/ ReadNull(v) \/ ReadNothing(v) \/ ScanFails(v)
    BY <2>1, NilPreserves DEF New, ReadNull, ReadNothing, ScanFails
  <2>2. CASE SetFullFilled(v)
    BY <2>2, SetFullFilledPreserves
  <2>3. CASE \E f \in Fields, x \in Values : Assign(v, f, x)
    BY <2>3, AssignPreserves
  <2>4. CASE \E f \in Fields : SetFilled(v, f)
    BY <2>4, SetFilledPreserves
  <2>5. CASE \E F \in SUBSET Given(v) : SetUnfilled(v, F)
    BY <2>5, SetUnfilledPreserves
  <2>6. CASE \E w \in Views : SQLView(v, w) \/ JsonView(v, w)
    BY <2>6, CopyViewPreserves DEF SQLView, JsonView
  <2>7. CASE \E t \in SentTexts \cup Texts : UnmarshalJSON(v, t)
    BY <2>7, ViewsAssumption, ReadObjectPreserves DEF UnmarshalJSON
  <2>8. CASE \E t \in SentObjects \cup Rows : ScanObject(v, t)
    BY <2>8, ViewsAssumption, ReadObjectPreserves DEF ScanObject
  <2>9. CASE \E r \in SentRows \cup Rows : Scan(v, r)
    <3>1. PICK r \in SentRows \cup Rows : Scan(v, r)
      BY <2>9
    <3>2. CASE r \in Rows
      <4>1. r \in Seq(Pairs)
        BY <3>2, ViewsAssumption
      <4>2. Len(r) \in Nat
        BY <4>1
      <4> QED
        BY <3>1, <4>2, ScanPreserves
    <3>3. CASE r \in SentRows
      <4>1. PICK w \in Views : r \in PairsOf(w, Stored)
        BY <3>3 DEF SentRows, DBValue, Views
      <4> QED
        BY <3>1, <4>1, SentIsSeq, ScanPreserves
    <3> QED
      BY <3>2, <3>3
  <2> QED
    BY <2>1, <2>2, <2>3, <2>4, <2>5, <2>6, <2>7, <2>8, <2>9
<1> QED
  BY <1>1, <1>2

LEMMA InitHolds == Init => IInv
<1> SUFFICES ASSUME Init PROVE IInv
  OBVIOUS
<1>1. Shape
  BY DEF Init, Shape, Memory
<1>2. \A v \in Views : view[v].arr = NoArray /\ view[v].len = 0
  BY DEF Init
<1>3. Whole
  <2>1. mem[NoArray] = <<>>
    BY DEF Init, Memory
  <2> QED
    BY <1>2, <2>1 DEF Whole
<1> QED
  BY <1>1, <1>2, <1>3 DEF IInv, Inv, Private, Described

(***************************************************************************)
(* However many views are made from each other, read, filled and changed:  *)
(* none shares an array with another, so SetFilled and SetUnfilled of one  *)
(* cannot change another, no view is left with a nil pointer in Filled,    *)
(* and a view with fields has their descriptions.                          *)
(***************************************************************************)
THEOREM InvHolds == Spec => []Inv
<1>1. IInv => Inv
  BY DEF IInv
<1> QED
  BY <1>1, InitHolds, StepPreserves, PTL DEF Spec

-----------------------------------------------------------------------------
(* The slices implement sets of fields.  Content is what a view is as a    *)
(* value and a set; a call changes it in one view.                         *)
Seen(r, s) == [is |-> r.status # "none", val |-> r.v, given |-> {s[i] : i \in 1..r.len}]

Content == [v \in Views |-> Seen(view[v], mem[view[v].arr])]

\* The values in the views are of their kind.
Valued == \A v \in Views : view[v].v \in [Fields -> Values]

LEMMA MaxIn ==
    ASSUME NEW k \in Nat, NEW S \in SUBSET (1..k), S # {}
    PROVE  Max(S) \in S
<1> DEFINE T == {k - y : y \in S}
<1>1. T \subseteq Nat /\ T # {}
  <2>1. \A y \in S : y \in 1..k /\ k - y \in Nat
    OBVIOUS
  <2> QED
    BY <2>1
<1>2. PICK x \in T : \A y \in T : ~(<<y, x>> \in OpToRel(<, Nat))
  BY <1>1, NatLessThanWellFounded, WFMin
<1>3. \A y \in T : ~(y < x)
  BY <1>1, <1>2 DEF OpToRel
<1>4. PICK z \in S : x = k - z
  OBVIOUS
<1>5. \A y \in S : z >= y
  <2> TAKE y \in S
  <2>1. k - y \in T /\ k - y \in Nat /\ x \in Nat
    BY <1>1
  <2> QED
    BY <1>3, <1>4, <2>1
<1> QED
  BY <1>5 DEF Max

LEMMA ContentStep ==
    ASSUME IInv, NEW v \in Views, NEW r, NEW m,
           view' = [view EXCEPT ![v] = r], Written(m),
           r.arr \in Memory,
           r.arr = NoArray \/ \A w \in Views \ {v} : view[w].arr # r.arr,
           m[NoArray] = <<>>,
           \A b \in Memory \ {r.arr} : m[b] = mem[b]
    PROVE  Content' = [Content EXCEPT ![v] = Seen(r, m[r.arr])]
<1> USE DEF IInv, Shape
<1>1. /\ view'[v] = r
      /\ \A w \in Views \ {v} : view'[w] = view[w]
      /\ \A w \in Views : view'[w].arr \in Memory
  OBVIOUS
<1>2. \A w \in Views : mem'[view'[w].arr] = m[view'[w].arr]
  BY <1>1 DEF Written
<1>3. \A w \in Views \ {v} : m[view[w].arr] = mem[view[w].arr]
  OBVIOUS
<1>4. Seen(view'[v], mem'[view'[v].arr]) = Seen(r, m[r.arr])
  BY <1>1, <1>2
<1>5. \A w \in Views \ {v} :
         Seen(view'[w], mem'[view'[w].arr]) = Seen(view[w], mem[view[w].arr])
  BY <1>1, <1>2, <1>3
<1> HIDE DEF IInv, Shape
<1> QED
  BY <1>4, <1>5 DEF Content

LEMMA RecordUpdates ==
    ASSUME NEW i, NEW y, NEW h, NEW d, NEW k, d = [is |-> i, val |-> y, given |-> h]
    PROVE  /\ [d EXCEPT !.is = k] = [is |-> k, val |-> y, given |-> h]
           /\ [d EXCEPT !.given = k] = [is |-> i, val |-> y, given |-> k]
           /\ \A f : [d EXCEPT !.val[f] = k] =
                        [is |-> i, val |-> [y EXCEPT ![f] = k], given |-> h]
<1>1. [d EXCEPT !.is = k] = [is |-> k, val |-> y, given |-> h]
  OBVIOUS
<1>2. [d EXCEPT !.given = k] = [is |-> i, val |-> y, given |-> k]
  OBVIOUS
<1>3. \A f : [d EXCEPT !.val[f] = k] = [is |-> i, val |-> [y EXCEPT ![f] = k], given |-> h]
  OBVIOUS
<1> QED
  BY <1>1, <1>2, <1>3

\* The calls of ViewSets, said of the new content c of view v.
LEMMA AbstractCall ==
    ASSUME NEW v \in Views, NEW c,
           Content' = [Content EXCEPT ![v] = c],
           \/ c \in {Sets!Empty, Sets!None}
           \/ /\ c \in [is : {TRUE}, val : [Fields -> Values], given : SUBSET Fields]
              /\ \A f \in Fields \ c.given : c.val[f] = Zero
           \/ \E w \in Views \ {v} : Content[w].is /\ c = Content[w]
           \/ Content[v].is /\ \E g \in SUBSET Content[v].given :
                 c = [is |-> TRUE, val |-> view[v].v, given |-> g]
           \/ Content[v].is /\ \E f \in Fields :
                 c = [is |-> TRUE, val |-> view[v].v, given |-> Content[v].given \cup {f}]
           \/ Content[v].is /\ \E f \in Fields, x \in Values :
                 c = [is |-> TRUE, val |-> [view[v].v EXCEPT ![f] = x],
                      given |-> Content[v].given]
    PROVE  Sets!Next
<1> DEFINE K == [u \in Views |->
                   [is |-> view[u].status # "none", val |-> view[u].v,
                    given |-> {mem[view[u].arr][i] : i \in 1..view[u].len}]]
<1>1. Content = K /\ Content' = K'
  BY DEF Content, Seen
<1>2. Content'[v] = c /\ Content' = [Content EXCEPT ![v] = Content'[v]]
  BY DEF Content
<1>3. Sets!OthersStay(v)
  BY <1>1, <1>2 DEF Sets!OthersStay
<1>4. Sets!Clear(v) <=> c \in {Sets!Empty, Sets!None}
  BY <1>1, <1>2 DEF Sets!Clear
<1>5. Sets!Read(v) <=>
        c \in {d \in [is : {TRUE}, val : [Fields -> Values], given : SUBSET Fields] :
                 \A f \in Fields \ d.given : d.val[f] = Zero}
  BY <1>1, <1>2 DEF Sets!Read
<1>6. \A w \in Views : Sets!Copy(v, w) <=> Content[w].is /\ c = Content[w]
  BY <1>1, <1>2 DEF Sets!Copy, Sets!Becomes
<1>7. PICK i, y, h : Content[v] = [is |-> i, val |-> y, given |-> h]
                     /\ i \in BOOLEAN /\ y = view[v].v /\ h = Content[v].given
  BY DEF Content, Seen
<1>8. i = Content[v].is
  BY <1>7
<1>9. /\ \A g : [Content[v] EXCEPT !.given = g] = [is |-> i, val |-> y, given |-> g]
      /\ \A f, x : [Content[v] EXCEPT !.val[f] = x] =
                      [is |-> i, val |-> [y EXCEPT ![f] = x], given |-> h]
  <2> DEFINE d == Content[v]
  <2>1. d = [is |-> i, val |-> y, given |-> h]
    BY <1>7
  <2> HIDE DEF d
  <2>2. \A g : [d EXCEPT !.given = g] = [is |-> i, val |-> y, given |-> g]
    BY <2>1, RecordUpdates
  <2>3. \A x : \A f : [d EXCEPT !.val[f] = x] =
                        [is |-> i, val |-> [y EXCEPT ![f] = x], given |-> h]
    BY <2>1, RecordUpdates
  <2> QED
    BY <2>2, <2>3 DEF d
<1>10. Sets!Next <=>
         \E u \in Views :
            /\ Sets!OthersStay(u)
            /\ \/ Sets!Clear(u) \/ Sets!Read(u)
               \/ \E w \in Views \ {u} : Sets!Copy(u, w)
               \/ /\ Content[u].is
                  /\ \/ Sets!Take(u)
                     \/ \E f \in Fields : Sets!Give(u, f)
                     \/ \E f \in Fields, x \in Values : Sets!Assign(u, f, x)
  BY <1>1 DEF Sets!Next
<1>11. ASSUME Content[v].is, NEW g \in SUBSET Content[v].given,
              c = [is |-> TRUE, val |-> y, given |-> g]
       PROVE  Sets!Take(v)
  <2>1. Sets!Take(v) <=> /\ c.given \subseteq Content[v].given
                         /\ c = [Content[v] EXCEPT !.given = c.given]
    BY <1>1, <1>2 DEF Sets!Take, Sets!Becomes
  <2> QED
    BY <1>8, <1>9, <1>11, <2>1
<1>12. ASSUME Content[v].is, NEW f \in Fields,
              c = [is |-> TRUE, val |-> y, given |-> h \cup {f}]
       PROVE  Sets!Give(v, f)
  <2>1. Sets!Give(v, f) <=> c = [Content[v] EXCEPT !.given = @ \cup {f}]
    BY <1>1, <1>2 DEF Sets!Give, Sets!Becomes
  <2> QED
    BY <1>7, <1>8, <1>9, <1>12, <2>1
<1>13. ASSUME Content[v].is, NEW f \in Fields, NEW x \in Values,
              c = [is |-> TRUE, val |-> [y EXCEPT ![f] = x], given |-> h]
       PROVE  Sets!Assign(v, f, x)
  <2>1. Sets!Assign(v, f, x) <=> K'[v] = [K[v] EXCEPT !.val[f] = x]
    BY Zenon DEF Sets!Assign, Sets!Becomes
  <2>2. K'[v] = c /\ K[v] = Content[v]
    BY <1>1, <1>2
  <2> HIDE DEF K
  <2>3. [Content[v] EXCEPT !.val[f] = x] = c
    <3> DEFINE z == [y EXCEPT ![f] = x]
    <3>1. [Content[v] EXCEPT !.val[f] = x] = [is |-> i, val |-> z, given |-> h]
      BY <1>9
    <3>2. c = [is |-> TRUE, val |-> z, given |-> h]
      BY <1>13
    <3> HIDE DEF z
    <3>3. c = [is |-> i, val |-> z, given |-> h]
      BY <1>7, <1>8, <1>13, <3>2
    <3> QED
      BY <3>1, <3>3
  <2>4. [K[v] EXCEPT !.val[f] = x] = [Content[v] EXCEPT !.val[f] = x]
    BY <2>2
  <2> QED
    BY <2>1, <2>2, <2>3, <2>4
<1>14. \/ Sets!Clear(v) \/ Sets!Read(v)
       \/ \E w \in Views \ {v} : Sets!Copy(v, w)
       \/ /\ Content[v].is
          /\ \/ Sets!Take(v)
             \/ \E f \in Fields : Sets!Give(v, f)
             \/ \E f \in Fields, x \in Values : Sets!Assign(v, f, x)
  <2>1. CASE c \in {Sets!Empty, Sets!None}
    BY <1>4, <2>1
  <2>2. CASE /\ c \in [is : {TRUE}, val : [Fields -> Values], given : SUBSET Fields]
             /\ \A f \in Fields \ c.given : c.val[f] = Zero
    BY <1>5, <2>2
  <2>3. CASE \E w \in Views \ {v} : Content[w].is /\ c = Content[w]
    BY <1>6, <2>3
  <2>4. CASE Content[v].is /\ \E g \in SUBSET Content[v].given :
                 c = [is |-> TRUE, val |-> view[v].v, given |-> g]
    BY <1>7, <1>11, <2>4
  <2>5. CASE Content[v].is /\ \E f \in Fields :
                 c = [is |-> TRUE, val |-> view[v].v, given |-> Content[v].given \cup {f}]
    BY <1>7, <1>12, <2>5
  <2>6. CASE Content[v].is /\ \E f \in Fields, x \in Values :
                 c = [is |-> TRUE, val |-> [view[v].v EXCEPT ![f] = x],
                      given |-> Content[v].given]
    BY <1>7, <1>13, <2>6
  <2> QED
    BY <2>1, <2>2, <2>3, <2>4, <2>5, <2>6
<1> QED
  BY <1>3, <1>10, <1>14

LEMMA ValuedStep ==
    ASSUME IInv, Valued, NEW v \in Views, NEW r,
           view' = [view EXCEPT ![v] = r], r.v \in [Fields -> Values]
    PROVE  Valued'
<1>1. view'[v] = r /\ \A w \in Views \ {v} : view'[w] = view[w]
  BY DEF IInv, Shape
<1> QED
  BY <1>1 DEF Valued

LEMMA NilContent ==
    ASSUME IInv, Valued, NEW v \in Views, NEW status \in {"ok", "failed", "none"}, NEW md,
           Nil(v, status, md)
    PROVE  Sets!Next /\ Valued'
<1> DEFINE r == [status |-> status, md |-> md, v |-> Zeros, arr |-> NoArray, len |-> 0]
           m == mem
<1>1. view' = [view EXCEPT ![v] = r] /\ Written(m)
  BY DEF Nil, Becomes
<1>2. Zeros \in [Fields -> Values]
  BY ViewsAssumption DEF Zeros
<1>3. m[NoArray] = <<>> /\ \A b \in Memory \ {r.arr} : m[b] = mem[b]
  BY DEF IInv, Shape
<1>4. /\ r.arr = NoArray /\ r.len = 0 /\ r.v = Zeros
      /\ r.arr \in Memory /\ r.status = status
  BY DEF Memory
<1>5. Seen(r, m[r.arr]) = [is |-> status # "none", val |-> Zeros, given |-> {}]
  BY DEF Seen
<1> HIDE DEF r, m
<1>6. Content' = [Content EXCEPT ![v] = Seen(r, m[r.arr])]
  BY <1>1, <1>3, <1>4, ContentStep
<1>7. Seen(r, m[r.arr]) \in {Sets!Empty, Sets!None}
  <2>1. Sets!Empty = [is |-> TRUE, val |-> Zeros, given |-> {}]
    BY DEF Sets!Empty, Sets!Zeros, Zeros
  <2>2. Sets!None = [is |-> FALSE, val |-> Zeros, given |-> {}]
    <3>1. PICK z, e, i, d : /\ z = Zeros /\ e = {} /\ i = TRUE /\ d = Sets!Empty
      OBVIOUS
    <3>2. d = [is |-> i, val |-> z, given |-> e]
      BY <2>1, <3>1
    <3>3. \A k : [d EXCEPT !.is = k] = [is |-> k, val |-> z, given |-> e]
      BY <3>2, RecordUpdates
    <3> QED
      BY <3>1, <3>3 DEF Sets!None
  <2> QED
    BY <1>5, <2>1, <2>2
<1>8. Valued'
  BY <1>1, <1>2, <1>4, ValuedStep
<1> QED
  BY <1>6, <1>7, <1>8, AbstractCall

\* The elements of a slice in a new array are the fields given.
LEMMA NewArrayContent ==
    ASSUME IInv, NEW v \in Views, NEW r, NEW a \in Unused, NEW s,
           view' = [view EXCEPT ![v] = r], Written([mem EXCEPT ![a] = s]), r.arr = a
    PROVE  Content' = [Content EXCEPT ![v] = Seen(r, s)]
<1> DEFINE m == [mem EXCEPT ![a] = s]
<1>1. /\ mem \in [Memory -> Seq(Fields \cup {NoField})]
      /\ mem[NoArray] = <<>>
      /\ a \in Memory /\ a # NoArray
  BY ViewsAssumption DEF IInv, Shape, Unused, Memory
<1>2. /\ m[NoArray] = <<>> /\ m[a] = s
      /\ \A b \in Memory \ {a} : m[b] = mem[b]
  BY <1>1, ViewsAssumption DEF Memory
<1>3. \A w \in Views \ {v} : view[w].arr # a
  BY DEF Unused
<1>4. Written(m)
  OBVIOUS
<1> HIDE DEF m
<1>5. /\ r.arr \in Memory
      /\ \A w \in Views \ {v} : view[w].arr # r.arr
      /\ \A b \in Memory \ {r.arr} : m[b] = mem[b]
  BY <1>1, <1>2, <1>3
<1>6. Content' = [Content EXCEPT ![v] = Seen(r, m[r.arr])]
  BY <1>2, <1>4, <1>5, ContentStep
<1> QED
  BY <1>2, <1>6

LEMMA InNewArrayContent ==
    ASSUME IInv, Valued, NEW v \in Views, NEW status, NEW x \in [Fields -> Values],
           NEW s \in Seq(Fields), NEW c \in Nat,
           InNewArray(v, status, x, s, c)
    PROVE  /\ Content' = [Content EXCEPT ![v] =
                            [is |-> status # "none", val |-> x,
                             given |-> {s[i] : i \in 1..Len(s)}]]
           /\ Valued'
<1> DEFINE n == Len(s)
<1>1. n \in Nat
  OBVIOUS
<1>2. PICK a \in Unused, k \in Slots(c, Len(s)) :
        /\ Becomes(v, status, TRUE, x, a, Len(s))
        /\ Written([mem EXCEPT ![a] = Padded(s, k)])
  BY DEF InNewArray
<1> DEFINE r == [status |-> status, md |-> TRUE, v |-> x, arr |-> a, len |-> n]
           t == Padded(s, k)
<1>3. view' = [view EXCEPT ![v] = r] /\ Written([mem EXCEPT ![a] = t])
  BY <1>2 DEF Becomes
<1>4. r.arr = a /\ r.v = x
  OBVIOUS
<1>5. k \in Nat /\ n <= k
  BY <1>1, <1>2, ViewsAssumption DEF Slots
<1>6. \A i \in 1..n : t[i] = s[i]
  BY <1>1, <1>5 DEF Padded
<1>7. Seen(r, t) = [is |-> status # "none", val |-> x, given |-> {s[i] : i \in 1..n}]
  BY <1>6 DEF Seen
<1> HIDE DEF r, t
<1>8. Content' = [Content EXCEPT ![v] = Seen(r, t)]
  BY <1>3, <1>4, <1>5, NewArrayContent
<1>9. Valued'
  BY <1>3, <1>4, ValuedStep
<1> QED
  BY <1>7, <1>8, <1>9

-----------------------------------------------------------------------------
LEMMA AssignContent ==
    ASSUME IInv, Valued, NEW v \in Views, NEW f \in Fields, NEW x \in Values, Assign(v, f, x)
    PROVE  Sets!Next /\ Valued'
<1> DEFINE r == [status |-> "ok", md |-> view[v].md, v |-> [view[v].v EXCEPT ![f] = x],
                 arr |-> view[v].arr, len |-> view[v].len]
           m == mem
<1>1. view' = [view EXCEPT ![v] = r] /\ Written(m) /\ view[v].status = "ok"
  BY DEF Assign, Becomes
<1>2. r.arr = view[v].arr
  OBVIOUS
<1>3. /\ r.arr \in Memory
      /\ r.arr = NoArray \/ \A w \in Views \ {v} : view[w].arr # r.arr
      /\ m[NoArray] = <<>> /\ \A b \in Memory \ {r.arr} : m[b] = mem[b]
  BY <1>2 DEF IInv, Shape, Inv, Private
<1>4. r.v \in [Fields -> Values]
  BY DEF Valued
<1>5. /\ Seen(r, m[r.arr]) = [is |-> TRUE, val |-> [view[v].v EXCEPT ![f] = x],
                                given |-> Content[v].given]
      /\ Content[v].is
  BY <1>1 DEF Seen, Content
<1> HIDE DEF r, m
<1>6. Content' = [Content EXCEPT ![v] = Seen(r, m[r.arr])]
  BY <1>1, <1>3, ContentStep
<1>7. Valued'
  BY <1>1, <1>4, ValuedStep
<1> QED
  BY <1>5, <1>6, <1>7, AbstractCall

LEMMA SetFilledContent ==
    ASSUME IInv, Valued, NEW v \in Views, NEW f \in Fields, SetFilled(v, f)
    PROVE  Sets!Next /\ Valued'
<1> DEFINE n == view[v].len
           a == view[v].arr
           c == [is |-> TRUE, val |-> view[v].v, given |-> Content[v].given \cup {f}]
<1>1. /\ a \in Memory /\ n \in 0..Len(mem[a])
      /\ mem \in [Memory -> Seq(Fields \cup {NoField})] /\ mem[NoArray] = <<>>
      /\ a = NoArray \/ \A w \in Views \ {v} : view[w].arr # a
      /\ view[v].v \in [Fields -> Values]
  BY DEF IInv, Shape, Inv, Whole, Private, Valued
<1>2. view[v].status = "ok" /\ Content[v].is
  BY DEF SetFilled, Content, Seen
<1>3. Content[v].given = {mem[a][i] : i \in 1..n}
  BY DEF Content, Seen
<1>4. CASE n < Len(mem[a])
  <2> DEFINE m == [mem EXCEPT ![a] = [@ EXCEPT ![n + 1] = f]]
             r == [status |-> "ok", md |-> TRUE, v |-> view[v].v, arr |-> a, len |-> n + 1]
  <2>1. view' = [view EXCEPT ![v] = r] /\ Written(m)
    BY <1>4 DEF SetFilled, Becomes
  <2>2. r.arr = a /\ r.len = n + 1 /\ r.v = view[v].v /\ r.status = "ok"
    OBVIOUS
  <2>3. a # NoArray
    BY <1>1, <1>4
  <2> HIDE DEF n, a, c
  <2>4. m[a] = [mem[a] EXCEPT ![n + 1] = f] /\ m[NoArray] = <<>>
        /\ \A b \in Memory \ {a} : m[b] = mem[b]
    BY <1>1, <2>3 DEF Memory
  <2> HIDE DEF m, r
  <2>5. m[a][n + 1] = f /\ \A i \in 1..n : m[a][i] = mem[a][i]
    BY <1>1, <1>4, <2>4
  <2>6. PICK q, g : q = m[r.arr] /\ g = {q[i] : i \in 1..r.len}
    OBVIOUS
  <2>7. g = Content[v].given \cup {f}
    <3>1. /\ q[n + 1] = f /\ \A i \in 1..n : q[i] = mem[a][i]
          /\ \A i \in 1..r.len : i \in 1..n \/ i = n + 1
          /\ 1..n \subseteq 1..r.len /\ n + 1 \in 1..r.len
      BY <1>1, <2>2, <2>5, <2>6
    <3>2. f \in g /\ \A i \in 1..n : mem[a][i] \in g
      <4>1. \A i \in 1..r.len : q[i] \in g
        BY <2>6
      <4>2. q[n + 1] \in g /\ \A i \in 1..n : q[i] \in g
        BY <3>1, <4>1
      <4> QED
        BY <3>1, <4>2
    <3>3. \A i \in 1..r.len : q[i] \in {mem[a][j] : j \in 1..n} \cup {f}
      BY <3>1
    <3>4. g \subseteq {mem[a][j] : j \in 1..n} \cup {f}
      BY <2>6, <3>3
    <3> QED
      BY <1>3, <3>2, <3>4
  <2>11. Seen(r, m[r.arr]) = c
    <3>1. Seen(r, m[r.arr]) = [is |-> TRUE, val |-> view[v].v, given |-> g]
      BY <2>2, <2>6 DEF Seen
    <3> QED
      BY <2>7, <3>1 DEF c
  <2>8. Content' = [Content EXCEPT ![v] = Seen(r, m[r.arr])]
    <3>1. /\ r.arr \in Memory
          /\ r.arr = NoArray \/ \A w \in Views \ {v} : view[w].arr # r.arr
          /\ \A b \in Memory \ {r.arr} : m[b] = mem[b]
      BY <1>1, <2>2, <2>4
    <3>2. m[NoArray] = <<>>
      BY <2>4
    <3> QED
      BY <2>1, <3>1, <3>2, ContentStep
  <2>9. Content' = [Content EXCEPT ![v] = c]
    BY <2>8, <2>11
  <2>10. Valued'
    BY <1>1, <2>1, <2>2, ValuedStep
  <2> QED
    BY <1>2, <2>9, <2>10, AbstractCall DEF c
<1>5. CASE ~(n < Len(mem[a]))
  <2> DEFINE s == Append(Filled(v), f)
  <2>1. InNewArray(v, "ok", view[v].v, s, n)
    BY <1>5 DEF SetFilled
  <2>2. s \in Seq(Fields) /\ n \in Nat /\ Len(s) = n + 1
        /\ s[n + 1] = f /\ \A i \in 1..n : s[i] = mem[a][i]
    <3>1. Filled(v) \in Seq(Fields) /\ Len(Filled(v)) = n /\ n \in Nat
      BY <1>1, FilledType
    <3>2. \A i \in 1..n : Filled(v)[i] = mem[a][i]
      BY DEF Filled
    <3> HIDE DEF n, a
    <3> QED
      BY <3>1, <3>2, AppendProperties
  <2> HIDE DEF s, n, a, c
  <2>3. {s[i] : i \in 1..Len(s)} = {mem[a][i] : i \in 1..n} \cup {f}
    <3>1. /\ \A i \in 1..Len(s) : i \in 1..n \/ i = n + 1
          /\ 1..n \subseteq 1..Len(s) /\ n + 1 \in 1..Len(s)
      BY <1>1, <2>2
    <3>2. f \in {s[i] : i \in 1..Len(s)} /\ \A i \in 1..n : mem[a][i] \in {s[j] : j \in 1..Len(s)}
      BY <2>2, <3>1
    <3>3. \A i \in 1..Len(s) : s[i] \in {mem[a][j] : j \in 1..n} \cup {f}
      BY <2>2, <3>1
    <3> QED
      BY <3>2, <3>3
  <2>4. /\ Content' = [Content EXCEPT ![v] = [is |-> "ok" # "none", val |-> view[v].v,
                                              given |-> {s[i] : i \in 1..Len(s)}]]
        /\ Valued'
    BY <1>1, <2>1, <2>2, InNewArrayContent
  <2>5. Content' = [Content EXCEPT ![v] = c]
    BY <1>3, <2>3, <2>4 DEF c
  <2> QED
    BY <1>2, <2>4, <2>5, AbstractCall DEF c
<1> QED
  BY <1>4, <1>5

LEMMA SetUnfilledContent ==
    ASSUME IInv, Valued, NEW v \in Views, NEW F, SetUnfilled(v, F)
    PROVE  Sets!Next /\ Valued'
<1> DEFINE n == view[v].len
           a == view[v].arr
           q == mem[a]
           stay == {i \in 1..n : q[i] \notin F}
           k == Cardinality(stay)
<1>1. /\ a \in Memory /\ n \in 0..Len(q)
      /\ mem \in [Memory -> Seq(Fields \cup {NoField})] /\ mem[NoArray] = <<>>
      /\ q \in Seq(Fields \cup {NoField})
      /\ a = NoArray \/ \A w \in Views \ {v} : view[w].arr # a
      /\ view[v].v \in [Fields -> Values]
  BY DEF IInv, Shape, Inv, Whole, Private, Valued
<1>2. PICK p \in Ascending(stay) :
        /\ Becomes(v, "ok", view[v].md, view[v].v, a, k)
        /\ Written([mem EXCEPT ![a] =
               [i \in 1..Len(q) |-> IF i <= k THEN q[p[i]]
                                    ELSE IF i <= n THEN NoField ELSE q[i]]])
  BY DEF SetUnfilled
<1> DEFINE t == [i \in 1..Len(q) |-> IF i <= k THEN q[p[i]]
                                    ELSE IF i <= n THEN NoField ELSE q[i]]
           m == [mem EXCEPT ![a] = t]
           r == [status |-> "ok", md |-> view[v].md, v |-> view[v].v, arr |-> a, len |-> k]
           g == {t[i] : i \in 1..k}
<1>3. view' = [view EXCEPT ![v] = r] /\ Written(m)
  BY <1>2 DEF Becomes
<1>4. r.arr = a /\ r.len = k /\ r.v = view[v].v /\ r.status = "ok"
  OBVIOUS
<1>5. k \in 0..n /\ p \in [1..k -> stay]
  <2>1. n \in Nat /\ stay \subseteq 1..n
    BY <1>1
  <2> HIDE DEF n, stay
  <2> QED
    BY <2>1, AscendingType
<1>6. \A i \in 1..k : t[i] = q[p[i]] /\ p[i] \in 1..n
  <2>1. \A i \in 1..k : p[i] \in stay
    BY <1>5
  <2>2. stay \subseteq 1..n
    OBVIOUS
  <2> HIDE DEF stay, k, n, q
  <2>3. \A i \in 1..k : i \in 1..Len(q) /\ i <= k
    BY <1>1, <1>5
  <2> QED
    BY <2>1, <2>2, <2>3
<1>7. view[v].status = "ok" /\ Content[v].is
  BY DEF SetUnfilled, Content, Seen
<1>8. Content[v] = [is |-> TRUE, val |-> view[v].v, given |-> {q[i] : i \in 1..n}]
  BY <1>7 DEF Content, Seen
<1> HIDE DEF n, a, stay, k, r
<1>9. t = <<>> \/ a # NoArray
  BY <1>1
<1> HIDE DEF q, t
<1>10. /\ m[NoArray] = <<>> /\ m[a] = t
       /\ \A b \in Memory \ {a} : m[b] = mem[b]
  BY <1>1, <1>9 DEF Memory
<1> HIDE DEF m
<1>11. Seen(r, m[r.arr]) = [is |-> TRUE, val |-> view[v].v, given |-> g]
  BY <1>4, <1>10 DEF Seen
<1>12. g \in SUBSET Content[v].given
  BY <1>6, <1>8
<1>13. Content' = [Content EXCEPT ![v] = [is |-> TRUE, val |-> view[v].v, given |-> g]]
  <2>1. Content' = [Content EXCEPT ![v] = Seen(r, m[r.arr])]
    BY <1>1, <1>3, <1>4, <1>10, ContentStep
  <2> QED
    BY <1>11, <2>1
<1>14. Valued'
  BY <1>1, <1>3, <1>4, ValuedStep
<1> HIDE DEF g
<1> QED
  BY <1>7, <1>12, <1>13, <1>14, AbstractCall

LEMMA SetFullFilledContent ==
    ASSUME IInv, Valued, NEW v \in Views, SetFullFilled(v)
    PROVE  Sets!Next /\ Valued'
<1> DEFINE c == Cardinality(Fields)
<1>1. c \in Nat
  BY ViewsAssumption, FS_CardinalityType
<1>2. <<>> \in Seq(Fields) /\ view[v].v \in [Fields -> Values]
  BY DEF Valued
<1>3. InNewArray(v, "ok", view[v].v, <<>>, c)
  BY DEF SetFullFilled
<1> HIDE DEF c
<1>4. /\ Content' = [Content EXCEPT ![v] = [is |-> "ok" # "none", val |-> view[v].v,
                                            given |-> {<<>>[i] : i \in 1..Len(<<>>)}]]
      /\ Valued'
  BY <1>1, <1>2, <1>3, InNewArrayContent
<1>5. {<<>>[i] : i \in 1..Len(<<>>)} = {}
  OBVIOUS
<1>6. Content[v].is
  BY DEF SetFullFilled, Content, Seen
<1>7. Content' = [Content EXCEPT ![v] = [is |-> TRUE, val |-> view[v].v, given |-> {}]]
  BY <1>4, <1>5
<1>8. {} \in SUBSET Content[v].given
  OBVIOUS
<1> QED
  BY <1>4, <1>6, <1>7, <1>8, AbstractCall

LEMMA CopyViewContent ==
    ASSUME IInv, Valued, NEW v \in Views, NEW w \in Views \ {v}, CopyView(v, w)
    PROVE  Sets!Next /\ Valued'
<1>1. view[w].v \in [Fields -> Values] /\ Content[w].is
      /\ Content[w] = Seen(view[w], mem[view[w].arr])
  BY DEF Valued, CopyView, Content, Seen
<1>2. CASE view[w].len = 0
  <2> DEFINE r == [status |-> view[w].status, md |-> view[w].md, v |-> view[w].v,
                   arr |-> NoArray, len |-> 0]
             m == mem
  <2>1. view' = [view EXCEPT ![v] = r] /\ Written(m)
    BY <1>2 DEF CopyView, Becomes
  <2>2. r.arr = NoArray /\ r.arr \in Memory /\ r.v = view[w].v
        /\ m[NoArray] = <<>> /\ \A b \in Memory \ {r.arr} : m[b] = mem[b]
    BY DEF Memory, IInv, Shape
  <2>3. Seen(r, m[r.arr]) = Content[w]
    BY <1>1, <1>2 DEF Seen
  <2> HIDE DEF r, m
  <2>4. Content' = [Content EXCEPT ![v] = Seen(r, m[r.arr])]
    BY <2>1, <2>2, ContentStep
  <2>5. Content' = [Content EXCEPT ![v] = Content[w]]
    BY <2>3, <2>4
  <2>6. Valued'
    BY <1>1, <2>1, <2>2, ValuedStep
  <2> QED
    BY <1>1, <2>5, <2>6, AbstractCall
<1>3. CASE view[w].len # 0
  <2> DEFINE n == view[w].len
             s == Filled(w)
  <2>1. PICK a \in Unused : /\ Becomes(v, view[w].status, view[w].md, view[w].v, a, n)
                            /\ Written([mem EXCEPT ![a] = s])
    BY <1>3 DEF CopyView
  <2> DEFINE r == [status |-> view[w].status, md |-> view[w].md, v |-> view[w].v,
                   arr |-> a, len |-> n]
  <2>2. view' = [view EXCEPT ![v] = r] /\ Written([mem EXCEPT ![a] = s])
    BY <2>1 DEF Becomes
  <2>3. r.arr = a /\ r.v = view[w].v /\ r.status = view[w].status /\ r.len = n
    OBVIOUS
  <2>4. n \in Nat /\ \A i \in 1..n : s[i] = mem[view[w].arr][i]
    BY DEF Filled, IInv, Inv, Whole, Shape
  <2>5. Content[w] = [is |-> view[w].status # "none", val |-> view[w].v,
                      given |-> {mem[view[w].arr][i] : i \in 1..n}]
    BY DEF Content, Seen
  <2> HIDE DEF r, s, n
  <2>6. {s[i] : i \in 1..n} = {mem[view[w].arr][i] : i \in 1..n}
    BY <2>4
  <2>7. Seen(r, s) = Content[w]
    BY <2>3, <2>5, <2>6 DEF Seen
  <2>8. Content' = [Content EXCEPT ![v] = Seen(r, s)]
    BY <2>2, <2>3, NewArrayContent
  <2>9. Content' = [Content EXCEPT ![v] = Content[w]]
    BY <2>7, <2>8
  <2>10. Valued'
    BY <1>1, <2>2, <2>3, ValuedStep
  <2> QED
    BY <1>1, <2>9, <2>10, AbstractCall
<1> QED
  BY <1>2, <1>3

-----------------------------------------------------------------------------
(* Reading.                                                                *)

\* A sequence of keys with values, as far as reading takes.
IsText(t) == Len(t) \in Nat /\ \A i \in 1..Len(t) : t[i].val \in Values \cup {Bad}

LEMMA SentIsText ==
    ASSUME IInv, Valued, NEW v \in Views, NEW F, NEW t \in PairsOf(v, F)
    PROVE  IsText(t)
<1> DEFINE P == {i \in 1..view[v].len : Filled(v)[i] \in F}
           k == Cardinality(P)
<1>1. PICK p \in Ascending(P) :
        t = [i \in DOMAIN p |-> [key |-> Filled(v)[p[i]], val |-> view[v].v[Filled(v)[p[i]]]]]
  BY DEF PairsOf
<1>2. view[v].len \in Nat
  BY DEF IInv, Shape, Inv, Whole
<1>3. k \in Nat /\ p \in [1..k -> P]
  <2> DEFINE n == view[v].len
  <2>1. n \in Nat /\ P \in SUBSET (1..n)
    BY <1>2
  <2> HIDE DEF n, P
  <2>2. Cardinality(P) \in 0..n /\ p \in [1..Cardinality(P) -> P]
    BY <2>1, AscendingType
  <2> QED
    BY <2>1, <2>2
<1>4. \A i \in 1..k : Filled(v)[p[i]] \in Fields
  <2>1. \A i \in 1..k : p[i] \in 1..view[v].len
    BY <1>3
  <2> QED
    BY <1>2, <2>1, FilledType
<1>5. \A i \in 1..k : view[v].v[Filled(v)[p[i]]] \in Values
  BY <1>4 DEF Valued
<1> HIDE DEF P, k
<1>6. Len(t) = k /\ \A i \in 1..k : t[i].val = view[v].v[Filled(v)[p[i]]]
  BY <1>1, <1>3
<1> QED
  BY <1>3, <1>5, <1>6 DEF IsText

LEMMA MarshalIsText ==
    ASSUME IInv, Valued, NEW v \in Views, NEW t \in MarshalJSON(v)
    PROVE  IsText(t)
<1>1. CASE view[v].status = "ok"
  BY <1>1, SentIsText DEF MarshalJSON
<1>2. CASE view[v].status # "ok"
  <2>1. t = <<[key |-> Unknown, val |-> Bad]>>
    BY <1>2 DEF MarshalJSON
  <2> QED
    BY <2>1 DEF IsText
<1> QED
  BY <1>1, <1>2

LEMMA GivenIsText ==
    ASSUME NEW t \in Texts \cup Rows
    PROVE  IsText(t)
<1>1. t \in Seq(Pairs)
  BY ViewsAssumption
<1>2. \A i \in 1..Len(t) : t[i] \in Pairs
  BY <1>1
<1> QED
  BY <1>1, <1>2 DEF IsText, Pairs

LEMMA ValueType ==
    ASSUME NEW t, NEW k \in Nat, NEW f,
           \A i \in 1..k : t[i].val \in Values \cup {Bad}
    PROVE  /\ Value(t, k, f) \in Values
           /\ (\A i \in 1..k : t[i].key # f) => Value(t, k, f) = Zero
<1> DEFINE at == {i \in 1..k : t[i].key = f}
<1>1. CASE at = {}
  BY <1>1, ViewsAssumption DEF Value
<1>2. CASE at # {}
  <2>1. Max(at) \in at
    BY <1>2, MaxIn
  <2>2. t[Max(at)].val \in Values \cup {Bad}
    BY <2>1
  <2>3. Value(t, k, f) = IF t[Max(at)].val = Bad THEN Zero ELSE t[Max(at)].val
    BY <1>2 DEF Value
  <2>4. ~ \A i \in 1..k : t[i].key # f
    BY <1>2
  <2> HIDE DEF at
  <2> QED
    BY <2>2, <2>3, <2>4, ViewsAssumption
<1> QED
  BY <1>1, <1>2

LEMMA ReadObjectContent ==
    ASSUME IInv, Valued, NEW v \in Views, NEW t, IsText(t), NEW F \in SUBSET Fields,
           ReadObject(v, t, F)
    PROVE  Sets!Next /\ Valued'
<1> DEFINE c == Cardinality(Fields)
<1>1. c \in Nat
  BY ViewsAssumption, FS_CardinalityType
<1>2. PICK r \in Reads(t, F) :
        InNewArray(v, "ok", [f \in Fields |-> Value(r, Len(r), f)], Keys(r), c)
  BY DEF ReadObject
<1>3. PICK n \in 0..Len(t) : /\ r = [i \in 1..n |-> t[i]]
                             /\ \A i \in 1..n : t[i].key \in F
  BY DEF Reads
<1>4. /\ n \in Nat /\ DOMAIN r = 1..n /\ Len(r) = n
      /\ \A i \in 1..n : r[i].key \in Fields /\ r[i].val \in Values \cup {Bad}
  BY <1>3 DEF IsText
<1> DEFINE x == [f \in Fields |-> Value(r, Len(r), f)]
           s == Keys(r)
<1>5. s \in Seq(Fields) /\ Len(s) = n /\ \A i \in 1..n : s[i] = r[i].key
  <2>1. [i \in 1..n |-> r[i].key] \in Seq(Fields)
    BY <1>4
  <2>2. s = [i \in 1..n |-> r[i].key]
    BY <1>4 DEF Keys
  <2> QED
    BY <1>4, <2>1, <2>2
<1>6. InNewArray(v, "ok", x, s, c)
  BY <1>2
<1>7. x \in [Fields -> Values]
  BY <1>4, ValueType
<1> DEFINE g == {s[i] : i \in 1..n}
<1>8. \A f \in Fields \ g : x[f] = Zero
  <2> TAKE f \in Fields \ g
  <2>1. \A i \in 1..n : r[i].key # f
    BY <1>5
  <2> QED
    BY <1>4, <2>1, ValueType
<1>9. g \in SUBSET Fields
  BY <1>4, <1>5
<1> HIDE DEF x, s, c
<1>10. /\ Content' = [Content EXCEPT ![v] = [is |-> "ok" # "none", val |-> x,
                                             given |-> {s[i] : i \in 1..Len(s)}]]
       /\ Valued'
  BY <1>1, <1>5, <1>6, <1>7, InNewArrayContent
<1>11. Content' = [Content EXCEPT ![v] = [is |-> TRUE, val |-> x, given |-> g]]
  BY <1>5, <1>10
<1> HIDE DEF g
<1>12. /\ [is |-> TRUE, val |-> x, given |-> g] \in
             [is : {TRUE}, val : [Fields -> Values], given : SUBSET Fields]
       /\ [is |-> TRUE, val |-> x, given |-> g].given = g
       /\ [is |-> TRUE, val |-> x, given |-> g].val = x
  BY <1>7, <1>9
<1> QED
  BY <1>8, <1>10, <1>11, <1>12, AbstractCall

LEMMA MinIn ==
    ASSUME NEW k \in Nat, NEW S \in SUBSET (1..k), S # {}
    PROVE  Min(S) \in S
<1>1. S \subseteq Nat
  OBVIOUS
<1>2. PICK x \in S : \A y \in S : ~(<<y, x>> \in OpToRel(<, Nat))
  BY <1>1, NatLessThanWellFounded, WFMin
<1>3. \A y \in S : ~(y < x)
  BY <1>1, <1>2 DEF OpToRel
<1>4. \A y \in S : x <= y
  BY <1>1, <1>3
<1> QED
  BY <1>4 DEF Min

\* All elements are in their ascending order.
LEMMA AscendingOnto ==
    ASSUME NEW k \in Nat, NEW P \in SUBSET (1..k), NEW p \in Ascending(P), NEW e \in P
    PROVE  \E i \in 1..Cardinality(P) : p[i] = e
<1> DEFINE n == Cardinality(P)
<1>1. n \in Nat /\ p \in [1..n -> P]
  BY AscendingType
<1>2. IsFiniteSet(P)
  <2>1. IsFiniteSet(1..k)
    BY FS_Interval
  <2> QED
    BY <2>1, FS_Subset
<1>3. Cardinality(1..n) = n
  <2> HIDE DEF n
  <2> QED
    BY <1>1, FS_Interval
<1>4. \A i, j \in 1..n : p[i] = p[j] => i = j
  <2>1. \A i, j \in 1..n : i < j => p[i] < p[j]
    BY DEF Ascending
  <2>2. \A i \in 1..n : p[i] \in Nat
    <3>1. P \subseteq Nat
      OBVIOUS
    <3> QED
      BY <1>1, <3>1
  <2> HIDE DEF n
  <2> QED
    BY <1>1, <2>1, <2>2
<1>5. p \in Injection(1..n, P)
  BY <1>1, <1>4 DEF Injection, IsInjective
<1>6. p \in Surjection(1..n, P)
  BY <1>2, <1>3, <1>5, FS_Injection
<1> QED
  BY <1>6 DEF Surjection

LEMMA ScanContent ==
    ASSUME IInv, Valued, NEW v \in Views, NEW t, IsText(t), Scan(v, t)
    PROVE  Sets!Next /\ Valued'
<1> DEFINE n == Len(t)
           mine == {i \in 1..n : t[i].key \in Stored}
           bad == {i \in mine : t[i].val = Bad}
           status == IF bad = {} THEN "ok" ELSE "failed"
           set == IF bad = {} THEN n ELSE Min(bad) - 1
           x == [f \in Fields |-> IF f \in Stored THEN Value(t, set, f) ELSE Zero]
           k == Cardinality(mine)
<1>1. PICK p \in Ascending(mine) :
        InNewArray(v, status, x, [i \in DOMAIN p |-> t[p[i]].key], n)
  BY DEF Scan
<1>2. n \in Nat /\ mine \in SUBSET (1..n) /\ \A i \in mine : t[i].key \in Fields
  BY ViewsAssumption DEF IsText
<1> DEFINE s == [i \in DOMAIN p |-> t[p[i]].key]
<1>3. k \in Nat /\ p \in [1..k -> mine]
  <2> HIDE DEF n, mine
  <2> QED
    BY <1>2, AscendingType
<1>4. set \in 0..n
  <2>1. CASE bad = {}
    BY <1>2, <2>1
  <2>2. CASE bad # {}
    <3>1. bad \in SUBSET (1..n)
      OBVIOUS
    <3>2. Min(bad) \in 1..n
      <4> HIDE DEF n, bad
      <4> QED
        BY <1>2, <2>2, <3>1, MinIn
    <3>3. set = Min(bad) - 1
      BY <2>2
    <3> HIDE DEF set, n, bad
    <3> QED
      BY <1>2, <3>2, <3>3
  <2> QED
    BY <2>1, <2>2
<1>5. \A i \in 1..n : t[i].val \in Values \cup {Bad}
  BY DEF IsText
<1>6. InNewArray(v, status, x, s, n)
  BY <1>1
<1>7. status # "none"
  OBVIOUS
<1>8. \A i \in mine : \E j \in 1..k : p[j] = i
  <2> HIDE DEF n, mine
  <2> QED
    BY <1>2, AscendingOnto
<1>9. \A i \in 1..n : t[i].key \in Stored => i \in mine
  OBVIOUS
<1>10. \A f \in Fields : x[f] = IF f \in Stored THEN Value(t, set, f) ELSE Zero
  OBVIOUS
<1>11. x = [f \in Fields |-> x[f]]
  OBVIOUS
<1> HIDE DEF n, mine, k, status, set, x
<1>12. set \in Nat /\ 1..set \subseteq 1..n
  BY <1>2, <1>4
<1>13. \A f \in Fields : x[f] \in Values
  <2> TAKE f \in Fields
  <2>1. Value(t, set, f) \in Values
    BY <1>5, <1>12, ValueType
  <2> QED
    BY <1>10, <2>1, ViewsAssumption
<1>14. x \in [Fields -> Values]
  BY <1>11, <1>13
<1>15. /\ s \in Seq(Fields) /\ Len(s) = k
       /\ \A j \in 1..k : s[j] = t[p[j]].key /\ s[j] \in Fields
  <2>1. DOMAIN p = 1..k /\ \A i \in 1..k : t[p[i]].key \in Fields
    BY <1>2, <1>3
  <2>2. [i \in 1..k |-> t[p[i]].key] \in Seq(Fields)
    BY <1>3, <2>1
  <2> QED
    BY <1>3, <2>1, <2>2
<1> HIDE DEF s
<1> DEFINE g == {s[i] : i \in 1..k}
<1>16. \A f \in Fields \ g : x[f] = Zero
  <2> TAKE f \in Fields \ g
  <2>1. CASE f \in Stored
    <3>1. \A i \in 1..set : t[i].key # f
      <4> SUFFICES ASSUME NEW i \in 1..set, t[i].key = f PROVE FALSE
        OBVIOUS
      <4>1. i \in mine
        BY <1>9, <1>12, <2>1
      <4>2. PICK j \in 1..k : p[j] = i
        BY <1>8, <4>1
      <4>3. s[j] = f
        BY <1>15, <4>2
      <4> QED
        BY <4>3
    <3>2. \A i \in 1..set : t[i].val \in Values \cup {Bad}
      BY <1>5, <1>12
    <3> QED
      BY <1>10, <1>12, <2>1, <3>1, <3>2, ValueType
  <2>2. CASE f \notin Stored
    BY <1>10, <2>2
  <2> QED
    BY <2>1, <2>2
<1>17. g \in SUBSET Fields
  BY <1>15
<1>18. /\ Content' = [Content EXCEPT ![v] = [is |-> status # "none", val |-> x,
                                             given |-> {s[i] : i \in 1..Len(s)}]]
       /\ Valued'
  BY <1>2, <1>6, <1>14, <1>15, InNewArrayContent
<1>19. Content' = [Content EXCEPT ![v] = [is |-> TRUE, val |-> x, given |-> g]]
  BY <1>7, <1>15, <1>18
<1> HIDE DEF g
<1>20. /\ [is |-> TRUE, val |-> x, given |-> g] \in
             [is : {TRUE}, val : [Fields -> Values], given : SUBSET Fields]
       /\ [is |-> TRUE, val |-> x, given |-> g].given = g
       /\ [is |-> TRUE, val |-> x, given |-> g].val = x
  BY <1>14, <1>17
<1> QED
  BY <1>16, <1>18, <1>19, <1>20, AbstractCall

-----------------------------------------------------------------------------
LEMMA StepImplements ==
    IInv /\ Valued /\ [Next]_vars => Valued' /\ (Sets!Next \/ Content' = Content)
<1> SUFFICES ASSUME IInv, Valued, [Next]_vars
             PROVE  Valued' /\ (Sets!Next \/ Content' = Content)
  OBVIOUS
<1>1. CASE UNCHANGED vars
  BY <1>1 DEF vars, Valued, Content
<1>2. CASE Next
  <2> SUFFICES ASSUME NEW v \in Views,
                      \/ New(v) \/ SetFullFilled(v) \/ ReadNull(v) \/ ReadNothing(v)
                      \/ ScanFails(v)
                      \/ \E f \in Fields, x \in Values : Assign(v, f, x)
                      \/ \E f \in Fields : SetFilled(v, f)
                      \/ \E F \in SUBSET Given(v) : SetUnfilled(v, F)
                      \/ \E w \in Views : SQLView(v, w) \/ JsonView(v, w)
                      \/ \E t \in SentTexts \cup Texts : UnmarshalJSON(v, t)
                      \/ \E t \in SentObjects \cup Rows : ScanObject(v, t)
                      \/ \E r \in SentRows \cup Rows : Scan(v, r)
               PROVE  Sets!Next /\ Valued'
    BY <1>2 DEF Next
  <2>1. CASE New(v) \/ ReadNull(v) \/ ReadNothing(v) \/ ScanFails(v)
    BY <2>1, NilContent DEF New, ReadNull, ReadNothing, ScanFails
  <2>2. CASE SetFullFilled(v)
    BY <2>2, SetFullFilledContent
  <2>3. CASE \E f \in Fields, x \in Values : Assign(v, f, x)
    BY <2>3, AssignContent
  <2>4. CASE \E f \in Fields : SetFilled(v, f)
    BY <2>4, SetFilledContent
  <2>5. CASE \E F \in SUBSET Given(v) : SetUnfilled(v, F)
    BY <2>5, SetUnfilledContent
  <2>6. CASE \E w \in Views : SQLView(v, w) \/ JsonView(v, w)
    <3>1. PICK w \in Views : SQLView(v, w) \/ JsonView(v, w)
      BY <2>6
    <3>2. w # v /\ CopyView(v, w)
      BY <3>1, ViewsAssumption DEF SQLView, JsonView
    <3> QED
      BY <3>2, CopyViewContent
  <2>7. CASE \E t \in SentTexts \cup Texts : UnmarshalJSON(v, t)
    <3>1. PICK t \in SentTexts \cup Texts : UnmarshalJSON(v, t)
      BY <2>7
    <3>2. IsText(t)
      BY GivenIsText, MarshalIsText DEF SentTexts, Views
    <3> QED
      BY <3>1, <3>2, ViewsAssumption, ReadObjectContent DEF UnmarshalJSON
  <2>8. CASE \E t \in SentObjects \cup Rows : ScanObject(v, t)
    <3>1. PICK t \in SentObjects \cup Rows : ScanObject(v, t)
      BY <2>8
    <3>2. IsText(t)
      BY GivenIsText, SentIsText DEF SentObjects, DBValue, Views
    <3> QED
      BY <3>1, <3>2, ViewsAssumption, ReadObjectContent DEF ScanObject
  <2>9. CASE \E t \in SentRows \cup Rows : Scan(v, t)
    <3>1. PICK t \in SentRows \cup Rows : Scan(v, t)
      BY <2>9
    <3>2. IsText(t)
      BY GivenIsText, SentIsText DEF SentRows, DBValue, Views
    <3> QED
      BY <3>1, <3>2, ScanContent
  <2> QED
    BY <2>1, <2>2, <2>3, <2>4, <2>5, <2>6, <2>7, <2>8, <2>9
<1> QED
  BY <1>1, <1>2

(***************************************************************************)
(* Whatever views are made from each other, and whatever texts and rows    *)
(* they are read from: a call gives or takes the fields that it says, in   *)
(* the view that it is made on and in no other one, and a view that was    *)
(* read is zero but in the fields that were given.                         *)
(***************************************************************************)
THEOREM ViewSetsImplemented == Spec => ImplementsViewSets
<1>1. Init => IInv
  BY InitHolds
<1>2. Init => Valued
  <2> SUFFICES ASSUME Init PROVE Valued
    OBVIOUS
  <2>1. Zeros \in [Fields -> Values]
    BY ViewsAssumption DEF Zeros
  <2> QED
    BY <2>1 DEF Init, Valued
<1>3. Init => Sets!Init
  <2> SUFFICES ASSUME Init PROVE Sets!Init
    OBVIOUS
  <2>1. \A v \in Views : view[v].status = "ok" /\ view[v].v = Zeros /\ view[v].len = 0
    BY DEF Init
  <2>2. \A v \in Views : [is |-> view[v].status # "none", val |-> view[v].v,
                          given |-> {mem[view[v].arr][i] : i \in 1..view[v].len}]
                         = Sets!Empty
    <3> TAKE v \in Views
    <3>1. {mem[view[v].arr][i] : i \in 1..view[v].len} = {}
      BY <2>1
    <3>2. view[v].status # "none" /\ view[v].v = Sets!Zeros
      BY <2>1 DEF Sets!Zeros, Zeros
    <3> QED
      BY <3>1, <3>2 DEF Sets!Empty
  <2> QED
    BY <2>2 DEF Sets!Init
<1>4. Content' = Content =>
        UNCHANGED [v \in Views |->
                     [is |-> view[v].status # "none", val |-> view[v].v,
                      given |-> {mem[view[v].arr][i] : i \in 1..view[v].len}]]
  BY DEF Content, Seen
<1>5. IInv /\ Valued /\ [Next]_vars =>
        /\ Valued'
        /\ [Sets!Next]_[v \in Views |->
                     [is |-> view[v].status # "none", val |-> view[v].v,
                      given |-> {mem[view[v].arr][i] : i \in 1..view[v].len}]]
  BY <1>4, StepImplements
<1> QED
  BY <1>1, <1>2, <1>3, <1>5, StepPreserves, PTL DEF Spec, ImplementsViewSets, Sets!Spec

-----------------------------------------------------------------------------
(* The types.  Values and arrays are of theirs by Valued and IInv, and the  *)
(* length of a slice is a number because it is within its array.           *)
LEMMA BecomesTyped ==
    ASSUME TypeOK, IInv', Valued', NEW v \in Views, NEW status \in {"ok", "failed", "none"},
           NEW md \in BOOLEAN, NEW x, NEW a, NEW n, Becomes(v, status, md, x, a, n)
    PROVE  TypeOK'
<1> DEFINE r == [status |-> status, md |-> md, v |-> x, arr |-> a, len |-> n]
           R == [status : {"ok", "failed", "none"}, md : BOOLEAN,
                 v : [Fields -> Values], arr : Memory, len : Nat]
<1>1. view' = [view EXCEPT ![v] = r] /\ view \in [Views -> R]
  BY DEF Becomes, TypeOK
<1>2. view'[v] = r
  BY <1>1
<1>3. x \in [Fields -> Values]
  BY <1>2 DEF Valued
<1>4. a \in Memory /\ mem' \in [Memory -> Seq(Fields \cup {NoField})]
  BY <1>2 DEF IInv, Shape
<1>5. n \in 0..Len(mem'[a])
  BY <1>2 DEF IInv, Inv, Whole
<1>6. n \in Nat
  BY <1>5
<1>7. r \in R
  BY <1>3, <1>4, <1>6
<1> HIDE DEF r, R
<1>8. view' \in [Views -> R]
  BY <1>1, <1>7
<1> QED
  BY <1>4, <1>8 DEF TypeOK, R

LEMMA TypesPreserved == TypeOK /\ IInv /\ Valued /\ [Next]_vars => TypeOK'
<1> SUFFICES ASSUME TypeOK, IInv, Valued, [Next]_vars
             PROVE  TypeOK'
  OBVIOUS
<1>1. IInv' /\ Valued'
  BY StepPreserves, StepImplements
<1>2. \A w \in Views : view[w].status \in {"ok", "failed", "none"} /\ view[w].md \in BOOLEAN
  BY DEF TypeOK
<1>3. CASE UNCHANGED vars
  BY <1>3 DEF vars, TypeOK, Memory
<1>4. CASE Next
  <2>1. PICK v \in Views :
           \/ New(v) \/ SetFullFilled(v) \/ ReadNull(v) \/ ReadNothing(v) \/ ScanFails(v)
           \/ \E f \in Fields, x \in Values : Assign(v, f, x)
           \/ \E f \in Fields : SetFilled(v, f)
           \/ \E F \in SUBSET Given(v) : SetUnfilled(v, F)
           \/ \E w \in Views : SQLView(v, w) \/ JsonView(v, w)
           \/ \E t \in SentTexts \cup Texts : UnmarshalJSON(v, t)
           \/ \E t \in SentObjects \cup Rows : ScanObject(v, t)
           \/ \E r \in SentRows \cup Rows : Scan(v, r)
    BY <1>4 DEF Next
  <2> SUFFICES \E status \in {"ok", "failed", "none"}, md \in BOOLEAN :
                  \E x, a, n : Becomes(v, status, md, x, a, n)
    BY <1>1, BecomesTyped
  <2>2. CASE New(v) \/ ReadNull(v) \/ ReadNothing(v) \/ ScanFails(v)
    BY <2>2 DEF New, ReadNull, ReadNothing, ScanFails, Nil
  <2>3. CASE SetFullFilled(v)
    BY <2>3 DEF SetFullFilled, InNewArray
  <2>4. CASE \E f \in Fields, x \in Values : Assign(v, f, x)
    BY <2>4, <1>2 DEF Assign
  <2>5. CASE \E f \in Fields : SetFilled(v, f)
    BY <2>5 DEF SetFilled, InNewArray
  <2>6. CASE \E F \in SUBSET Given(v) : SetUnfilled(v, F)
    BY <2>6, <1>2 DEF SetUnfilled
  <2>7. CASE \E w \in Views : SQLView(v, w) \/ JsonView(v, w)
    BY <2>7, <1>2 DEF SQLView, JsonView, CopyView
  <2>8. CASE \E t \in SentTexts \cup Texts : UnmarshalJSON(v, t)
    BY <2>8 DEF UnmarshalJSON, ReadObject, InNewArray
  <2>9. CASE \E t \in SentObjects \cup Rows : ScanObject(v, t)
    BY <2>9 DEF ScanObject, ReadObject, InNewArray
  <2>10. CASE \E r \in SentRows \cup Rows : Scan(v, r)
    BY <2>10 DEF Scan, InNewArray
  <2> QED
    BY <2>1, <2>2, <2>3, <2>4, <2>5, <2>6, <2>7, <2>8, <2>9, <2>10
<1> QED
  BY <1>3, <1>4

(***************************************************************************)
(* Views and arrays hold values of their kinds, whatever the calls of      *)
(* jsonview.go and sqlview.go: a status, a value of every field, and a     *)
(* slice of names of fields with a length.                                 *)
(***************************************************************************)
THEOREM TypesHold == Spec => []TypeOK
<1>1. Init => IInv /\ Valued /\ TypeOK
  <2> SUFFICES ASSUME Init PROVE Valued /\ TypeOK
    BY InitHolds
  <2>1. Zeros \in [Fields -> Values]
    BY ViewsAssumption DEF Zeros
  <2>2. NoArray \in Memory /\ <<>> \in Seq(Fields \cup {NoField})
    BY DEF Memory
  <2> QED
    BY <2>1, <2>2 DEF Init, Valued, TypeOK
<1>2. IInv /\ Valued /\ TypeOK /\ [Next]_vars => IInv' /\ Valued' /\ TypeOK'
  BY StepPreserves, StepImplements, TypesPreserved
<1> QED
  BY <1>1, <1>2, PTL DEF Spec

-----------------------------------------------------------------------------
(* What a view sends arrives.                                              *)

\* t has the fields of w that are in F, with their values, and no other.
Carries(t, w, F) ==
    /\ Len(t) \in Nat
    /\ \A i \in 1..Len(t) : t[i].key \in Given(w) \cap F /\ t[i].val = view[w].v[t[i].key]
    /\ \A f \in Given(w) \cap F : \E i \in 1..Len(t) : t[i].key = f

LEMMA PairsCarry ==
    ASSUME IInv, NEW w \in Views, NEW F, NEW t \in PairsOf(w, F)
    PROVE  Carries(t, w, F)
<1> DEFINE n == view[w].len
           P == {i \in 1..n : Filled(w)[i] \in F}
           k == Cardinality(P)
<1>1. PICK p \in Ascending(P) :
        t = [i \in DOMAIN p |-> [key |-> Filled(w)[p[i]], val |-> view[w].v[Filled(w)[p[i]]]]]
  BY DEF PairsOf
<1>2. n \in Nat /\ P \in SUBSET (1..n)
  BY DEF IInv, Shape, Inv, Whole
<1>3. \A i \in P : i \in 1..n /\ Filled(w)[i] \in F
  OBVIOUS
<1>4. \A i \in 1..n : Filled(w)[i] \in F => i \in P
  OBVIOUS
<1> HIDE DEF n, P
<1>5. k \in Nat /\ p \in [1..k -> P] /\ \A e \in P : \E i \in 1..k : p[i] = e
  <2>1. Cardinality(P) \in 0..n /\ p \in [1..Cardinality(P) -> P]
    BY <1>2, AscendingType
  <2>2. \A e \in P : \E i \in 1..Cardinality(P) : p[i] = e
    BY <1>2, AscendingOnto
  <2> QED
    BY <1>2, <2>1, <2>2
<1> HIDE DEF k
<1>6. /\ Len(t) = k
      /\ \A i \in 1..k : /\ t[i].key = Filled(w)[p[i]]
                         /\ t[i].val = view[w].v[Filled(w)[p[i]]]
  BY <1>1, <1>5
<1>7. Given(w) = {Filled(w)[i] : i \in 1..n}
  BY DEF Given, n
<1>8. \A i \in 1..k : p[i] \in P
  BY <1>5
<1>9. ASSUME NEW i \in 1..k PROVE t[i].key \in Given(w) \cap F /\ t[i].val = view[w].v[t[i].key]
  BY <1>3, <1>6, <1>7, <1>8
<1>10. ASSUME NEW f \in Given(w) \cap F PROVE \E i \in 1..k : t[i].key = f
  <2>1. PICK e \in 1..n : Filled(w)[e] = f
    BY <1>7
  <2>2. PICK i \in 1..k : p[i] = e
    BY <1>4, <1>5, <2>1
  <2> QED
    BY <1>6, <2>1, <2>2
<1> QED
  BY <1>5, <1>6, <1>9, <1>10 DEF Carries

LEMMA GivenFields ==
    ASSUME IInv, NEW w \in Views
    PROVE  Given(w) \subseteq Fields
<1>1. Filled(w) \in Seq(Fields) /\ Len(Filled(w)) = view[w].len
  BY FilledType
<1>2. \A i \in 1..Len(Filled(w)) : Filled(w)[i] \in Fields
  BY <1>1
<1> QED
  BY <1>1, <1>2 DEF Given

\* A reader that knows the keys reads to the end: every value fits.
LEMMA ReadsAll ==
    ASSUME IInv, Valued, NEW w \in Views, NEW F, NEW G, F \subseteq G,
           NEW t, Carries(t, w, F), NEW r \in Reads(t, G)
    PROVE  Carries(r, w, F) /\ Keys(r) = [i \in 1..Len(r) |-> r[i].key]
<1>1. PICK n \in 0..Len(t) : /\ r = [i \in 1..n |-> t[i]]
                             /\ \/ n = Len(t)
                                \/ t[n + 1].key \notin G
                                \/ n > 0 /\ t[n].val = Bad
  BY DEF Reads
<1>2. Len(t) \in Nat /\ n \in Nat
  BY DEF Carries
<1>3. \A i \in 1..Len(t) : t[i].key \in G /\ t[i].val # Bad
  <2> TAKE i \in 1..Len(t)
  <2>1. t[i].key \in Given(w) \cap F /\ t[i].val = view[w].v[t[i].key]
    BY DEF Carries
  <2>2. t[i].val \in Values
    BY <2>1, GivenFields DEF Valued
  <2> QED
    BY <2>1, <2>2, ViewsAssumption
<1>4. n = Len(t)
  <2> SUFFICES ASSUME n < Len(t) PROVE FALSE
    BY <1>2
  <2>1. n + 1 \in 1..Len(t) /\ (n > 0 => n \in 1..Len(t))
    BY <1>2
  <2> QED
    BY <1>1, <1>3, <2>1
<1>5. Len(r) = Len(t) /\ DOMAIN r = 1..Len(r) /\ \A i \in 1..Len(t) : r[i] = t[i]
  BY <1>1, <1>2, <1>4
<1> QED
  BY <1>5 DEF Carries, Keys

\* The value that arrives is the one that was sent.
LEMMA ValueArrives ==
    ASSUME IInv, Valued, NEW w \in Views, NEW F, NEW t, Carries(t, w, F), NEW f
    PROVE  /\ Value(t, Len(t), f) \in Values
           /\ f \in Given(w) \cap F => Value(t, Len(t), f) = view[w].v[f]
           /\ f \notin Given(w) \cap F => Value(t, Len(t), f) = Zero
<1> DEFINE k == Len(t)
           at == {i \in 1..k : t[i].key = f}
<1>1. k \in Nat /\ at \in SUBSET (1..k)
  BY DEF Carries
<1>2. \A i \in 1..k : /\ t[i].key \in Given(w) \cap F
                      /\ t[i].val = view[w].v[t[i].key]
                      /\ t[i].val \in Values
  <2> TAKE i \in 1..k
  <2>1. t[i].key \in Given(w) \cap F /\ t[i].val = view[w].v[t[i].key]
    BY DEF Carries
  <2> QED
    BY <2>1, GivenFields DEF Valued
<1>3. /\ Value(t, k, f) \in Values
      /\ (\A i \in 1..k : t[i].key # f) => Value(t, k, f) = Zero
  BY <1>1, <1>2, ValueType
<1>4. ASSUME f \in Given(w) \cap F PROVE Value(t, k, f) = view[w].v[f]
  <2>1. at # {}
    BY <1>4 DEF Carries
  <2>2. Max(at) \in at
    BY <1>1, <2>1, MaxIn
  <2>3. Value(t, k, f) = IF t[Max(at)].val = Bad THEN Zero ELSE t[Max(at)].val
    BY <2>1 DEF Value
  <2>4. PICK m \in 1..k : m = Max(at) /\ t[m].key = f
    BY <2>2
  <2>5. t[m].val = view[w].v[f] /\ t[m].val # Bad
    BY <1>2, <2>4, ViewsAssumption
  <2> HIDE DEF at, k
  <2> QED
    BY <2>3, <2>4, <2>5
<1> QED
  BY <1>2, <1>3, <1>4

\* What a view is after its slice was put into a new array.
LEMMA NewArraySeen ==
    ASSUME IInv, Valued, NEW v \in Views, NEW x \in [Fields -> Values],
           NEW s \in Seq(Fields), NEW c \in Nat, InNewArray(v, "ok", x, s, c)
    PROVE  /\ view'[v].status = "ok"
           /\ view'[v].v = x
           /\ {mem'[view'[v].arr][i] : i \in 1..view'[v].len} = {s[i] : i \in 1..Len(s)}
<1>1. view'[v].status = "ok" /\ view'[v].v = x
  BY DEF InNewArray, Becomes, IInv, Shape
<1>2. /\ Content' = [Content EXCEPT ![v] =
                       [is |-> "ok" # "none", val |-> x, given |-> {s[i] : i \in 1..Len(s)}]]
      /\ Valued'
  BY InNewArrayContent
<1>3. Content'[v].given = {s[i] : i \in 1..Len(s)}
  BY <1>2 DEF Content
<1>4. Content'[v].given = {mem'[view'[v].arr][i] : i \in 1..view'[v].len}
  BY DEF Content, Seen
<1> QED
  BY <1>1, <1>3, <1>4

\* ReadObject leaves in v what the text carries.
LEMMA ReadObjectArrives ==
    ASSUME IInv, Valued, NEW v \in Views, NEW w \in Views, NEW F, NEW G \in SUBSET Fields,
           F \subseteq G, NEW t, Carries(t, w, F), ReadObject(v, t, G),
           NEW omit, \A f \in G \ F : f \in omit /\ view[w].v[f] = Zero
    PROVE  Arrives(v, w, G, omit)
<1> DEFINE c == Cardinality(Fields)
<1>1. c \in Nat
  BY ViewsAssumption, FS_CardinalityType
<1>2. PICK r \in Reads(t, G) :
        InNewArray(v, "ok", [f \in Fields |-> Value(r, Len(r), f)], Keys(r), c)
  BY DEF ReadObject
<1>3. Carries(r, w, F) /\ Keys(r) = [i \in 1..Len(r) |-> r[i].key]
  BY ReadsAll
<1> DEFINE x == [f \in Fields |-> Value(r, Len(r), f)]
           s == Keys(r)
<1>4. /\ \A f \in Fields : /\ x[f] \in Values
                           /\ f \in Given(w) \cap F => x[f] = view[w].v[f]
                           /\ f \notin Given(w) \cap F => x[f] = Zero
  BY <1>3, ValueArrives
<1>5. x \in [Fields -> Values]
  BY <1>4
<1>6. /\ Len(r) \in Nat
      /\ \A i \in 1..Len(r) : r[i].key \in Given(w) \cap F
      /\ \A f \in Given(w) \cap F : \E i \in 1..Len(r) : r[i].key = f
  BY <1>3 DEF Carries
<1>7. s \in Seq(Fields) /\ Len(s) = Len(r) /\ \A i \in 1..Len(r) : s[i] = r[i].key
  <2>1. \A i \in 1..Len(r) : r[i].key \in Fields
    BY <1>6, GivenFields
  <2>2. [i \in 1..Len(r) |-> r[i].key] \in Seq(Fields)
    BY <1>6, <2>1
  <2> QED
    BY <1>3, <1>6, <2>2
<1>8. InNewArray(v, "ok", x, s, c)
  BY <1>2
<1> HIDE DEF x, s, c
<1>9. /\ view'[v].status = "ok"
      /\ view'[v].v = x
      /\ {mem'[view'[v].arr][i] : i \in 1..view'[v].len} = {s[i] : i \in 1..Len(s)}
  BY <1>1, <1>5, <1>7, <1>8, NewArraySeen
<1> DEFINE given == {mem'[view'[v].arr][i] : i \in 1..view'[v].len}
<1>10. given = Given(w) \cap F
  <2>1. given = {r[i].key : i \in 1..Len(r)}
    <3>1. {s[i] : i \in 1..Len(s)} = {r[i].key : i \in 1..Len(r)}
      BY <1>7
    <3> QED
      BY <1>9, <3>1
  <2> HIDE DEF given
  <2> QED
    BY <1>6, <2>1
<1>11. ASSUME NEW f \in Given(w) \cap G
       PROVE  view'[v].v[f] = view[w].v[f] /\ (f \in given \/ (f \in omit /\ view[w].v[f] = Zero))
  <2> HIDE DEF given
  <2>1. CASE f \in F
    BY <1>4, <1>9, <1>10, <1>11, <2>1
  <2>2. CASE f \notin F
    BY <1>4, <1>9, <1>11, <2>2
  <2> QED
    BY <2>1, <2>2
<1> QED
  BY <1>9, <1>10, <1>11 DEF Arrives

LEMMA ScanArrives ==
    ASSUME IInv, Valued, NEW v \in Views, NEW w \in Views,
           NEW t, Carries(t, w, Stored), Scan(v, t)
    PROVE  Arrives(v, w, Stored, {})
<1> DEFINE n == Len(t)
           mine == {i \in 1..n : t[i].key \in Stored}
           bad == {i \in mine : t[i].val = Bad}
           set == IF bad = {} THEN n ELSE Min(bad) - 1
           x == [f \in Fields |-> IF f \in Stored THEN Value(t, set, f) ELSE Zero]
           k == Cardinality(mine)
<1>1. PICK p \in Ascending(mine) :
        InNewArray(v, IF bad = {} THEN "ok" ELSE "failed", x, [i \in DOMAIN p |-> t[p[i]].key], n)
  BY DEF Scan
<1>2. /\ n \in Nat
      /\ \A i \in 1..n : t[i].key \in Given(w) \cap Stored /\ t[i].val = view[w].v[t[i].key]
      /\ \A f \in Given(w) \cap Stored : \E i \in 1..n : t[i].key = f
  BY DEF Carries
<1>3. \A i \in 1..n : t[i].key \in Fields /\ t[i].val # Bad
  BY <1>2, GivenFields, ViewsAssumption DEF Valued
<1>4. mine = 1..n /\ bad = {} /\ set = n
  BY <1>2, <1>3
<1>5. \A f \in Fields : /\ Value(t, n, f) \in Values
                        /\ f \in Given(w) \cap Stored => Value(t, n, f) = view[w].v[f]
  BY ValueArrives
<1>6. \A f \in Fields : /\ x[f] \in Values
                        /\ f \in Given(w) \cap Stored => x[f] = view[w].v[f]
  BY <1>4, <1>5, ViewsAssumption
<1>7. x \in [Fields -> Values]
  BY <1>6
<1> DEFINE s == [i \in DOMAIN p |-> t[p[i]].key]
<1>8. k \in Nat /\ p \in [1..k -> 1..n] /\ \A e \in 1..n : \E i \in 1..k : p[i] = e
  <2> HIDE DEF n, mine
  <2>1. mine \in SUBSET (1..n)
    BY <1>4
  <2>2. k \in 0..n /\ p \in [1..k -> mine]
    BY <1>2, <2>1, AscendingType
  <2>3. \A e \in mine : \E i \in 1..k : p[i] = e
    BY <1>2, <2>1, AscendingOnto
  <2> QED
    BY <1>2, <1>4, <2>2, <2>3
<1>9. InNewArray(v, "ok", x, s, n)
  BY <1>1, <1>4
<1> HIDE DEF n, mine, bad, set, x, k
<1>10. s \in Seq(Fields) /\ Len(s) = k /\ \A i \in 1..k : s[i] = t[p[i]].key
  <2>1. DOMAIN p = 1..k /\ \A i \in 1..k : t[p[i]].key \in Fields
    BY <1>3, <1>8
  <2>2. [i \in 1..k |-> t[p[i]].key] \in Seq(Fields)
    BY <1>8, <2>1
  <2> QED
    BY <1>8, <2>1, <2>2
<1> HIDE DEF s
<1>11. /\ view'[v].status = "ok"
      /\ view'[v].v = x
      /\ {mem'[view'[v].arr][i] : i \in 1..view'[v].len} = {s[i] : i \in 1..Len(s)}
  BY <1>2, <1>7, <1>9, <1>10, NewArraySeen
<1> DEFINE given == {mem'[view'[v].arr][i] : i \in 1..view'[v].len}
<1>12. given = Given(w) \cap Stored
  <2>0. given = {t[p[i]].key : i \in 1..k}
    <3>1. {s[i] : i \in 1..Len(s)} = {t[p[i]].key : i \in 1..k}
      BY <1>10
    <3> QED
      BY <1>11, <3>1
  <2> HIDE DEF given
  <2>1. \A i \in 1..k : t[p[i]].key \in Given(w) \cap Stored
    BY <1>2, <1>8
  <2>2. ASSUME NEW f \in Given(w) \cap Stored PROVE f \in given
    <3>1. PICK e \in 1..n : t[e].key = f
      BY <1>2
    <3>2. PICK i \in 1..k : p[i] = e
      BY <1>8
    <3> QED
      BY <2>0, <3>1, <3>2
  <2> QED
    BY <2>0, <2>1, <2>2
<1>13. \A f \in Given(w) \cap Stored : view'[v].v[f] = view[w].v[f] /\ f \in given
  <2> HIDE DEF given
  <2> QED
    BY <1>6, <1>11, <1>12, GivenFields
<1> QED
  BY <1>11, <1>12, <1>13 DEF Arrives

(***************************************************************************)
(* Whatever the model, its tags and its views: a text that MarshalJSON     *)
(* made, UnmarshalJSON reads; the value of a column, Scan; a row, Scan     *)
(* too.  A field of the sender that travels arrives with its value, and    *)
(* one that was omitted arrives zero (jsonview.go 129-285,                 *)
(* sqlview.go 113-179).                                                    *)
(***************************************************************************)
THEOREM WhatIsSentArrivesHolds == Spec => WhatIsSentArrives
<1>1. Init => IInv /\ Valued
  <2>1. Zeros \in [Fields -> Values]
    BY ViewsAssumption DEF Zeros
  <2> QED
    BY <2>1, InitHolds DEF Init, Valued
<1>2. IInv /\ Valued /\ [Next]_vars => IInv' /\ Valued'
  BY StepPreserves, StepImplements
<1>3. IInv /\ Valued =>
        \A v, w \in Views : view'[v].arr \in Unused =>
          /\ w \in JsonViews /\ view[w].status = "ok" => \A t \in MarshalJSON(w) :
                UnmarshalJSON(v, t) => Arrives(v, w, JsonFields, OmitEmpty)
          /\ w \in JsonViews => \A t \in DBValue(w) :
                ScanObject(v, t) => Arrives(v, w, Stored, {})
          /\ w \in SQLViews => \A t \in DBValue(w) :
                Scan(v, t) => Arrives(v, w, Stored, {})
  <2> SUFFICES ASSUME IInv, Valued, NEW v \in Views, NEW w \in Views
               PROVE  /\ view[w].status = "ok" => \A t \in MarshalJSON(w) :
                            UnmarshalJSON(v, t) => Arrives(v, w, JsonFields, OmitEmpty)
                      /\ \A t \in DBValue(w) : ScanObject(v, t) => Arrives(v, w, Stored, {})
                      /\ \A t \in DBValue(w) : Scan(v, t) => Arrives(v, w, Stored, {})
    OBVIOUS
  <2>1. ASSUME view[w].status = "ok", NEW t \in MarshalJSON(w), UnmarshalJSON(v, t)
        PROVE  Arrives(v, w, JsonFields, OmitEmpty)
    <3> DEFINE F == JsonFields \ {f \in OmitEmpty : view[w].v[f] = Zero}
    <3>1. t \in PairsOf(w, F)
      BY <2>1 DEF MarshalJSON
    <3>2. F \subseteq JsonFields /\ \A f \in JsonFields \ F : f \in OmitEmpty /\ view[w].v[f] = Zero
      OBVIOUS
    <3> HIDE DEF F
    <3>3. Carries(t, w, F)
      BY <3>1, PairsCarry
    <3>4. ReadObject(v, t, JsonFields) /\ JsonFields \in SUBSET Fields
      BY <2>1, ViewsAssumption DEF UnmarshalJSON
    <3> QED
      BY <3>2, <3>3, <3>4, ReadObjectArrives
  <2>2. ASSUME NEW t \in DBValue(w) PROVE Carries(t, w, Stored)
    BY PairsCarry DEF DBValue
  <2>3. ASSUME NEW t \in DBValue(w), ScanObject(v, t)
        PROVE  Arrives(v, w, Stored, {})
    <3>1. ReadObject(v, t, Stored) /\ Stored \in SUBSET Fields
      BY <2>3, ViewsAssumption DEF ScanObject
    <3>2. Stored \subseteq Stored /\ \A f \in Stored \ Stored : f \in {} /\ view[w].v[f] = Zero
      OBVIOUS
    <3> QED
      BY <2>2, <3>1, <3>2, ReadObjectArrives
  <2>4. ASSUME NEW t \in DBValue(w), Scan(v, t)
        PROVE  Arrives(v, w, Stored, {})
    BY <2>2, <2>4, ScanArrives
  <2> QED
    BY <2>1, <2>3, <2>4
<1> QED
  BY <1>1, <1>2, <1>3, PTL DEF Spec, WhatIsSentArrives
=============================================================================
