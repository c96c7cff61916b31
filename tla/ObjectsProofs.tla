--------------------------- MODULE ObjectsProofs ---------------------------
(***************************************************************************)
(* The index of a set of objects is always true and no slice is in two     *)
(* places, whatever the model, the number of sets and what the pool does.  *)
(***************************************************************************)
EXTENDS Objects, SequenceTheorems, WellFoundedInduction, TLAPS

\* The object in hand and the query.
HandOK ==
    /\ hand \in [is : BOOLEAN, row : Row, fds : Layouts \cup {<<>>}]
    /\ query \in Layouts

SetType == [open : BOOLEAN, arr : Memory, len : 0..MaxCap, uniq : [Ids -> 0..MaxCap]]
Slots == Seq(Row \cup {NoObject})

\* The sets, their arrays and the pool.
SetsOK ==
    /\ set \in [Sets -> SetType]
    /\ mem \in [Memory -> Slots]
    /\ pool \subseteq Arrays
    /\ mem[NoArray] = <<>>
    /\ \A b \in Memory : Len(mem[b]) <= MaxCap
    /\ ObjectsInv

IInv == HandOK /\ SetsOK

\* The rows and the index of a set with record r in memory m.
Fits(r, m) ==
    /\ r.len <= Len(m[r.arr])
    /\ \A i \in 1..r.len : m[r.arr][i] \in Row
    /\ \A id \in Ids : r.uniq[id] # 0 =>
          r.uniq[id] \in 1..r.len /\ m[r.arr][r.uniq[id]][ID] = id
    /\ \A i \in 1..r.len : m[r.arr][i][ID] \in Ids /\ r.uniq[m[r.arr][i][ID]] = i

\* A set keeps its record and the array that it leads to.
LEMMA SetStays ==
    ASSUME SetsOK, NEW w \in Sets, set'[w] = set[w], mem'[set[w].arr] = mem[set[w].arr]
    PROVE  /\ set'[w].len \in 0..Len(mem'[set'[w].arr])
           /\ \A i \in 1..set'[w].len : mem'[set'[w].arr][i] \in Row
           /\ \A id \in Ids : set'[w].uniq[id] # 0 =>
                 /\ set'[w].uniq[id] \in 1..set'[w].len
                 /\ mem'[set'[w].arr][set'[w].uniq[id]][ID] = id
           /\ \A i \in 1..set'[w].len :
                 /\ mem'[set'[w].arr][i][ID] \in Ids
                 /\ set'[w].uniq[mem'[set'[w].arr][i][ID]] = i
<1>1. PICK n, q, s : n = set[w].len /\ q = set[w].uniq /\ s = mem[set[w].arr]
  OBVIOUS
<1>2. set'[w].len = n /\ set'[w].uniq = q /\ mem'[set'[w].arr] = s
  BY <1>1
<1>3. n \in 0..Len(s) /\ \A i \in 1..n : s[i] \in Row
  BY <1>1 DEF SetsOK, ObjectsInv, Whole
<1>4. /\ \A id \in Ids : q[id] # 0 => q[id] \in 1..n /\ s[q[id]][ID] = id
      /\ \A i \in 1..n : s[i][ID] \in Ids /\ q[s[i][ID]] = i
  BY <1>1 DEF SetsOK, ObjectsInv, Indexed
<1> QED
  BY <1>2, <1>3, <1>4

LEMMA SetsStay ==
    ASSUME SetsOK, \A w \in Sets : set'[w] = set[w] /\ mem'[set[w].arr] = mem[set[w].arr]
    PROVE  Whole' /\ Indexed'
  BY SetStays DEF Whole, Indexed

LEMMA SetsUnchanged ==
    ASSUME SetsOK, UNCHANGED <<set, mem, pool>>
    PROVE  SetsOK'
<1>1. Whole' /\ Indexed'
  BY SetsStay
<1>2. Owned'
  BY DEF SetsOK, ObjectsInv, Owned
<1> QED
  BY <1>1, <1>2 DEF SetsOK, ObjectsInv

-----------------------------------------------------------------------------
(* Every call on a set gives it a record r and memory m, which differs in  *)
(* arrays of no other set.                                                 *)
LEMMA OneSet ==
    ASSUME SetsOK, NEW u \in Sets, NEW r, NEW m,
           set' = [set EXCEPT ![u] = r], Written(m),
           pool' \subseteq Arrays,
           r \in SetType,
           m \in [Memory -> Slots], m[NoArray] = <<>>, \A b \in Memory : Len(m[b]) <= MaxCap,
           r.open <=> r.arr # NoArray,
           r.arr \notin pool',
           \A w \in Sets \ {u} : set[w].open => set[w].arr # r.arr /\ set[w].arr \notin pool',
           \A w \in Sets \ {u} : m[set[w].arr] = mem[set[w].arr],
           Fits(r, m)
    PROVE  SetsOK'
<1>1. /\ set'[u] = r
      /\ \A w \in Sets \ {u} : set'[w] = set[w]
      /\ set' \in [Sets -> SetType]
  BY DEF SetsOK
<1>2. /\ r.arr \in Memory /\ r.open \in BOOLEAN /\ r.len \in 0..MaxCap
      /\ \A w \in Sets : /\ set[w].arr \in Memory /\ set[w].open \in BOOLEAN
                         /\ set[w].len \in 0..MaxCap
                         /\ set[w].open <=> set[w].arr # NoArray
  BY DEF SetsOK, SetType, ObjectsInv, Owned
<1>3. NoArray \notin pool'
  BY ObjectsAssumption
<1>4. \A w \in Sets : set'[w].arr \in Memory /\ set'[w].arr \notin pool'
  BY <1>1, <1>2, <1>3
<1>5. /\ mem' \in [Memory -> Slots]
      /\ mem'[NoArray] = <<>>
      /\ \A b \in Memory : Len(mem'[b]) <= MaxCap
      /\ \A w \in Sets : mem'[set'[w].arr] = m[set'[w].arr]
  <2>1. <<>> \in Slots /\ Len(<<>>) = 0
    BY DEF Slots
  <2>2. \A n \in Nat : Empty(n) \in Slots /\ Len(Empty(n)) = n
    BY DEF Slots, Empty
  <2>3. \A b \in Memory : Len(m[b]) \in Nat
    BY DEF Slots
  <2>4. 0 <= MaxCap
    BY ObjectsAssumption
  <2>5. mem' = [a \in Memory |-> IF a \in pool' THEN Empty(Len(m[a]))
                                 ELSE IF \E w \in Sets : set'[w].arr = a THEN m[a] ELSE <<>>]
    BY DEF Written
  <2>6. \A b \in Memory : mem'[b] \in Slots /\ Len(mem'[b]) <= MaxCap
    BY <2>1, <2>2, <2>3, <2>4, <2>5
  <2> QED
    BY <1>3, <1>4, <2>5, <2>6 DEF Memory
<1>6. Owned'
  <2> SUFFICES ASSUME NEW v \in Sets
               PROVE  /\ set'[v].arr \notin pool'
                      /\ set'[v].open <=> set'[v].arr # NoArray
                      /\ \A w \in Sets : set'[v].arr = set'[w].arr => v = w \/ ~set'[v].open
    BY DEF Owned
  <2>1. set'[v].open <=> set'[v].arr # NoArray
    BY <1>1, <1>2
  <2>2. ASSUME NEW w \in Sets, set'[v].arr = set'[w].arr, set'[v].open, v # w
        PROVE  FALSE
    <3>1. set'[w].open /\ set'[v].arr # NoArray
      BY <1>1, <1>2, <2>1, <2>2
    <3> QED
      BY <1>1, <2>2, <3>1 DEF SetsOK, ObjectsInv, Owned
  <2> QED
    BY <1>4, <2>1, <2>2
<1>7. Whole' /\ Indexed'
  <2>1. ASSUME NEW w \in Sets
        PROVE  /\ set'[w].len \in 0..Len(mem'[set'[w].arr])
               /\ \A i \in 1..set'[w].len : mem'[set'[w].arr][i] \in Row
               /\ \A id \in Ids : set'[w].uniq[id] # 0 =>
                     /\ set'[w].uniq[id] \in 1..set'[w].len
                     /\ mem'[set'[w].arr][set'[w].uniq[id]][ID] = id
               /\ \A i \in 1..set'[w].len :
                     /\ mem'[set'[w].arr][i][ID] \in Ids
                     /\ set'[w].uniq[mem'[set'[w].arr][i][ID]] = i
    <3>1. CASE w = u
      <4>1. mem'[r.arr] = m[r.arr] /\ Len(m[r.arr]) \in Nat
        BY <1>1, <1>2, <1>5 DEF Slots
      <4>2. PICK n, q, s : n = r.len /\ q = r.uniq /\ s = m[r.arr]
        OBVIOUS
      <4>3. set'[w].len = n /\ set'[w].uniq = q /\ mem'[set'[w].arr] = s
        BY <1>1, <3>1, <4>1, <4>2
      <4>4. /\ n \in 0..Len(s)
            /\ \A i \in 1..n : s[i] \in Row
            /\ \A id \in Ids : q[id] # 0 => q[id] \in 1..n /\ s[q[id]][ID] = id
            /\ \A i \in 1..n : s[i][ID] \in Ids /\ q[s[i][ID]] = i
        BY <1>2, <4>1, <4>2 DEF Fits
      <4> QED
        BY <4>3, <4>4
    <3>2. CASE w # u
      <4>1. set'[w] = set[w] /\ mem'[set[w].arr] = mem[set[w].arr]
        BY <1>1, <1>5, <3>2
      <4> QED
        BY <4>1, SetStays
    <3> QED
      BY <3>1, <3>2
  <2> QED
    BY <2>1 DEF Whole, Indexed
<1> QED
  BY <1>1, <1>5, <1>6, <1>7 DEF SetsOK, ObjectsInv

\* A call that leaves a set without rows.
LEMMA EmptySet ==
    ASSUME SetsOK, NEW u \in Sets, NEW open \in BOOLEAN, NEW a \in Memory, NEW m,
           Becomes(u, open, a, 0, NoIndex), Written(m),
           pool' \subseteq Arrays,
           m \in [Memory -> Slots], m[NoArray] = <<>>, \A b \in Memory : Len(m[b]) <= MaxCap,
           open <=> a # NoArray,
           a \notin pool',
           \A w \in Sets \ {u} : set[w].open => set[w].arr # a /\ set[w].arr \notin pool',
           \A w \in Sets \ {u} : m[set[w].arr] = mem[set[w].arr]
    PROVE  SetsOK'
<1> DEFINE r == [open |-> open, arr |-> a, len |-> 0, uniq |-> NoIndex]
<1>1. set' = [set EXCEPT ![u] = r]
  BY DEF Becomes
<1>2. r.open = open /\ r.arr = a /\ r.len = 0 /\ \A id \in Ids : r.uniq[id] = 0
  BY DEF NoIndex
<1>3. 0 \in 0..MaxCap
  BY ObjectsAssumption
<1>4. r \in SetType
  BY <1>3 DEF SetType, NoIndex
<1>5. Len(m[a]) \in Nat
  BY DEF Slots
<1> HIDE DEF r
<1>6. /\ r.len <= Len(m[r.arr])
      /\ \A i \in 1..r.len : FALSE
      /\ \A id \in Ids : ~(r.uniq[id] # 0)
  BY <1>2, <1>5
<1>7. /\ r.open <=> r.arr # NoArray
      /\ r.arr \notin pool'
      /\ \A w \in Sets \ {u} : set[w].open => set[w].arr # r.arr /\ set[w].arr \notin pool'
  BY <1>2
<1>8. Fits(r, m)
  BY <1>6 DEF Fits
<1> QED
  BY <1>1, <1>4, <1>6, <1>7, <1>8, OneSet

-----------------------------------------------------------------------------
(* The calls on sets.                                                      *)

LEMMA EmptySlots ==
    ASSUME NEW n \in Nat
    PROVE  Empty(n) \in Slots /\ Len(Empty(n)) = n
BY DEF Empty, Slots

LEMMA NewUniqueObjectsPreserves ==
    ASSUME SetsOK, NEW u \in Sets, NewUniqueObjects(u)
    PROVE  SetsOK'
<1>1. /\ ~set[u].open
      /\ mem \in [Memory -> Slots] /\ mem[NoArray] = <<>>
      /\ \A b \in Memory : Len(mem[b]) <= MaxCap
      /\ pool \subseteq Arrays
      /\ \A w \in Sets : set[w].arr \in Memory /\ set[w].arr \notin pool
  BY DEF SetsOK, SetType, ObjectsInv, Owned, NewUniqueObjects
<1>2. NoArray \notin Arrays /\ Arrays \subseteq Memory
  BY ObjectsAssumption DEF Memory
<1>3. ASSUME NEW a \in pool, Becomes(u, TRUE, a, 0, NoIndex), pool' = pool \ {a}, Written(mem)
      PROVE  SetsOK'
  <2>1. a \in Memory /\ a # NoArray /\ TRUE \in BOOLEAN /\ a \notin pool' /\ pool' \subseteq Arrays
    BY <1>1, <1>2, <1>3
  <2>2. \A w \in Sets \ {u} : set[w].open => set[w].arr # a /\ set[w].arr \notin pool'
    BY <1>1, <1>3
  <2>3. TRUE <=> a # NoArray
    BY <2>1
  <2> DEFINE m == mem
  <2>4. /\ m \in [Memory -> Slots] /\ m[NoArray] = <<>> /\ \A b \in Memory : Len(m[b]) <= MaxCap
        /\ \A w \in Sets \ {u} : m[set[w].arr] = mem[set[w].arr]
        /\ Written(m)
    BY <1>1, <1>3
  <2> HIDE DEF m
  <2> QED
    BY <1>3, <2>1, <2>2, <2>3, <2>4, EmptySet
<1>4. ASSUME NEW a \in Unused, Becomes(u, TRUE, a, 0, NoIndex), pool' = pool,
             Written([mem EXCEPT ![a] = Empty(InitCap)])
      PROVE  SetsOK'
  <2> DEFINE m == [mem EXCEPT ![a] = Empty(InitCap)]
  <2>1. a \in Memory /\ a # NoArray /\ TRUE \in BOOLEAN /\ a \notin pool' /\ pool' \subseteq Arrays
    BY <1>1, <1>2, <1>4 DEF Unused
  <2>2. \A w \in Sets : set[w].arr # a /\ set[w].arr \notin pool'
    BY <1>1, <1>4 DEF Unused
  <2>3. TRUE <=> a # NoArray
    BY <2>1
  <2>4. Empty(InitCap) \in Slots /\ Len(Empty(InitCap)) <= MaxCap
    BY ObjectsAssumption, EmptySlots
  <2>5. /\ m \in [Memory -> Slots] /\ m[NoArray] = <<>> /\ \A b \in Memory : Len(m[b]) <= MaxCap
        /\ \A w \in Sets \ {u} : m[set[w].arr] = mem[set[w].arr]
        /\ Written(m)
    <3>1. NoArray \in Memory /\ \A b \in Memory : b # a => m[b] = mem[b]
      BY <1>1 DEF Memory
    <3>2. m[a] = Empty(InitCap)
      BY <1>1, <2>1
    <3> QED
      BY <1>1, <1>4, <2>1, <2>2, <2>4, <3>1, <3>2
  <2>6. \A w \in Sets \ {u} : set[w].open => set[w].arr # a /\ set[w].arr \notin pool'
    BY <2>2
  <2> HIDE DEF m
  <2> QED
    BY <1>4, <2>1, <2>3, <2>5, <2>6, EmptySet
<1> QED
  BY <1>3, <1>4 DEF NewUniqueObjects

LEMMA ResetPreserves ==
    ASSUME SetsOK, NEW u \in Sets, Reset(u)
    PROVE  SetsOK'
<1> DEFINE a == set[u].arr
           s == [i \in 1..Len(mem[a]) |-> IF i <= set[u].len THEN NoObject ELSE mem[a][i]]
           m == [mem EXCEPT ![a] = s]
<1>1. /\ a \in Memory /\ a # NoArray /\ a \notin pool'
      /\ mem \in [Memory -> Slots] /\ mem[NoArray] = <<>>
      /\ \A b \in Memory : Len(mem[b]) <= MaxCap
      /\ pool' \subseteq Arrays
      /\ set[u].len \in Nat
      /\ \A w \in Sets \ {u} : set[w].open => set[w].arr # a /\ set[w].arr \notin pool'
  BY DEF SetsOK, SetType, ObjectsInv, Owned, Reset
<1>2. Becomes(u, TRUE, a, 0, NoIndex) /\ Written(m) /\ TRUE \in BOOLEAN
  BY DEF Reset
<1>3. \A w \in Sets \ {u} : set[w].arr # a
  BY <1>1 DEF SetsOK, ObjectsInv, Owned
<1> HIDE DEF a
<1>4. s \in Slots /\ Len(s) = Len(mem[a])
  BY <1>1 DEF Slots
<1> HIDE DEF s
<1>5. /\ m \in [Memory -> Slots] /\ m[NoArray] = <<>> /\ \A b \in Memory : Len(m[b]) <= MaxCap
      /\ \A w \in Sets \ {u} : m[set[w].arr] = mem[set[w].arr]
  <2>1. /\ m \in [Memory -> Slots] /\ NoArray \in Memory
        /\ \A b \in Memory : b # a => m[b] = mem[b]
        /\ m[a] = s
    BY <1>1, <1>4 DEF Memory
  <2>2. \A w \in Sets : set[w].arr \in Memory
    BY DEF SetsOK, SetType
  <2> QED
    BY <1>1, <1>3, <1>4, <2>1, <2>2
<1> HIDE DEF m
<1>6. TRUE <=> a # NoArray
  BY <1>1
<1> QED
  BY <1>1, <1>2, <1>5, <1>6, EmptySet

LEMMA ClosePreserves ==
    ASSUME SetsOK, NEW u \in Sets, Close(u)
    PROVE  SetsOK'
<1> DEFINE m == mem
<1>1. set[u].open /\ pool' = pool \cup {set[u].arr}
      /\ Becomes(u, FALSE, NoArray, 0, NoIndex) /\ Written(m) /\ FALSE \in BOOLEAN
  BY DEF Close
<1>2. /\ m \in [Memory -> Slots] /\ m[NoArray] = <<>> /\ \A b \in Memory : Len(m[b]) <= MaxCap
      /\ \A w \in Sets \ {u} : m[set[w].arr] = mem[set[w].arr]
      /\ NoArray \in Memory
  BY DEF SetsOK, Memory
<1>3. pool' \subseteq Arrays
  BY <1>1 DEF SetsOK, SetType, Memory, ObjectsInv, Owned
<1>4. NoArray \notin pool' /\ (FALSE <=> NoArray # NoArray)
  BY <1>3, ObjectsAssumption
<1>5. \A w \in Sets \ {u} : set[w].open => set[w].arr # NoArray /\ set[w].arr \notin pool'
  BY <1>1 DEF SetsOK, ObjectsInv, Owned
<1> HIDE DEF m
<1> QED
  BY <1>1, <1>2, <1>3, <1>4, <1>5, EmptySet

\* What has been put is in the place r.len, and the other rows are where they were.
LEMMA AppendObjectPreserves ==
    ASSUME SetsOK, NEW u \in Sets, hand.row \in Row, hand.row[ID] \in Ids,
           set[u].open, set[u].uniq[hand.row[ID]] = 0,
           pool' = pool, AppendObject(u)
    PROVE  SetsOK'
<1> DEFINE n == set[u].len
           a == set[u].arr
           new == hand.row[ID]
           uniq == [set[u].uniq EXCEPT ![new] = n + 1]
<1>1. /\ a \in Memory /\ a # NoArray /\ a \notin pool /\ n \in 0..MaxCap /\ n <= Len(mem[a])
      /\ mem \in [Memory -> Slots] /\ mem[NoArray] = <<>>
      /\ \A b \in Memory : Len(mem[b]) <= MaxCap
      /\ pool' \subseteq Arrays
      /\ set[u].uniq \in [Ids -> 0..MaxCap]
  BY DEF SetsOK, SetType, ObjectsInv, Owned, Whole
<1>2. /\ \A i \in 1..n : mem[a][i] \in Row
      /\ \A id \in Ids : set[u].uniq[id] # 0 =>
            set[u].uniq[id] \in 1..n /\ mem[a][set[u].uniq[id]][ID] = id
      /\ \A i \in 1..n : mem[a][i][ID] \in Ids /\ set[u].uniq[mem[a][i][ID]] = i
  BY DEF SetsOK, ObjectsInv, Whole, Indexed
<1>3. \A w \in Sets : /\ set[w].arr \in Memory /\ set[w].arr \notin pool
                      /\ w # u => set[w].arr # a
  BY <1>1 DEF SetsOK, SetType, ObjectsInv, Owned
\* The new slice: array b with slots s.
<1>4. ASSUME NEW b \in Arrays, NEW s \in Slots, Len(s) <= MaxCap, n + 1 <= Len(s),
             \A i \in 1..n : s[i] = mem[a][i],
             s[n + 1] = hand.row,
             b \notin pool, \A w \in Sets \ {u} : set[w].arr # b,
             Becomes(u, TRUE, b, n + 1, uniq), Written([mem EXCEPT ![b] = s])
      PROVE  SetsOK'
  <2> DEFINE r == [open |-> TRUE, arr |-> b, len |-> n + 1, uniq |-> uniq]
             m == [mem EXCEPT ![b] = s]
  <2>1. set' = [set EXCEPT ![u] = r] /\ Written(m)
    BY <1>4 DEF Becomes
  <2>2. b \in Memory /\ b # NoArray
    BY ObjectsAssumption DEF Memory
  <2>3. n + 1 \in 0..MaxCap /\ Len(s) \in Nat
    BY <1>1, <1>4, ObjectsAssumption DEF Slots
  <2>4. uniq \in [Ids -> 0..MaxCap] /\ uniq[new] = n + 1
        /\ \A id \in Ids : id # new => uniq[id] = set[u].uniq[id]
    BY <1>1, <2>3
  <2>5. r \in SetType
    BY <2>2, <2>3, <2>4 DEF SetType
  <2>6. r.open /\ r.arr = b /\ r.len = n + 1 /\ r.uniq = uniq
    OBVIOUS
  <2>7. /\ m \in [Memory -> Slots] /\ m[NoArray] = <<>>
        /\ \A c \in Memory : Len(m[c]) <= MaxCap
        /\ m[b] = s
        /\ \A w \in Sets \ {u} : m[set[w].arr] = mem[set[w].arr]
    BY <1>1, <1>3, <1>4, <2>2 DEF Memory
  <2>8. /\ \A i \in 1..n + 1 : s[i] \in Row /\ s[i][ID] \in Ids /\ uniq[s[i][ID]] = i
        /\ \A id \in Ids : uniq[id] # 0 => uniq[id] \in 1..n + 1 /\ s[uniq[id]][ID] = id
    <3> HIDE DEF n, a, uniq
    <3>1. \A i \in 1..n + 1 : i \in 1..n \/ i = n + 1
      BY <1>1
    <3>2. \A i \in 1..n : s[i][ID] # new
      <4>1. \A i \in 1..n : i # 0
        BY <1>1
      <4> QED
        BY <1>2, <1>4, <4>1 DEF new
    <3>3. ASSUME NEW i \in 1..n
          PROVE  s[i] \in Row /\ s[i][ID] \in Ids /\ uniq[s[i][ID]] = i
      <4>1. s[i] \in Row /\ s[i][ID] \in Ids /\ set[u].uniq[s[i][ID]] = i
        BY <1>2, <1>4
      <4> QED
        BY <2>4, <3>2, <4>1
    <3>4. s[n + 1] \in Row /\ s[n + 1][ID] = new /\ new \in Ids /\ uniq[new] = n + 1
      BY <1>4, <2>4
    <3>5. ASSUME NEW id \in Ids, uniq[id] # 0
          PROVE  uniq[id] \in 1..n + 1 /\ s[uniq[id]][ID] = id
      <4>1. CASE id = new
        BY <1>1, <3>4, <4>1
      <4>2. CASE id # new
        <5>1. uniq[id] \in 1..n /\ mem[a][uniq[id]][ID] = id
          BY <1>2, <2>4, <3>5, <4>2
        <5> QED
          BY <1>1, <1>4, <5>1
      <4> QED
        BY <4>1, <4>2
    <3> QED
      BY <3>1, <3>3, <3>4, <3>5
  <2>9. Fits(r, m)
    <3> HIDE DEF r, m, uniq, n
    <3> QED
      BY <1>4, <2>6, <2>7, <2>8 DEF Fits
  <2>10. /\ r.open <=> r.arr # NoArray
         /\ r.arr \notin pool'
         /\ \A w \in Sets \ {u} : set[w].open => set[w].arr # r.arr /\ set[w].arr \notin pool'
    BY <1>3, <1>4, <2>2, <2>6
  <2>11. pool' \subseteq Arrays
    BY <1>1
  <2> HIDE DEF r, m
  <2> QED
    BY <2>1, <2>5, <2>7, <2>9, <2>10, <2>11, OneSet
<1>5. CASE n < Len(mem[a])
  <2> DEFINE s == [mem[a] EXCEPT ![n + 1] = hand.row]
  <2>1. Becomes(u, TRUE, a, n + 1, uniq) /\ Written([mem EXCEPT ![a] = s])
    BY <1>5 DEF AppendObject
  <2> HIDE DEF n, uniq
  <2>2. mem[a] \in Slots /\ n + 1 \in 1..Len(mem[a])
    BY <1>1, <1>5 DEF Slots
  <2>3. s \in Slots /\ Len(s) = Len(mem[a])
    BY <2>2, ExceptSeq DEF Slots
  <2>4. (\A i \in 1..n : s[i] = mem[a][i]) /\ s[n + 1] = hand.row
    BY <1>1, <2>2 DEF Slots
  <2>5. a \in Arrays /\ Len(s) <= MaxCap /\ n + 1 <= Len(s)
    BY <1>1, <2>2, <2>3 DEF Memory
  <2>6. a \notin pool /\ \A w \in Sets \ {u} : set[w].arr # a
    BY <1>1, <1>3
  <2> HIDE DEF s
  <2> QED
    BY <1>4, <2>1, <2>3, <2>4, <2>5, <2>6
<1>6. CASE ~(n < Len(mem[a]))
  <2>1. PICK b \in Unused, c \in n + 1..MaxCap :
          /\ Becomes(u, TRUE, b, n + 1, uniq)
          /\ Written([mem EXCEPT ![b] = [i \in 1..c |->
                 IF i <= n THEN mem[a][i] ELSE IF i = n + 1 THEN hand.row ELSE NoObject]])
    BY <1>6 DEF AppendObject
  <2> DEFINE s == [i \in 1..c |->
                 IF i <= n THEN mem[a][i] ELSE IF i = n + 1 THEN hand.row ELSE NoObject]
  <2>2. Written([mem EXCEPT ![b] = s]) /\ Becomes(u, TRUE, b, n + 1, uniq)
    BY <2>1
  <2> HIDE DEF n, uniq
  <2>3. c \in Nat /\ n + 1 <= c /\ c <= MaxCap
    BY <1>1, ObjectsAssumption
  <2>4. s \in Slots /\ Len(s) = c
    BY <1>1, <1>2, <2>3 DEF Slots
  <2>5. (\A i \in 1..n : s[i] = mem[a][i]) /\ s[n + 1] = hand.row
    BY <1>1, <2>3
  <2>6. b \in Arrays /\ b \notin pool /\ \A w \in Sets \ {u} : set[w].arr # b
    BY DEF Unused
  <2> HIDE DEF s
  <2> QED
    BY <1>4, <2>2, <2>3, <2>4, <2>5, <2>6
<1> QED
  BY <1>5, <1>6

\* The row of a known id takes its place, with the same id.
LEMMA ReplacePreserves ==
    ASSUME SetsOK, NEW u \in Sets, hand.row \in Row, hand.row[ID] \in Ids,
           set[u].open, set[u].uniq[hand.row[ID]] # 0,
           pool' = pool, UNCHANGED set,
           Written([mem EXCEPT ![set[u].arr] =
               [mem[set[u].arr] EXCEPT ![set[u].uniq[hand.row[ID]]] = hand.row]])
    PROVE  SetsOK'
<1> DEFINE r == set[u]
           a == set[u].arr
           n == set[u].len
           k == set[u].uniq[hand.row[ID]]
           s == [mem[a] EXCEPT ![k] = hand.row]
           m == [mem EXCEPT ![a] = s]
<1>1. /\ a \in Memory /\ a # NoArray /\ n \in 0..Len(mem[a])
      /\ mem \in [Memory -> Slots] /\ mem[NoArray] = <<>>
      /\ \A b \in Memory : Len(mem[b]) <= MaxCap
      /\ pool' \subseteq Arrays
      /\ r \in SetType
  BY DEF SetsOK, SetType, ObjectsInv, Owned, Whole
<1>2. /\ \A i \in 1..n : mem[a][i] \in Row
      /\ \A id \in Ids : r.uniq[id] # 0 =>
            r.uniq[id] \in 1..n /\ mem[a][r.uniq[id]][ID] = id
      /\ \A i \in 1..n : mem[a][i][ID] \in Ids /\ r.uniq[mem[a][i][ID]] = i
      /\ k \in 1..n
  BY DEF SetsOK, ObjectsInv, Whole, Indexed
<1>3. set' = [set EXCEPT ![u] = r] /\ Written(m)
  BY DEF SetsOK
<1>4. /\ r.open <=> r.arr # NoArray
      /\ r.arr \notin pool'
      /\ \A w \in Sets \ {u} : set[w].open => set[w].arr # r.arr /\ set[w].arr \notin pool'
      /\ \A w \in Sets \ {u} : set[w].arr \in Memory /\ set[w].arr # a
  BY <1>1 DEF SetsOK, SetType, ObjectsInv, Owned
<1>5. r.arr = a /\ r.len = n
  OBVIOUS
<1> HIDE DEF r, a, n, k
<1>6. mem[a] \in Slots /\ k \in 1..Len(mem[a]) /\ Len(mem[a]) \in Nat
  BY <1>1, <1>2 DEF Slots
<1>7. s \in Slots /\ Len(s) = Len(mem[a])
  BY <1>6, ExceptSeq DEF Slots
<1>8. s[k] = hand.row /\ \A i \in 1..n : i # k => s[i] = mem[a][i]
  BY <1>1, <1>6 DEF Slots
<1> HIDE DEF s
<1>9. /\ m \in [Memory -> Slots] /\ m[NoArray] = <<>>
      /\ \A b \in Memory : Len(m[b]) <= MaxCap
      /\ m[a] = s
      /\ \A w \in Sets \ {u} : m[set[w].arr] = mem[set[w].arr]
  BY <1>1, <1>4, <1>7 DEF Memory
<1> HIDE DEF m
<1>10. mem[a][k][ID] = hand.row[ID]
  BY <1>2 DEF k, r
<1>11. \A i \in 1..n : s[i] \in Row /\ s[i][ID] = mem[a][i][ID]
  BY <1>2, <1>8, <1>10
<1>12. Fits(r, m)
  <2>1. n <= Len(s)
    BY <1>1, <1>6, <1>7
  <2>2. \A id \in Ids : r.uniq[id] # 0 => r.uniq[id] \in 1..n /\ s[r.uniq[id]][ID] = id
    BY <1>2, <1>11
  <2>3. \A i \in 1..n : s[i] \in Row /\ s[i][ID] \in Ids /\ r.uniq[s[i][ID]] = i
    BY <1>2, <1>11
  <2> QED
    BY <1>5, <1>9, <2>1, <2>2, <2>3 DEF Fits
<1> QED
  BY <1>1, <1>3, <1>4, <1>9, <1>12, OneSet

LEMMA PutObjectPreserves ==
    ASSUME IInv, NEW u \in Sets, PutObject(u)
    PROVE  SetsOK'
<1>1. SetsOK /\ set[u].open /\ pool' = pool
  BY DEF IInv, PutObject
<1>2. hand.row \in Row /\ hand.row[ID] \in Ids
  BY ObjectsAssumption DEF IInv, HandOK, Row, Ids, PutObject
<1>3. CASE set[u].uniq[hand.row[ID]] = 0
  BY <1>1, <1>2, <1>3, AppendObjectPreserves DEF PutObject
<1>4. CASE set[u].uniq[hand.row[ID]] # 0
  BY <1>1, <1>2, <1>4, ReplacePreserves DEF PutObject
<1> QED
  BY <1>3, <1>4

LEMMA PoolDropsPreserves ==
    ASSUME SetsOK, NEW a \in pool, PoolDrops(a)
    PROVE  SetsOK'
<1>1. /\ a \in Memory /\ a \in Arrays
      /\ \A u \in Sets : set[u].arr \in Memory /\ set[u].arr # a
  BY DEF SetsOK, SetType, Memory, ObjectsInv, Owned
<1>2. set' = set /\ pool' = pool \ {a} /\ mem' = [mem EXCEPT ![a] = <<>>]
  BY DEF PoolDrops
<1>3. /\ mem' \in [Memory -> Slots] /\ mem'[NoArray] = <<>>
      /\ \A b \in Memory : Len(mem'[b]) <= MaxCap
      /\ \A u \in Sets : mem'[set[u].arr] = mem[set[u].arr]
  <2>1. <<>> \in Slots /\ Len(<<>>) = 0 /\ 0 <= MaxCap
    BY ObjectsAssumption DEF Slots
  <2> QED
    BY <1>1, <1>2, <2>1, ObjectsAssumption DEF SetsOK
<1>4. Owned'
  BY <1>2 DEF SetsOK, ObjectsInv, Owned
<1>5. Whole' /\ Indexed'
  BY <1>2, <1>3, SetsStay
<1> QED
  BY <1>2, <1>3, <1>4, <1>5 DEF SetsOK, ObjectsInv

-----------------------------------------------------------------------------
(* The calls on the object in hand.                                        *)

LEMMA ColumnsType ==
    ASSUME HandOK
    PROVE  Columns \in Layouts
BY DEF HandOK, Columns

LEMMA MaxIn ==
    ASSUME NEW n \in Nat, NEW S \in SUBSET (1..n), S # {}
    PROVE  Max(S) \in S
<1> DEFINE T == {n - y : y \in S}
<1>1. T \subseteq Nat /\ T # {}
  <2>1. \A y \in S : y \in 1..n /\ n - y \in Nat
    OBVIOUS
  <2> QED
    BY <2>1
<1>2. PICK x \in T : \A y \in T : ~(<<y, x>> \in OpToRel(<, Nat))
  BY <1>1, NatLessThanWellFounded, WFMin
<1>3. \A y \in T : ~(y < x)
  BY <1>1, <1>2 DEF OpToRel
<1>4. PICK z \in S : x = n - z
  OBVIOUS
<1>5. \A y \in S : z >= y
  <2> TAKE y \in S
  <2>1. n - y \in T /\ y \in Nat /\ z \in Nat
    OBVIOUS
  <2>2. ~(n - y < x)
    BY <1>3, <2>1
  <2> HIDE DEF T
  <2> QED
    BY <1>4, <2>1, <2>2
<1> QED
  BY <1>5 DEF Max

\* A row of a result has a value for every field that is filled from it.
LEMMA FilledType ==
    ASSUME NEW row \in Row, NEW cols \in Layouts, NEW r \in [DOMAIN cols -> FieldValues]
    PROVE  Filled(row, cols, r) \in Row
<1>1. cols \in Seq(Fields \cup {Other})
  BY ObjectsAssumption
<1>2. DOMAIN cols = 1..Len(cols) /\ Len(cols) \in Nat
  BY <1>1
<1>3. ASSUME NEW f \in Fields, f \in Range(cols)
      PROVE  r[Max({i \in DOMAIN cols : cols[i] = f})] \in FieldValues
  <2> DEFINE S == {i \in DOMAIN cols : cols[i] = f}
  <2>1. S \in SUBSET (1..Len(cols)) /\ S # {}
    BY <1>2, <1>3 DEF Range
  <2> HIDE DEF S
  <2>2. Max(S) \in S
    BY <1>2, <2>1, MaxIn
  <2>3. Max(S) \in DOMAIN cols
    BY <1>2, <2>1, <2>2
  <2> QED
    BY <2>3 DEF S
<1> QED
  BY <1>3 DEF Filled, Row

LEMMA MergedType ==
    ASSUME NEW row \in Row, NEW t, NEW K
    PROVE  Merged(row, t, K) \in Row
BY ObjectsAssumption DEF Merged, Row

LEMMA HoldsPreserves ==
    ASSUME IInv, NEW row \in Row, Holds(row)
    PROVE  IInv'
<1>1. hand' = [hand EXCEPT !.row = row] /\ UNCHANGED <<query, set, mem, pool>>
  BY DEF Holds
<1>2. HandOK'
  BY <1>1 DEF IInv, HandOK
<1>3. SetsOK'
  BY <1>1, SetsUnchanged DEF IInv
<1> QED
  BY <1>2, <1>3 DEF IInv

LEMMA TakesPreserves ==
    ASSUME IInv, NEW row \in Row, Takes(row)
    PROVE  IInv'
<1>1. /\ hand' = [is |-> TRUE, row |-> row, fds |-> <<>>]
      /\ UNCHANGED <<query, set, mem, pool>>
  BY DEF Takes
<1>2. HandOK'
  BY <1>1 DEF IInv, HandOK
<1>3. SetsOK'
  BY <1>1, SetsUnchanged DEF IInv
<1> QED
  BY <1>2, <1>3 DEF IInv

LEMMA RowScanPreserves ==
    ASSUME IInv, (\E r \in RowsOf(query) : RowScan(r)) \/ RowScanFails \/ \E cols \in Layouts : Query(cols)
    PROVE  IInv'
<1>1. Columns \in Layouts
  BY ColumnsType DEF IInv
<1>2. HandOK'
  <2>1. CASE \E r \in RowsOf(query) : RowScan(r)
    <3>1. PICK r \in RowsOf(query) : RowScan(r)
      BY <2>1
    <3>2. /\ query \in Seq(Fields \cup {Other}) /\ Columns \in Seq(Fields \cup {Other})
          /\ r \in Seq(FieldValues) /\ Len(r) = Len(Columns)
      BY <1>1, <3>1, ObjectsAssumption DEF IInv, HandOK, RowsOf, RowScan
    <3>3. r \in [DOMAIN Columns -> FieldValues]
      BY <3>2
    <3>4. Filled(hand.row, Columns, r) \in Row
      BY <1>1, <3>3, FilledType DEF IInv, HandOK
    <3> QED
      BY <1>1, <3>1, <3>4 DEF IInv, HandOK, RowScan
  <2>2. CASE RowScanFails
    BY <1>1, <2>2 DEF IInv, HandOK, RowScanFails
  <2>3. CASE \E cols \in Layouts : Query(cols)
    BY <2>3 DEF IInv, HandOK, Query, FdsOfNewResult
  <2> QED
    BY <2>1, <2>2, <2>3
<1>3. UNCHANGED <<set, mem, pool>>
  BY DEF RowScan, RowScanFails, Query
<1>4. SetsOK'
  BY <1>3, SetsUnchanged DEF IInv
<1> QED
  BY <1>2, <1>4 DEF IInv

-----------------------------------------------------------------------------
LEMMA InitInvariant == ObjectsInit => IInv
<1> SUFFICES ASSUME ObjectsInit PROVE IInv
  OBVIOUS
<1>1. HandOK
  BY DEF ObjectsInit, HandOK, Nothing, Row
<1>2. /\ \A u \in Sets : set[u] = Closed
      /\ \A b \in Memory : mem[b] = <<>>
      /\ NoArray \in Memory /\ pool = {}
  BY DEF ObjectsInit, Memory
<1>3. Closed \in SetType /\ 0 <= MaxCap
  BY ObjectsAssumption DEF Closed, SetType, NoIndex, Memory
<1>4. <<>> \in Slots /\ Len(<<>>) = 0
  BY DEF Slots
<1>5. /\ set \in [Sets -> SetType] /\ mem \in [Memory -> Slots]
      /\ mem[NoArray] = <<>> /\ \A b \in Memory : Len(mem[b]) <= MaxCap
  BY <1>2, <1>3, <1>4 DEF ObjectsInit
<1>6. Owned
  BY <1>2 DEF Owned, Closed
<1>7. Whole /\ Indexed
  BY <1>2, <1>4 DEF Whole, Indexed, Closed, NoIndex
<1> QED
  BY <1>1, <1>2, <1>5, <1>6, <1>7 DEF IInv, SetsOK, ObjectsInv

LEMMA StepPreserves == IInv /\ [ObjectsNext]_objectVars => IInv'
<1> SUFFICES ASSUME IInv, [ObjectsNext]_objectVars
             PROVE  IInv'
  OBVIOUS
<1>1. CASE UNCHANGED objectVars
  <2>1. HandOK' /\ UNCHANGED <<set, mem, pool>>
    BY <1>1 DEF objectVars, IInv, HandOK
  <2> QED
    BY <2>1, SetsUnchanged DEF IInv
<1>2. hand.row \in Row
  BY DEF IInv, HandOK
<1>3. CASE NewModelObject \/ \E row \in [Fields -> FieldValues] : ModelObjectFrom(row)
  <2>1. [f \in Fields |-> Zero] \in Row /\ [Fields -> FieldValues] \subseteq Row
    BY ObjectsAssumption DEF Row
  <2> QED
    BY <1>3, <2>1, TakesPreserves DEF NewModelObject, ModelObjectFrom
<1>4. CASE Clear \/ \E f \in Fields, x \in FieldValues \cup {Null, Bad} :
                       SetValue(f, x) \/ SetValueByName(f, x)
  <2>1. [f \in Fields |-> Null] \in Row
    BY DEF Row
  <2>2. \A f \in Fields, x \in FieldValues \cup {Null, Bad} : [hand.row EXCEPT ![f] = x] \in Row
    BY <1>2 DEF Row
  <2> QED
    BY <1>4, <2>1, <2>2, HoldsPreserves DEF Clear, SetValue, SetValueByName
<1>5. CASE \E t \in Texts : UnmarshalJSON(t) \/ Scan(t)
  <2>t. PICK t \in Texts : \E K : Holds(Merged(hand.row, t, K))
    BY <1>5 DEF UnmarshalJSON, Scan, ReadJSON, ReadObject
  <2>1. PICK K : Holds(Merged(hand.row, t, K))
    BY <2>t
  <2> DEFINE row == Merged(hand.row, t, K)
  <2>2. row \in Row /\ Holds(row)
    BY <1>2, <2>1, MergedType
  <2> HIDE DEF row
  <2> QED
    BY <2>2, HoldsPreserves
<1>6. CASE \/ RowScanFails \/ \E r \in RowsOf(query) : RowScan(r)
           \/ \E cols \in Layouts : Query(cols)
  BY <1>6, RowScanPreserves
<1>7. CASE \E u \in Sets : NewUniqueObjects(u) \/ PutObject(u) \/ Reset(u) \/ Close(u)
  <2>1. PICK u \in Sets : NewUniqueObjects(u) \/ PutObject(u) \/ Reset(u) \/ Close(u)
    BY <1>7
  <2>2. SetsOK'
    BY <2>1, NewUniqueObjectsPreserves, PutObjectPreserves, ResetPreserves, ClosePreserves
       DEF IInv
  <2>3. query' = query /\ hand' \in {hand, Nothing}
    BY <2>1 DEF NewUniqueObjects, PutObject, Reset, Close
  <2>4. HandOK'
    <3>1. CASE hand' = hand
      BY <2>3, <3>1 DEF IInv, HandOK
    <3>2. CASE hand' = Nothing
      BY <2>3, <3>2 DEF IInv, HandOK, Nothing, Row
    <3> QED
      BY <2>3, <3>1, <3>2
  <2> QED
    BY <2>2, <2>4 DEF IInv
<1>8. CASE \E a \in pool : PoolDrops(a)
  <2>1. SetsOK'
    BY <1>8, PoolDropsPreserves DEF IInv
  <2>2. HandOK'
    BY <1>8 DEF PoolDrops, IInv, HandOK
  <2> QED
    BY <2>1, <2>2 DEF IInv
<1> QED
  BY <1>1, <1>3, <1>4, <1>5, <1>6, <1>7, <1>8 DEF ObjectsNext

(***************************************************************************)
(* For any model, any number of sets and any bounds, after any sequence of *)
(* calls and whatever the pool keeps or forgets: the index of a set leads  *)
(* to the row with the id and to no other, and no slice is in two sets, or *)
(* in a set and in the pool.                                               *)
(***************************************************************************)
THEOREM InvHolds == ObjectsSpec => []ObjectsInv
<1>1. IInv => ObjectsInv
  BY DEF IInv, SetsOK
<1> QED
  BY <1>1, InitInvariant, StepPreserves, PTL DEF ObjectsSpec

\* The variables hold values of their kinds.
THEOREM TypeCorrect == ObjectsSpec => []ObjectsTypeOK
<1>1. IInv => ObjectsTypeOK
  BY DEF IInv, HandOK, SetsOK, SetType, Slots, ObjectsTypeOK
<1> QED
  BY <1>1, InitInvariant, StepPreserves, PTL DEF ObjectsSpec

-----------------------------------------------------------------------------
(***************************************************************************)
(* The sets implement ObjectSets: the content of a set are its rows, which *)
(* its own calls change, as the abstract calls do.                         *)
(***************************************************************************)

\* What a set with record r and the slots s shows.
Seen(r, s) == [open |-> r.open, rows |-> [i \in 1..r.len |-> s[i]]]

Content == [u \in Sets |-> Seen(set[u], mem[set[u].arr])]

\* A call that gives set u the record r, in memory m.
LEMMA ContentStep ==
    ASSUME SetsOK, SetsOK', NEW u \in Sets, NEW r, NEW m,
           set' = [set EXCEPT ![u] = r], Written(m),
           \A w \in Sets \ {u} : m[set[w].arr] = mem[set[w].arr]
    PROVE  Content' = [Content EXCEPT ![u] = Seen(r, m[r.arr])]
<1>1. set'[u] = r /\ \A w \in Sets \ {u} : set'[w] = set[w]
  BY DEF SetsOK
<1>2. \A w \in Sets : set'[w].arr \in Memory /\ set'[w].arr \notin pool'
  BY DEF SetsOK, SetType, ObjectsInv, Owned
<1>3. \A w \in Sets : mem'[set'[w].arr] = m[set'[w].arr]
  BY <1>2 DEF Written
<1>4. Seen(set'[u], mem'[set'[u].arr]) = Seen(r, m[r.arr])
  BY <1>1, <1>3
<1>5. \A w \in Sets \ {u} :
         Seen(set'[w], mem'[set'[w].arr]) = Seen(set[w], mem[set[w].arr])
  BY <1>1, <1>3
<1> QED
  BY <1>4, <1>5 DEF Content

\* The calls of ObjectSets, said of the new content of set u.
LEMMA AbstractCall ==
    ASSUME NEW u \in Sets, NEW open \in BOOLEAN, NEW new,
           Content' = [Content EXCEPT ![u] = [open |-> open, rows |-> new]],
           \/ new = <<>> /\ (Content[u].open \/ open)
           \/ /\ open /\ Content[u].open
              /\ \E i \in DOMAIN new :
                    /\ new[i] \in Row
                    /\ \/ /\ \A j \in DOMAIN Content[u].rows : Content[u].rows[j][ID] # new[i][ID]
                          /\ new = Append(Content[u].rows, new[i])
                       \/ /\ i \in DOMAIN Content[u].rows
                          /\ Content[u].rows[i][ID] = new[i][ID]
                          /\ new = [Content[u].rows EXCEPT ![i] = new[i]]
    PROVE  Abstract!Next
<1>1. /\ Content = [w \in Sets |-> [open |-> set[w].open,
                                   rows |-> [i \in 1..set[w].len |-> mem[set[w].arr][i]]]]
      /\ Content' = [w \in Sets |-> [open |-> set[w].open,
                                   rows |-> [i \in 1..set[w].len |-> mem[set[w].arr][i]]]]'
  BY DEF Content, Seen
<1>2. Abstract!Becomes(u, open, new)
  BY <1>1 DEF Abstract!Becomes
<1>3. Content'[u].rows = new
  <2>1. DOMAIN Content = Sets
    BY DEF Content
  <2>2. PICK d : d = [open |-> open, rows |-> new]
    OBVIOUS
  <2>3. Content'[u] = d /\ d.rows = new
    BY <2>1, <2>2
  <2> QED
    BY <2>3
<1>4. CASE new = <<>> /\ ~Content[u].open /\ open
  BY <1>1, <1>2, <1>4 DEF Abstract!Next, Abstract!New
<1>5. CASE new = <<>> /\ Content[u].open /\ open
  BY <1>1, <1>2, <1>5 DEF Abstract!Next, Abstract!Reset
<1>6. CASE new = <<>> /\ Content[u].open /\ ~open
  BY <1>1, <1>2, <1>6 DEF Abstract!Next, Abstract!Close
<1>7. ASSUME open, Content[u].open, NEW i \in DOMAIN new, new[i] \in Row,
             \/ /\ \A j \in DOMAIN Content[u].rows : Content[u].rows[j][ID] # new[i][ID]
                /\ new = Append(Content[u].rows, new[i])
             \/ /\ i \in DOMAIN Content[u].rows
                /\ Content[u].rows[i][ID] = new[i][ID]
                /\ new = [Content[u].rows EXCEPT ![i] = new[i]]
      PROVE  Abstract!Next
  <2> DEFINE K == [w \in Sets |-> [open |-> set[w].open,
                                   rows |-> [j \in 1..set[w].len |-> mem[set[w].arr][j]]]]
  <2>1. K[u].open /\ Content[u].rows = K[u].rows /\ new = K'[u].rows
    BY <1>1, <1>3, <1>7
  <2>2. Abstract!OneRowPut(K[u].rows, K'[u].rows)
    <3> HIDE DEF K
    <3>1. Abstract!OneRowPut(Content[u].rows, new)
      BY <1>7 DEF Abstract!OneRowPut
    <3> QED
      BY <2>1, <3>1
  <2>3. K' = [K EXCEPT ![u] = [open |-> TRUE, rows |-> K'[u].rows]]
    <3>1. Content = K /\ Content' = K' /\ open = TRUE
      BY <1>1, <1>7
    <3> HIDE DEF K
    <3> QED
      BY <2>1, <3>1
  <2>4. Abstract!Put(u)
    BY <2>1, <2>2, <2>3 DEF Abstract!Put, Abstract!Becomes
  <2> QED
    BY <2>4 DEF Abstract!Next
<1> QED
  BY <1>4, <1>5, <1>6, <1>7

\* A call that leaves a set without rows.
LEMMA EmptyContent ==
    ASSUME SetsOK, SetsOK', NEW u \in Sets, NEW open \in BOOLEAN, NEW a, NEW m,
           Becomes(u, open, a, 0, NoIndex), Written(m),
           \A w \in Sets \ {u} : m[set[w].arr] = mem[set[w].arr],
           set[u].open \/ open
    PROVE  Abstract!Next
<1> DEFINE r == [open |-> open, arr |-> a, len |-> 0, uniq |-> NoIndex]
<1>1. set' = [set EXCEPT ![u] = r]
  BY DEF Becomes
<1>2. Seen(r, m[r.arr]) = [open |-> open, rows |-> <<>>]
  BY DEF Seen
<1> HIDE DEF r
<1>3. Content' = [Content EXCEPT ![u] = [open |-> open, rows |-> <<>>]]
  BY <1>1, <1>2, ContentStep
<1>4. Content[u].open = set[u].open
  BY DEF Content, Seen
<1> QED
  BY <1>3, <1>4, AbstractCall

LEMMA NewUniqueObjectsContent ==
    ASSUME SetsOK, SetsOK', NEW u \in Sets, NewUniqueObjects(u)
    PROVE  Abstract!Next
<1>1. CASE \E a \in pool : Becomes(u, TRUE, a, 0, NoIndex) /\ Written(mem)
  BY <1>1, EmptyContent
<1>2. CASE \E a \in Unused : /\ Becomes(u, TRUE, a, 0, NoIndex)
                             /\ Written([mem EXCEPT ![a] = Empty(InitCap)])
  <2>1. PICK a \in Unused : /\ Becomes(u, TRUE, a, 0, NoIndex)
                            /\ Written([mem EXCEPT ![a] = Empty(InitCap)])
    BY <1>2
  <2> DEFINE m == [mem EXCEPT ![a] = Empty(InitCap)]
  <2>2. \A w \in Sets \ {u} : m[set[w].arr] = mem[set[w].arr]
    BY DEF Unused, SetsOK, SetType
  <2>3. Written(m)
    BY <2>1
  <2> HIDE DEF m
  <2> QED
    BY <2>1, <2>2, <2>3, EmptyContent
<1> QED
  BY <1>1, <1>2 DEF NewUniqueObjects

LEMMA ResetContent ==
    ASSUME SetsOK, SetsOK', NEW u \in Sets, Reset(u)
    PROVE  Abstract!Next
<1> DEFINE a == set[u].arr
           s == [i \in 1..Len(mem[a]) |-> IF i <= set[u].len THEN NoObject ELSE mem[a][i]]
           m == [mem EXCEPT ![a] = s]
<1>1. set[u].open /\ Becomes(u, TRUE, a, 0, NoIndex) /\ Written(m)
  BY DEF Reset
<1>2. \A w \in Sets \ {u} : set[w].arr # a /\ set[w].arr \in Memory
  BY <1>1 DEF SetsOK, SetType, ObjectsInv, Owned
<1> HIDE DEF a, s
<1>3. \A w \in Sets \ {u} : m[set[w].arr] = mem[set[w].arr]
  BY <1>2 DEF SetsOK
<1> HIDE DEF m
<1> QED
  BY <1>1, <1>3, EmptyContent

LEMMA CloseContent ==
    ASSUME SetsOK, SetsOK', NEW u \in Sets, Close(u)
    PROVE  Abstract!Next
BY EmptyContent DEF Close

\* The rows of an open set, as ObjectSets sees them.
LEMMA RowsSeen ==
    ASSUME SetsOK, NEW u \in Sets, set[u].open
    PROVE  /\ Content[u].open
           /\ DOMAIN Content[u].rows = 1..set[u].len /\ set[u].len \in Nat
           /\ \A i \in 1..set[u].len : Content[u].rows[i] = mem[set[u].arr][i]
           /\ Content[u].rows \in Seq(Row) /\ Len(Content[u].rows) = set[u].len
<1> DEFINE n == set[u].len
           old == [i \in 1..n |-> mem[set[u].arr][i]]
<1>1. n \in Nat /\ \A i \in 1..n : mem[set[u].arr][i] \in Row
  BY DEF SetsOK, SetType, ObjectsInv, Whole
<1>2. Content[u] = [open |-> set[u].open, rows |-> old]
  BY DEF Content, Seen
<1> HIDE DEF n
<1>3. old \in Seq(Row) /\ Len(old) = n /\ DOMAIN old = 1..n
  BY <1>1
<1>4. \A i \in 1..n : old[i] = mem[set[u].arr][i]
  OBVIOUS
<1> HIDE DEF old
<1>5. Content[u].rows = old /\ Content[u].open
  BY <1>2
<1> QED
  BY <1>1, <1>3, <1>4, <1>5 DEF n

LEMMA IndexLeads ==
    ASSUME SetsOK, NEW u \in Sets
    PROVE  /\ \A id \in Ids : set[u].uniq[id] # 0 =>
                 set[u].uniq[id] \in 1..set[u].len /\ mem[set[u].arr][set[u].uniq[id]][ID] = id
           /\ \A i \in 1..set[u].len : set[u].uniq[mem[set[u].arr][i][ID]] = i
BY DEF SetsOK, ObjectsInv, Indexed

LEMMA ArraysApart ==
    ASSUME SetsOK, NEW u \in Sets, set[u].open
    PROVE  /\ set[u].arr \in Memory
           /\ set[u].len \in 0..Len(mem[set[u].arr]) /\ mem \in [Memory -> Slots]
           /\ \A w \in Sets \ {u} : set[w].arr # set[u].arr /\ set[w].arr \in Memory
BY DEF SetsOK, SetType, ObjectsInv, Owned, Whole

\* The row comes behind the others, in array b with slots s.
LEMMA AppendedContent ==
    ASSUME SetsOK, SetsOK', NEW u \in Sets, hand.row \in Row, hand.row[ID] \in Ids,
           set[u].open, set[u].uniq[hand.row[ID]] = 0,
           NEW b, NEW s, NEW uniq,
           Becomes(u, TRUE, b, set[u].len + 1, uniq), Written([mem EXCEPT ![b] = s]),
           b \in Memory, \A w \in Sets \ {u} : set[w].arr # b,
           \A i \in 1..set[u].len : s[i] = mem[set[u].arr][i],
           s[set[u].len + 1] = hand.row
    PROVE  Abstract!Next
<1> DEFINE n == set[u].len
           r == [open |-> TRUE, arr |-> b, len |-> n + 1, uniq |-> uniq]
           m == [mem EXCEPT ![b] = s]
           old == Content[u].rows
           new == [i \in 1..n + 1 |-> s[i]]
<1>1. set' = [set EXCEPT ![u] = r] /\ Written(m)
  BY DEF Becomes
<1>2. m[b] = s /\ \A w \in Sets \ {u} : m[set[w].arr] = mem[set[w].arr]
  BY DEF SetsOK, SetType
<1>3. Seen(r, s) = [open |-> TRUE, rows |-> new] /\ r.arr = b
  BY DEF Seen
<1> HIDE DEF r, m
<1>4. Content' = [Content EXCEPT ![u] = [open |-> TRUE, rows |-> new]]
  <2> HIDE DEF new
  <2>1. Content' = [Content EXCEPT ![u] = Seen(r, m[r.arr])]
    BY <1>1, <1>2, ContentStep
  <2>2. m[r.arr] = s
    BY <1>2, <1>3
  <2> QED
    BY <1>3, <2>1, <2>2
<1>5. /\ Content[u].open /\ n \in Nat /\ DOMAIN old = 1..n
      /\ \A i \in 1..n : old[i] = mem[set[u].arr][i]
      /\ old \in Seq(Row) /\ Len(old) = n
  BY RowsSeen
<1>6. \A i \in 1..n : old[i][ID] # hand.row[ID]
  <2> SUFFICES ASSUME NEW i \in 1..n, old[i][ID] = hand.row[ID]
               PROVE  FALSE
    OBVIOUS
  <2>1. set[u].uniq[mem[set[u].arr][i][ID]] = i
    BY IndexLeads
  <2>2. mem[set[u].arr][i][ID] = hand.row[ID]
    BY <1>5
  <2>3. set[u].uniq[hand.row[ID]] = i
    BY <2>1, <2>2
  <2> HIDE DEF old, n
  <2>4. i # 0
    BY <1>5
  <2> QED
    BY <2>3, <2>4
<1>7. \A i \in 1..n : s[i] = old[i]
  BY <1>5
<1> HIDE DEF old, n
<1>8. s[n + 1] = hand.row
  BY DEF n
<1>9. n + 1 \in DOMAIN new /\ new[n + 1] = hand.row
  BY <1>5, <1>8
<1>10. new = Append(old, hand.row)
  BY <1>5, <1>7, <1>8
<1> HIDE DEF new
<1>11. /\ new[n + 1] \in Row
       /\ \A j \in DOMAIN old : old[j][ID] # new[n + 1][ID]
       /\ new = Append(old, new[n + 1])
  BY <1>5, <1>6, <1>9, <1>10
<1> QED
  BY <1>4, <1>5, <1>9, <1>11, AbstractCall DEF old

LEMMA AppendObjectContent ==
    ASSUME SetsOK, SetsOK', NEW u \in Sets, hand.row \in Row, hand.row[ID] \in Ids,
           set[u].open, set[u].uniq[hand.row[ID]] = 0, AppendObject(u)
    PROVE  Abstract!Next
<1> DEFINE n == set[u].len
           a == set[u].arr
           uniq == [set[u].uniq EXCEPT ![hand.row[ID]] = n + 1]
<1>1. /\ a \in Memory /\ n \in 0..Len(mem[a]) /\ mem \in [Memory -> Slots]
      /\ \A w \in Sets \ {u} : set[w].arr # a
  BY ArraysApart
<1>2. CASE n < Len(mem[a])
  <2> DEFINE s == [mem[a] EXCEPT ![n + 1] = hand.row]
  <2>1. Becomes(u, TRUE, a, n + 1, uniq) /\ Written([mem EXCEPT ![a] = s])
    BY <1>2 DEF AppendObject
  <2> HIDE DEF n, uniq
  <2>2. mem[a] \in Slots /\ n + 1 \in 1..Len(mem[a]) /\ n \in Nat
    BY <1>1, <1>2 DEF Slots
  <2>3. (\A i \in 1..n : s[i] = mem[a][i]) /\ s[n + 1] = hand.row
    BY <2>2 DEF Slots
  <2> HIDE DEF s
  <2> QED
    BY <1>1, <2>1, <2>3, AppendedContent DEF n
<1>3. CASE ~(n < Len(mem[a]))
  <2>1. PICK b \in Unused, c \in n + 1..MaxCap :
          /\ Becomes(u, TRUE, b, n + 1, uniq)
          /\ Written([mem EXCEPT ![b] = [i \in 1..c |->
                 IF i <= n THEN mem[a][i] ELSE IF i = n + 1 THEN hand.row ELSE NoObject]])
    BY <1>3 DEF AppendObject
  <2> DEFINE s == [i \in 1..c |->
                 IF i <= n THEN mem[a][i] ELSE IF i = n + 1 THEN hand.row ELSE NoObject]
  <2>2. Written([mem EXCEPT ![b] = s]) /\ Becomes(u, TRUE, b, n + 1, uniq)
    BY <2>1
  <2>3. b \in Memory /\ \A w \in Sets \ {u} : set[w].arr # b
    BY DEF Unused, Memory
  <2> HIDE DEF n, uniq
  <2>4. n \in Nat /\ c \in Nat /\ n + 1 <= c
    <3>1. n \in Nat
      BY <1>1 DEF Slots
    <3> QED
      BY <3>1, ObjectsAssumption
  <2>5. (\A i \in 1..n : s[i] = mem[a][i]) /\ s[n + 1] = hand.row
    BY <2>4
  <2> HIDE DEF s
  <2> QED
    BY <2>2, <2>3, <2>5, AppendedContent DEF n
<1> QED
  BY <1>2, <1>3

LEMMA ReplacedContent ==
    ASSUME SetsOK, SetsOK', NEW u \in Sets, hand.row \in Row, hand.row[ID] \in Ids,
           set[u].open, set[u].uniq[hand.row[ID]] # 0,
           NEW r, r = set[u], set' = [set EXCEPT ![u] = r],
           Written([mem EXCEPT ![set[u].arr] =
               [mem[set[u].arr] EXCEPT ![set[u].uniq[hand.row[ID]]] = hand.row]])
    PROVE  Abstract!Next
<1> DEFINE a == set[u].arr
           n == set[u].len
           k == set[u].uniq[hand.row[ID]]
           s == [mem[a] EXCEPT ![k] = hand.row]
           m == [mem EXCEPT ![a] = s]
           old == Content[u].rows
           new == [old EXCEPT ![k] = hand.row]
<1>1. /\ Content[u].open /\ n \in Nat /\ DOMAIN old = 1..n
      /\ \A i \in 1..n : old[i] = mem[a][i]
  BY RowsSeen
<1>2. /\ a \in Memory /\ n \in 0..Len(mem[a]) /\ mem \in [Memory -> Slots]
      /\ \A w \in Sets \ {u} : set[w].arr # a /\ set[w].arr \in Memory
  BY ArraysApart
<1>3. k \in 1..n /\ mem[a][k][ID] = hand.row[ID]
  BY IndexLeads
<1>4. r.arr = a /\ Seen(r, s) = [open |-> set[u].open, rows |-> [i \in 1..n |-> s[i]]]
  BY DEF Seen
<1>5. set[u].open = TRUE /\ Written(m)
  BY DEF SetsOK, SetType
<1> HIDE DEF a, n, k, old
<1>6. mem[a] \in Slots /\ k \in 1..Len(mem[a]) /\ Len(mem[a]) \in Nat
  BY <1>1, <1>2, <1>3 DEF Slots
<1>7. s[k] = hand.row /\ \A i \in 1..n : i # k => s[i] = mem[a][i]
  BY <1>1, <1>2, <1>6 DEF Slots
<1>8. m[a] = s /\ \A w \in Sets \ {u} : m[set[w].arr] = mem[set[w].arr]
  BY <1>2
<1> HIDE DEF s, m
<1>9. [i \in 1..n |-> s[i]] = new
  <2>1. DOMAIN new = 1..n /\ \A i \in 1..n : new[i] = s[i]
    BY <1>1, <1>3, <1>7
  <2>2. new = [i \in 1..n |-> new[i]]
    BY <1>1
  <2> HIDE DEF new
  <2> QED
    BY <2>1, <2>2
<1>10. new[k] = hand.row /\ k \in DOMAIN new
  BY <1>1, <1>3
<1>11. Content' = [Content EXCEPT ![u] = [open |-> TRUE, rows |-> new]]
  <2>1. Content' = [Content EXCEPT ![u] = Seen(r, m[r.arr])]
    BY <1>5, <1>8, ContentStep
  <2> HIDE DEF new
  <2> QED
    BY <1>4, <1>5, <1>8, <1>9, <2>1
<1>12. /\ new[k] \in Row
       /\ k \in DOMAIN old /\ old[k][ID] = new[k][ID]
       /\ new = [old EXCEPT ![k] = new[k]]
  BY <1>1, <1>3, <1>10
<1> HIDE DEF new
<1> QED
  BY <1>1, <1>10, <1>11, <1>12, AbstractCall DEF old

LEMMA PutObjectContent ==
    ASSUME IInv, SetsOK', NEW u \in Sets, PutObject(u)
    PROVE  Abstract!Next
<1>1. SetsOK /\ set[u].open
  BY DEF IInv, PutObject
<1>2. hand.row \in Row /\ hand.row[ID] \in Ids
  BY ObjectsAssumption DEF IInv, HandOK, Row, Ids, PutObject
<1>3. CASE set[u].uniq[hand.row[ID]] = 0
  BY <1>1, <1>2, <1>3, AppendObjectContent DEF PutObject
<1>4. CASE set[u].uniq[hand.row[ID]] # 0
  <2>1. set = [set EXCEPT ![u] = set[u]]
    BY <1>1 DEF SetsOK
  <2>2. set' = set
    BY <1>4 DEF PutObject
  <2>3. set' = [set EXCEPT ![u] = set[u]]
    BY <2>1, <2>2
  <2>4. Written([mem EXCEPT ![set[u].arr] =
               [mem[set[u].arr] EXCEPT ![set[u].uniq[hand.row[ID]]] = hand.row]])
    BY <1>4 DEF PutObject
  <2> QED
    BY <1>1, <1>2, <1>4, <2>3, <2>4, ReplacedContent
<1> QED
  BY <1>3, <1>4

\* sync.Pool drops no array of a set.
LEMMA PoolDropsContent ==
    ASSUME SetsOK, NEW a \in pool, PoolDrops(a)
    PROVE  Content' = Content
<1>1. set' = set /\ \A u \in Sets : mem'[set[u].arr] = mem[set[u].arr]
  BY DEF PoolDrops, SetsOK, SetType, ObjectsInv, Owned
<1>2. \A u \in Sets : Seen(set'[u], mem'[set'[u].arr]) = Seen(set[u], mem[set[u].arr])
  BY <1>1
<1> QED
  BY <1>2 DEF Content

LEMMA StepImplements == IInv /\ [ObjectsNext]_objectVars => Abstract!Next \/ Content' = Content
<1> SUFFICES ASSUME IInv, [ObjectsNext]_objectVars
             PROVE  Abstract!Next \/ Content' = Content
  OBVIOUS
<1>1. SetsOK /\ SetsOK'
  BY StepPreserves DEF IInv
<1>2. CASE UNCHANGED <<set, mem>>
  BY <1>2 DEF Content
<1>3. CASE \E u \in Sets : NewUniqueObjects(u) \/ PutObject(u) \/ Reset(u) \/ Close(u)
  BY <1>1, <1>3, NewUniqueObjectsContent, PutObjectContent, ResetContent, CloseContent
<1>4. CASE \E a \in pool : PoolDrops(a)
  BY <1>1, <1>4, PoolDropsContent
<1>5. CASE UNCHANGED objectVars
  BY <1>2, <1>5 DEF objectVars
<1>6. CASE \/ NewModelObject \/ Clear \/ RowScanFails
           \/ \E row \in [Fields -> FieldValues] : ModelObjectFrom(row)
           \/ \E f \in Fields, x \in FieldValues \cup {Null, Bad} :
                 SetValue(f, x) \/ SetValueByName(f, x)
           \/ \E t \in Texts : UnmarshalJSON(t) \/ Scan(t)
           \/ \E cols \in Layouts : Query(cols)
           \/ \E r \in RowsOf(query) : RowScan(r)
  BY <1>2, <1>6 DEF NewModelObject, ModelObjectFrom, Takes, SetValue, SetValueByName, Clear,
                    UnmarshalJSON, Scan, Holds, Query, RowScan, RowScanFails
<1> QED
  BY <1>3, <1>4, <1>5, <1>6 DEF ObjectsNext

(***************************************************************************)
(* Slices from a pool, written in place or copied, with an index beside    *)
(* them, implement sets that have one row for an id, in the order of their *)
(* first PutObject, for any model, any number of sets and whatever the     *)
(* pool does: no call changes a set but its own.                           *)
(***************************************************************************)
THEOREM ObjectSetsImplemented == ObjectsSpec => ImplementsObjectSets
<1>1. ObjectsInit => Abstract!Init
  <2> SUFFICES ASSUME ObjectsInit PROVE Abstract!Init
    OBVIOUS
  <2>1. \A u \in Sets : set[u].open = FALSE /\ set[u].len = 0
    BY DEF ObjectsInit, Closed
  <2>2. \A u \in Sets : [i \in 1..set[u].len |-> mem[set[u].arr][i]] = <<>>
    BY <2>1
  <2> QED
    BY <2>1, <2>2 DEF Abstract!Init
<1>2. Content' = Content =>
        UNCHANGED [u \in Sets |->
                     [open |-> set[u].open,
                      rows |-> [i \in 1..set[u].len |-> mem[set[u].arr][i]]]]
  BY DEF Content, Seen
<1>3. IInv /\ [ObjectsNext]_objectVars =>
        [Abstract!Next]_[u \in Sets |->
                     [open |-> set[u].open,
                      rows |-> [i \in 1..set[u].len |-> mem[set[u].arr][i]]]]
  BY <1>2, StepImplements
<1> QED
  BY <1>1, <1>3, InitInvariant, StepPreserves, PTL DEF ObjectsSpec, ImplementsObjectSets, Abstract!Spec

-----------------------------------------------------------------------------
(* What an object sends, and the rows that it reads.                       *)

\* What a new object reads of the fields F of a row, where zero ones may be
\* left out.
LEMMA RestrictArrives ==
    ASSUME NEW row \in Row, NEW F \in SUBSET Fields, NEW S \in SUBSET F,
           \A f \in F \ S : row[f] = Zero,
           NEW K \in Taken(Restrict(row, S), F)
    PROVE  Arrives(row, F, Merged([f \in Fields |-> Zero], Restrict(row, S), K))
<1> DEFINE t == Restrict(row, S)
<1>1. DOMAIN t = S /\ \A f \in S : t[f] = row[f]
  BY DEF Restrict
<1>2. /\ \A f \in Fields : row[f] \in FieldValues \cup {Null, Bad}
      /\ Null \notin FieldValues /\ Zero \in FieldValues
      /\ Bad \notin FieldValues /\ Bad # Null /\ Zero # Null /\ Zero # Bad
  BY ObjectsAssumption DEF Row
<1> DEFINE got == Merged([f \in Fields |-> Zero], t, K)
<1>3. \A f \in Fields : got[f] = IF f \in K /\ t[f] \in FieldValues THEN t[f] ELSE Zero
  BY DEF Merged
<1>4. CASE \A f \in F : row[f] # Bad
  <2>1. K = S
    BY <1>1, <1>4 DEF Taken
  <2> HIDE DEF t, got
  <2>2. \A f \in F : got[f] = IF row[f] = Null THEN Zero ELSE row[f]
    BY <1>1, <1>2, <1>3, <1>4, <2>1
  <2> QED
    BY <1>4, <2>2 DEF Arrives, got, t
<1>5. CASE ~\A f \in F : row[f] # Bad
  <2>1. K \subseteq S
    BY <1>1 DEF Taken
  <2> HIDE DEF t, got
  <2>2. \A f \in F : got[f] = Zero \/ (got[f] = row[f] /\ row[f] \in FieldValues)
    BY <1>1, <1>3, <2>1
  <2> QED
    BY <1>5, <2>2 DEF Arrives, got, t
<1> QED
  BY <1>4, <1>5

(***************************************************************************)
(* Whatever filled an object, a new one has its fields after it read the   *)
(* JSON that MarshalJSON wrote, those left out as zero included, or the    *)
(* object that Value wrote, as far as their values are of the fields'      *)
(* types; a value of another type (SetValueByName) never arrives, and none *)
(* arrives in a field that is not its own.                                 *)
(***************************************************************************)
THEOREM SentArrives == ObjectsSpec => []WhatIsSentArrives
<1>1. IInv => WhatIsSentArrives
  <2> SUFFICES ASSUME IInv PROVE WhatIsSentArrives
    OBVIOUS
  <2> DEFINE new == [f \in Fields |-> Zero]
             S == JsonFields \ {f \in OmitEmpty : hand.row[f] = Zero}
  <2>1. hand.row \in Row
    BY DEF IInv, HandOK
  <2>2. ASSUME NEW text \in MarshalJSON(hand.row), NEW got \in ReadJSON(new, text)
        PROVE  Arrives(hand.row, JsonFields, got)
    <3>1. JsonFields \in SUBSET Fields /\ S \in SUBSET JsonFields
          /\ \A f \in JsonFields \ S : hand.row[f] = Zero
      BY ObjectsAssumption
    <3>2. text = Restrict(hand.row, S)
      BY DEF MarshalJSON
    <3>3. PICK K \in Taken(text, JsonFields) : got = Merged(new, text, K)
      BY DEF ReadJSON
    <3> HIDE DEF S
    <3> QED
      BY <2>1, <3>1, <3>2, <3>3, RestrictArrives
  <2>3. \A got \in ReadObject(new, DBData(hand.row)) : Arrives(hand.row, Stored, got)
    <3>1. Stored \in SUBSET Fields /\ Stored \in SUBSET Stored /\ Stored \ Stored = {}
      BY ObjectsAssumption
    <3>2. ReadObject(new, DBData(hand.row)) =
            {Merged(new, Restrict(hand.row, Stored), K) : K \in Taken(Restrict(hand.row, Stored), Stored)}
      BY DEF ReadObject, DBData
    <3> QED
      BY <2>1, <3>1, <3>2, RestrictArrives
  <2> QED
    BY <2>2, <2>3 DEF WhatIsSentArrives
<1> QED
  BY <1>1, InitInvariant, StepPreserves, PTL DEF ObjectsSpec

\* The columns that are kept are those of the result that is read.
ColumnsKept == hand.fds \in {<<>>, query}

LEMMA ColumnsStayTrue == IInv /\ ColumnsKept /\ [ObjectsNext]_objectVars => ColumnsKept'
<1> SUFFICES ASSUME IInv, ColumnsKept, [ObjectsNext]_objectVars
             PROVE  ColumnsKept'
  OBVIOUS
<1>1. CASE hand' = hand /\ query' = query
  BY <1>1 DEF ColumnsKept
<1>2. CASE \/ NewModelObject \/ \E row \in [Fields -> FieldValues] : ModelObjectFrom(row)
           \/ \E cols \in Layouts : Query(cols)
           \/ \E u \in Sets : PutObject(u)
  <2>1. hand'.fds = <<>>
    <3>1. CASE \E cols \in Layouts : Query(cols)
      BY <3>1 DEF Query, FdsOfNewResult, IInv, HandOK
    <3>2. CASE NewModelObject \/ \E row \in [Fields -> FieldValues] : ModelObjectFrom(row)
      BY <3>2 DEF NewModelObject, ModelObjectFrom, Takes
    <3>3. CASE \E u \in Sets : PutObject(u)
      BY <3>3 DEF PutObject, Nothing
    <3> QED
      BY <1>2, <3>1, <3>2, <3>3
  <2> QED
    BY <2>1 DEF ColumnsKept
<1>3. CASE \/ Clear
           \/ \E f \in Fields, x \in FieldValues \cup {Null, Bad} :
                 SetValue(f, x) \/ SetValueByName(f, x)
           \/ \E t \in Texts : UnmarshalJSON(t) \/ Scan(t)
  <2>1. \E row : Holds(row)
    BY <1>3 DEF Clear, SetValue, SetValueByName, UnmarshalJSON, Scan
  <2> QED
    BY <2>1 DEF Holds, ColumnsKept
<1>4. CASE RowScanFails \/ \E r \in RowsOf(query) : RowScan(r)
  <2>1. Columns = query
    BY DEF Columns, ColumnsKept
  <2>2. CASE RowScanFails
    <3>1. hand' = [hand EXCEPT !.fds = query]
      BY <2>1, <2>2 DEF RowScanFails
    <3>2. query' = query
      BY <2>2 DEF RowScanFails
    <3>3. hand'.fds = query
      BY <3>1 DEF IInv, HandOK
    <3> QED
      BY <3>2, <3>3 DEF ColumnsKept
  <2>3. CASE \E r \in RowsOf(query) : RowScan(r)
    <3>1. hand'.fds = query
      BY <2>1, <2>3 DEF RowScan
    <3> QED
      BY <2>3, <3>1 DEF RowScan, ColumnsKept
  <2> QED
    BY <1>4, <2>2, <2>3
<1> QED
  BY <1>1, <1>2, <1>3, <1>4 DEF ObjectsNext, objectVars, NewUniqueObjects, Reset, Close, PoolDrops

(***************************************************************************)
(* The columns that an object keeps over the rows of a result never serve  *)
(* another result: each value gets into the field of its column.           *)
(***************************************************************************)
THEOREM RowInPlaceHolds == ObjectsSpec => RowInPlace
<1>1. ObjectsInit => ColumnsKept
  BY DEF ObjectsInit, Nothing, ColumnsKept
<1>2. ColumnsKept /\ [ObjectsNext]_objectVars =>
        [hand'.fds # <<>> => \A r \in RowsOf(query) :
            RowScan(r) => hand'.row = Filled(hand.row, query, r)]_objectVars
  <2> SUFFICES ASSUME ColumnsKept, NEW r \in RowsOf(query), RowScan(r)
               PROVE  hand'.row = Filled(hand.row, query, r)
    OBVIOUS
  <2>1. Columns = query
    BY DEF Columns, ColumnsKept
  <2> QED
    BY <2>1 DEF RowScan
<1> QED
  BY <1>1, <1>2, ColumnsStayTrue, InitInvariant, StepPreserves, PTL DEF ObjectsSpec, RowInPlace
=============================================================================
