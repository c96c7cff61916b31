----------------------------- MODULE ListProofs -----------------------------
(***************************************************************************)
(* The links of package list match for every number of lists and elements. *)
(* Each of the four ways in which the code rewires a ring (insert, remove, *)
(* move, Init) has a lemma about functions; the invariant follows.         *)
(***************************************************************************)
EXTENDS List, FiniteSetTheorems, SequenceTheorems, WellFoundedInduction, TLAPS

LEMMA NodesDisjoint ==
    /\ \A l \in Lists : l \notin Elems /\ l # Nil /\ l \in Nodes
    /\ \A e \in Elems : e \notin Lists /\ e # Nil /\ e \in Nodes
    /\ Nil \notin Nodes /\ Nil \notin Values
BY ListAssumption DEF Nodes

Link == [Nodes -> Nodes \cup {Nil}]
Field == [Elems -> Lists \cup {Nil}]

LEMMA PutIs ==
    ASSUME NEW f \in Link, NEW x \in Nodes, NEW y \in Nodes \cup {Nil}
    PROVE  /\ Put(f, x, y) \in Link
           /\ Put(f, x, y)[x] = y
           /\ \A z \in Nodes : z # x => Put(f, x, y)[z] = f[z]
BY DEF Put, Link

\* lazyInit: a root that links to itself is a ring.
LEMMA LazyRings ==
    ASSUME NEW n \in Link, NEW p \in Link, NEW ls \in Field, NEW cl,
           NEW l \in Lists, n[l] = Nil, \A e \in Elems : ls[e] # l,
           Rings(n, p, ls, cl)
    PROVE  Rings(Put(n, l, l), Put(p, l, l), ls, cl)
<1> USE NodesDisjoint
<1> DEFINE n2 == Put(n, l, l)
           p2 == Put(p, l, l)
<1>1. /\ n2[l] = l /\ p2[l] = l
      /\ \A z \in Nodes : z # l => n2[z] = n[z] /\ p2[z] = p[z]
  BY PutIs
<1> HIDE DEF n2, p2
<1> SUFFICES ASSUME NEW x \in Nodes, InRing(n2, ls, cl, x)
             PROVE  /\ Linked(n2, p2, ls, cl, x, n2[x])
                    /\ Linked(n2, n2, ls, cl, x, p2[x])
  BY DEF Rings, n2, p2
<1>2. CASE x = l
  BY <1>1, <1>2 DEF Linked, InRing
<1>3. CASE x # l
  <2>1. InRing(n, ls, cl, x)
    BY <1>1, <1>3 DEF InRing
  <2>2. Linked(n, p, ls, cl, x, n[x]) /\ Linked(n, n, ls, cl, x, p[x])
    BY <2>1 DEF Rings
  <2>3. n[x] # l /\ p[x] # l
    BY <2>2 DEF Linked, InRing
  <2> QED
    BY <1>1, <1>3, <2>2, <2>3 DEF Linked, InRing, ListOf
<1> QED
  BY <1>2, <1>3

\* insert: e comes between at and the node after it.
LEMMA InsertRings ==
    ASSUME NEW n \in Link, NEW p \in Link, NEW ls \in Field, NEW cl,
           NEW l \in Lists, n[l] # Nil,
           NEW at \in Nodes, InRing(n, ls, cl, at), ListOf(ls, at) = l,
           NEW e \in Elems, ls[e] = Nil, e \notin cl,
           Rings(n, p, ls, cl)
    PROVE  /\ n[at] \in Nodes
           /\ Rings(Put(Put(n, e, n[at]), at, e), Put(Put(p, e, at), n[at], e),
                    [ls EXCEPT ![e] = l], cl)
<1> USE NodesDisjoint
<1>a. Linked(n, p, ls, cl, at, n[at]) /\ n[at] \in Nodes
  BY DEF Rings, Linked
<1> DEFINE n2 == Put(Put(n, e, n[at]), at, e)
           p2 == Put(Put(p, e, at), n[at], e)
           ls2 == [ls EXCEPT ![e] = l]
<1>1. e # at /\ e # n[at]
  BY <1>a DEF InRing, Linked
<1>2. /\ n2[e] = n[at] /\ n2[at] = e
      /\ \A z \in Nodes : z # e /\ z # at => n2[z] = n[z]
  BY <1>a, <1>1 DEF Put, Link
<1>3. /\ p2[e] = at /\ p2[n[at]] = e
      /\ \A z \in Nodes : z # e /\ z # n[at] => p2[z] = p[z]
  BY <1>a, <1>1 DEF Put, Link
<1>4. /\ ls2[e] = l /\ \A z \in Elems : z # e => ls2[z] = ls[z]
  BY DEF Field
<1> HIDE DEF n2, p2, ls2
<1>5. \A x \in Nodes : x # e => /\ InRing(n2, ls2, cl, x) <=> InRing(n, ls, cl, x)
                                /\ ListOf(ls2, x) = ListOf(ls, x)
  <2>1. \A x \in Lists : (InRing(n2, ls2, cl, x) <=> InRing(n, ls, cl, x))
    <3> SUFFICES ASSUME NEW x \in Lists PROVE n2[x] # Nil <=> n[x] # Nil
      BY DEF InRing
    <3>1. x # e /\ n[at] # Nil
      BY <1>a
    <3> QED
      BY <3>1, <1>2
  <2>2. \A x \in Elems : x # e => (InRing(n2, ls2, cl, x) <=> InRing(n, ls, cl, x))
    BY <1>4 DEF InRing
  <2>3. \A x \in Nodes : x # e => ListOf(ls2, x) = ListOf(ls, x)
    BY <1>4 DEF ListOf, Nodes
  <2> QED
    BY <2>1, <2>2, <2>3 DEF Nodes
<1>6. InRing(n2, ls2, cl, e) /\ ListOf(ls2, e) = l
  BY <1>4 DEF InRing, ListOf
<1>7. p[n[at]] = at /\ InRing(n, ls, cl, n[at]) /\ ListOf(ls, n[at]) = l
  BY <1>a DEF Linked
<1> SUFFICES ASSUME NEW x \in Nodes, InRing(n2, ls2, cl, x)
             PROVE  /\ Linked(n2, p2, ls2, cl, x, n2[x])
                    /\ Linked(n2, n2, ls2, cl, x, p2[x])
  BY <1>a DEF Rings, n2, p2, ls2
<1>8. CASE x = e
  BY <1>8, <1>a, <1>1, <1>2, <1>3, <1>5, <1>6, <1>7 DEF Linked
<1>9. CASE x # e
  <2>1. InRing(n, ls, cl, x) /\ ListOf(ls2, x) = ListOf(ls, x)
    BY <1>9, <1>5
  <2>2. Linked(n, p, ls, cl, x, n[x]) /\ Linked(n, n, ls, cl, x, p[x])
    BY <2>1 DEF Rings
  <2>3. n[x] # e /\ p[x] # e
    BY <2>2 DEF Linked, InRing
  <2>4. Linked(n2, p2, ls2, cl, x, n2[x])
    <3>1. CASE x = at
      BY <3>1, <1>9, <1>2, <1>3, <1>6, <2>1 DEF Linked
    <3>2. CASE x # at
      <4>1. n2[x] = n[x] /\ n[x] # n[at]
        BY <3>2, <1>9, <1>2, <2>2, <1>7 DEF Linked
      <4> QED
        BY <4>1, <1>3, <1>5, <2>1, <2>2, <2>3 DEF Linked
    <3> QED
      BY <3>1, <3>2
  <2>5. Linked(n2, n2, ls2, cl, x, p2[x])
    <3>1. CASE x = n[at]
      BY <3>1, <1>9, <1>2, <1>3, <1>6, <1>7, <2>1 DEF Linked
    <3>2. CASE x # n[at]
      <4>1. p2[x] = p[x] /\ p[x] # at
        BY <3>2, <1>9, <1>3, <2>2 DEF Linked
      <4> QED
        BY <4>1, <1>2, <1>5, <2>1, <2>2, <2>3 DEF Linked
    <3> QED
      BY <3>1, <3>2
  <2> QED
    BY <2>4, <2>5
<1> QED
  BY <1>8, <1>9

\* remove: the neighbours of e are linked to each other, and e to nothing.
LEMMA CutRings ==
    ASSUME NEW n \in Link, NEW p \in Link, NEW ls \in Field, NEW cl,
           NEW e \in Elems, ls[e] # Nil, e \notin cl,
           Rings(n, p, ls, cl)
    PROVE  /\ n[e] \in Nodes /\ p[e] \in Nodes
           /\ Rings(Put(Put(n, p[e], n[e]), e, Nil), Put(Put(p, n[e], p[e]), e, Nil),
                    [ls EXCEPT ![e] = Nil], cl)
<1> USE NodesDisjoint
<1>a. /\ Linked(n, p, ls, cl, e, n[e]) /\ Linked(n, n, ls, cl, e, p[e])
      /\ n[e] \in Nodes /\ p[e] \in Nodes
  BY DEF Rings, InRing, Linked
<1> DEFINE n2 == Put(Put(n, p[e], n[e]), e, Nil)
           p2 == Put(Put(p, n[e], p[e]), e, Nil)
           ls2 == [ls EXCEPT ![e] = Nil]
<1>1. /\ n2[e] = Nil
      /\ \A z \in Nodes : z # e => n2[z] = (IF z = p[e] THEN n[e] ELSE n[z])
  BY <1>a DEF Put, Link
<1>2. /\ p2[e] = Nil
      /\ \A z \in Nodes : z # e => p2[z] = (IF z = n[e] THEN p[e] ELSE p[z])
  BY <1>a DEF Put, Link
<1>3. /\ ls2[e] = Nil /\ \A z \in Elems : z # e => ls2[z] = ls[z]
  BY DEF Field
<1>4. n[p[e]] = e /\ p[n[e]] = e
  BY <1>a DEF Linked
<1> HIDE DEF n2, p2, ls2
<1>5. ~InRing(n2, ls2, cl, e)
  BY <1>3 DEF InRing
<1>6. \A x \in Nodes : x # e => /\ InRing(n2, ls2, cl, x) <=> InRing(n, ls, cl, x)
                                /\ ListOf(ls2, x) = ListOf(ls, x)
  <2>1. \A x \in Lists : InRing(n2, ls2, cl, x) <=> InRing(n, ls, cl, x)
    <3> SUFFICES ASSUME NEW x \in Lists PROVE n2[x] # Nil <=> n[x] # Nil
      BY DEF InRing
    <3>1. CASE x = p[e]
      BY <3>1, <1>1, <1>4, <1>a
    <3>2. CASE x # p[e]
      BY <3>2, <1>1
    <3> QED
      BY <3>1, <3>2
  <2>2. \A x \in Elems : x # e => (InRing(n2, ls2, cl, x) <=> InRing(n, ls, cl, x))
    BY <1>3 DEF InRing
  <2>3. \A x \in Nodes : x # e => ListOf(ls2, x) = ListOf(ls, x)
    BY <1>3 DEF ListOf, Nodes
  <2> QED
    BY <2>1, <2>2, <2>3 DEF Nodes
<1> SUFFICES ASSUME NEW x \in Nodes, InRing(n2, ls2, cl, x)
             PROVE  /\ Linked(n2, p2, ls2, cl, x, n2[x])
                    /\ Linked(n2, n2, ls2, cl, x, p2[x])
  BY <1>a DEF Rings, n2, p2, ls2
<1>7. x # e /\ InRing(n, ls, cl, x) /\ ListOf(ls2, x) = ListOf(ls, x)
  BY <1>5, <1>6
<1>8. Linked(n, p, ls, cl, x, n[x]) /\ Linked(n, n, ls, cl, x, p[x])
  BY <1>7 DEF Rings
<1>9. Linked(n2, p2, ls2, cl, x, n2[x])
  <2>1. CASE x = p[e]
    <3>1. n[e] # e
      BY <2>1, <1>4, <1>7
    <3> QED
      BY <2>1, <3>1, <1>a, <1>1, <1>2, <1>6, <1>7, <1>8, <1>4 DEF Linked
  <2>2. CASE x # p[e]
    <3>1. n[x] # e /\ n[x] # n[e]
      BY <2>2, <1>4, <1>7, <1>8 DEF Linked
    <3> QED
      BY <2>2, <3>1, <1>1, <1>2, <1>6, <1>7, <1>8 DEF Linked
  <2> QED
    BY <2>1, <2>2
<1>10. Linked(n2, n2, ls2, cl, x, p2[x])
  <2>1. CASE x = n[e]
    <3>1. p[e] # e
      BY <2>1, <1>4, <1>7
    <3> QED
      BY <2>1, <3>1, <1>a, <1>1, <1>2, <1>6, <1>7, <1>8, <1>4 DEF Linked
  <2>2. CASE x # n[e]
    <3>1. p[x] # e /\ p[x] # p[e]
      BY <2>2, <1>4, <1>7, <1>8 DEF Linked
    <3> QED
      BY <2>2, <3>1, <1>1, <1>2, <1>6, <1>7, <1>8 DEF Linked
  <2> QED
    BY <2>1, <2>2
<1> QED
  BY <1>9, <1>10

\* move: to remove e and to insert it again leaves the same links.
LEMMA MoveRings ==
    ASSUME NEW n \in Link, NEW p \in Link, NEW ls \in Field, NEW cl,
           NEW l \in Lists, n[l] # Nil,
           NEW e \in Elems, ls[e] = l, e \notin cl,
           NEW at \in Nodes, at # e, InRing(n, ls, cl, at), ListOf(ls, at) = l,
           Rings(n, p, ls, cl),
           NEW n1, n1 = Put(n, p[e], n[e]),
           NEW p1, p1 = Put(p, n[e], p[e])
    PROVE  /\ n[e] \in Nodes /\ p[e] \in Nodes /\ n1[at] \in Nodes
           /\ Rings(Put(Put(n1, e, n1[at]), at, e), Put(Put(p1, e, at), n1[at], e), ls, cl)
<1> USE NodesDisjoint
<1> DEFINE n0 == Put(n1, e, Nil)
           p0 == Put(p1, e, Nil)
           ls0 == [ls EXCEPT ![e] = Nil]
<1>1. n[e] \in Nodes /\ p[e] \in Nodes /\ Rings(n0, p0, ls0, cl)
  BY CutRings
<1>2. n1 \in Link /\ p1 \in Link /\ n0 \in Link /\ p0 \in Link /\ ls0 \in Field
  BY <1>1 DEF Put, Link, Field
<1>3. n0[at] = n1[at]
  BY <1>2 DEF Put, Link
<1>4. \A z \in Nodes : n[z] # Nil /\ z # e => n0[z] # Nil
  BY <1>1 DEF Put, Link
<1>5. InRing(n0, ls0, cl, at) /\ ListOf(ls0, at) = l /\ n0[l] # Nil /\ ls0[e] = Nil
  BY <1>4 DEF InRing, ListOf, Nodes, Field
<1> HIDE DEF n0, p0, ls0
<1>6. n0[at] \in Nodes /\ Rings(Put(Put(n0, e, n0[at]), at, e), Put(Put(p0, e, at), n0[at], e),
                                [ls0 EXCEPT ![e] = l], cl)
  BY <1>1, <1>2, <1>5, InsertRings
<1>7. [ls0 EXCEPT ![e] = l] = ls
  BY DEF ls0, Field
<1>8. Put(n0, e, n1[at]) = Put(n1, e, n1[at]) /\ Put(p0, e, at) = Put(p1, e, at)
  BY <1>2 DEF n0, p0, Put, Link
<1> QED
  BY <1>1, <1>3, <1>6, <1>7, <1>8

\* Init: the root is a ring of its own, and the elements it had are cleared.
LEMMA ClearRings ==
    ASSUME NEW n \in Link, NEW p \in Link, NEW ls \in Field, NEW cl, NEW l \in Lists,
           Rings(n, p, ls, cl)
    PROVE  Rings(Put(n, l, l), Put(p, l, l), ls, cl \cup {e \in Elems : ls[e] = l /\ e \notin cl})
<1> USE NodesDisjoint
<1> DEFINE n2 == Put(n, l, l)
           p2 == Put(p, l, l)
           cl2 == cl \cup {e \in Elems : ls[e] = l /\ e \notin cl}
<1>1. /\ n2[l] = l /\ p2[l] = l
      /\ \A z \in Nodes : z # l => n2[z] = n[z] /\ p2[z] = p[z]
  BY PutIs
<1>2. \A e \in Elems : e \in cl2 <=> e \in cl \/ ls[e] = l
  OBVIOUS
<1> HIDE DEF n2, p2, cl2
<1> SUFFICES ASSUME NEW x \in Nodes, InRing(n2, ls, cl2, x)
             PROVE  /\ Linked(n2, p2, ls, cl2, x, n2[x])
                    /\ Linked(n2, n2, ls, cl2, x, p2[x])
  BY DEF Rings, n2, p2, cl2
<1>3. CASE x = l
  BY <1>1, <1>3 DEF Linked, InRing
<1>4. CASE x # l
  <2>1. InRing(n, ls, cl, x) /\ ListOf(ls, x) # l
    BY <1>1, <1>2, <1>4 DEF InRing, ListOf, Nodes
  <2>2. Linked(n, p, ls, cl, x, n[x]) /\ Linked(n, n, ls, cl, x, p[x])
    BY <2>1 DEF Rings
  <2>3. \A y \in Nodes : InRing(n, ls, cl, y) /\ ListOf(ls, y) # l
                            => y # l /\ InRing(n2, ls, cl2, y)
    BY <1>1, <1>2 DEF InRing, ListOf, Nodes
  <2> QED
    BY <1>1, <1>4, <2>1, <2>2, <2>3 DEF Linked
<1> QED
  BY <1>3, <1>4
-----------------------------------------------------------------------------
\* Whoever follows next from the root of a list meets all its elements: there
\* is no second ring of them.
Connected(n, ls, cl) ==
    \A l \in Lists : \A S \in SUBSET Nodes :
        /\ l \in S
        /\ \A x \in S : InRing(n, ls, cl, x) /\ ListOf(ls, x) = l => n[x] \in S
        => {e \in Elems : ls[e] = l /\ e \notin cl} \subseteq S

LEMMA LazyConnected ==
    ASSUME NEW n \in Link, NEW ls \in Field, NEW cl,
           NEW l \in Lists, \A e \in Elems : ls[e] # l, Connected(n, ls, cl)
    PROVE  Connected(Put(n, l, l), ls, cl)
<1> USE NodesDisjoint
<1> DEFINE n2 == Put(n, l, l)
<1>1. \A z \in Nodes : z # l => n2[z] = n[z]
  BY PutIs
<1> HIDE DEF n2
<1> SUFFICES ASSUME NEW m \in Lists, NEW S \in SUBSET Nodes, m \in S,
                    \A x \in S : InRing(n2, ls, cl, x) /\ ListOf(ls, x) = m => n2[x] \in S,
                    NEW e \in Elems, ls[e] = m, e \notin cl
             PROVE  e \in S
  BY DEF Connected, n2
<1>2. m # l
  OBVIOUS
<1>3. ASSUME NEW x \in S, InRing(n, ls, cl, x), ListOf(ls, x) = m
      PROVE  n[x] \in S
  <2>1. x # l
    BY <1>2, <1>3 DEF ListOf
  <2> QED
    BY <1>1, <1>3, <2>1 DEF InRing
<1> QED
  BY <1>3 DEF Connected

LEMMA InsertConnected ==
    ASSUME NEW n \in Link, NEW p \in Link, NEW ls \in Field, NEW cl,
           NEW l \in Lists,
           NEW at \in Nodes, InRing(n, ls, cl, at), ListOf(ls, at) = l,
           NEW e \in Elems, ls[e] = Nil, e \notin cl,
           Rings(n, p, ls, cl), Connected(n, ls, cl)
    PROVE  Connected(Put(Put(n, e, n[at]), at, e), [ls EXCEPT ![e] = l], cl)
<1> USE NodesDisjoint
<1> DEFINE n2 == Put(Put(n, e, n[at]), at, e)
           ls2 == [ls EXCEPT ![e] = l]
<1>1. e # at /\ n[at] \in Nodes
  BY DEF InRing, Rings, Linked
<1>2. /\ n2[e] = n[at] /\ n2[at] = e
      /\ \A z \in Nodes : z # e /\ z # at => n2[z] = n[z]
  BY <1>1 DEF Put, Link
<1>3. ls2[e] = l /\ \A z \in Elems : z # e => ls2[z] = ls[z]
  BY DEF Field
<1> HIDE DEF n2, ls2
<1>4. ASSUME NEW x \in Nodes, InRing(n, ls, cl, x)
      PROVE  x # e /\ InRing(n2, ls2, cl, x) /\ ListOf(ls2, x) = ListOf(ls, x) /\ n[x] # e
  <2>1. x # e
    BY <1>4 DEF InRing
  <2>2. n[x] # e
    BY <1>4 DEF Rings, Linked, InRing
  <2> QED
    BY <1>1, <1>2, <1>3, <1>4, <2>1, <2>2 DEF InRing, ListOf, Nodes
<1> SUFFICES ASSUME NEW m \in Lists, NEW S \in SUBSET Nodes, m \in S,
                    \A x \in S : InRing(n2, ls2, cl, x) /\ ListOf(ls2, x) = m => n2[x] \in S,
                    NEW z \in Elems, ls2[z] = m, z \notin cl
             PROVE  z \in S
  BY DEF Connected, n2, ls2
<1> DEFINE T == S \ {e}
<1>5. InRing(n2, ls2, cl, e) /\ ListOf(ls2, e) = l
  BY <1>3 DEF InRing, ListOf
<1>6. ASSUME NEW x \in T, InRing(n, ls, cl, x), ListOf(ls, x) = m
      PROVE  n[x] \in T
  <2>1. n2[x] \in S /\ n[x] # e
    BY <1>4, <1>6
  <2>2. CASE x = at
    BY <1>2, <1>5, <1>6, <2>1, <2>2
  <2>3. CASE x # at
    BY <1>2, <2>1, <2>3
  <2> QED
    BY <2>2, <2>3
<1>7. m \in T /\ T \in SUBSET Nodes
  OBVIOUS
<1>8. T \subseteq S
  OBVIOUS
<1> HIDE DEF T
<1>9. \A y \in Elems : ls[y] = m /\ y \notin cl => y \in T
  BY <1>6, <1>7 DEF Connected
<1>10. CASE z = e
  <2>1. l = m
    BY <1>3, <1>10
  <2>2. at \in S
    BY <1>9, <1>8, <2>1 DEF InRing, ListOf, Nodes
  <2> QED
    BY <1>2, <1>4, <1>10, <2>1, <2>2
<1>11. CASE z # e
  BY <1>3, <1>9, <1>11, <1>8
<1> QED
  BY <1>10, <1>11

LEMMA CutConnected ==
    ASSUME NEW n \in Link, NEW p \in Link, NEW ls \in Field, NEW cl,
           NEW e \in Elems, ls[e] # Nil, e \notin cl,
           Rings(n, p, ls, cl), Connected(n, ls, cl)
    PROVE  Connected(Put(Put(n, p[e], n[e]), e, Nil), [ls EXCEPT ![e] = Nil], cl)
<1> USE NodesDisjoint
<1> DEFINE n2 == Put(Put(n, p[e], n[e]), e, Nil)
           ls2 == [ls EXCEPT ![e] = Nil]
<1>1. /\ Linked(n, p, ls, cl, e, n[e]) /\ Linked(n, n, ls, cl, e, p[e])
      /\ n[e] \in Nodes /\ p[e] \in Nodes /\ n[p[e]] = e
  BY DEF Rings, InRing, Linked
<1>2. \A z \in Nodes : z # e => n2[z] = (IF z = p[e] THEN n[e] ELSE n[z])
  BY <1>1 DEF Put, Link
<1>3. ls2[e] = Nil /\ \A z \in Elems : z # e => ls2[z] = ls[z]
  BY DEF Field
<1> HIDE DEF n2, ls2
<1>4. ASSUME NEW x \in Nodes, x # e, InRing(n, ls, cl, x)
      PROVE  InRing(n2, ls2, cl, x) /\ ListOf(ls2, x) = ListOf(ls, x)
  BY <1>1, <1>2, <1>3, <1>4 DEF InRing, ListOf, Nodes
<1> SUFFICES ASSUME NEW m \in Lists, NEW S \in SUBSET Nodes, m \in S,
                    \A x \in S : InRing(n2, ls2, cl, x) /\ ListOf(ls2, x) = m => n2[x] \in S,
                    NEW z \in Elems, ls2[z] = m, z \notin cl
             PROVE  z \in S
  BY <1>1 DEF Connected, n2, ls2
<1> DEFINE T == IF p[e] \in S \ {e} THEN S \cup {e} ELSE S \ {e}
<1>5. ASSUME NEW x \in T, InRing(n, ls, cl, x), ListOf(ls, x) = m
      PROVE  n[x] \in T
  <2>1. CASE x = e
    <3>1. p[e] \in S \ {e}
      BY <2>1
    <3>2. InRing(n, ls, cl, p[e]) /\ ListOf(ls, p[e]) = m
      BY <1>1, <1>5, <2>1 DEF Linked
    <3>3. n2[p[e]] \in S
      BY <1>1, <1>4, <3>1, <3>2
    <3> QED
      BY <1>1, <1>2, <2>1, <3>1, <3>3
  <2>2. CASE x # e
    <3>1. x \in S /\ n2[x] \in S
      BY <1>4, <1>5, <2>2
    <3>2. CASE x = p[e]
      BY <1>1, <2>2, <3>1, <3>2
    <3>3. CASE x # p[e]
      <4>1. n2[x] = n[x]
        BY <1>2, <2>2, <3>1, <3>3
      <4>2. n[x] # e
        BY <1>5, <3>1, <3>3 DEF Rings, Linked
      <4> QED
        BY <3>1, <4>1, <4>2
    <3> QED
      BY <3>2, <3>3
  <2> QED
    BY <2>1, <2>2
<1>6. m \in T /\ T \in SUBSET Nodes
  OBVIOUS
<1> HIDE DEF T
<1>7. \A y \in Elems : ls[y] = m /\ y \notin cl => y \in T
  BY <1>5, <1>6 DEF Connected
<1>8. z # e /\ ls[z] = m
  BY <1>3
<1> QED
  BY <1>7, <1>8 DEF T

LEMMA MoveConnected ==
    ASSUME NEW n \in Link, NEW p \in Link, NEW ls \in Field, NEW cl,
           NEW l \in Lists, n[l] # Nil,
           NEW e \in Elems, ls[e] = l, e \notin cl,
           NEW at \in Nodes, at # e, InRing(n, ls, cl, at), ListOf(ls, at) = l,
           Rings(n, p, ls, cl), Connected(n, ls, cl),
           NEW n1, n1 = Put(n, p[e], n[e])
    PROVE  Connected(Put(Put(n1, e, n1[at]), at, e), ls, cl)
<1> USE NodesDisjoint
<1> DEFINE n0 == Put(n1, e, Nil)
           p0 == Put(Put(p, n[e], p[e]), e, Nil)
           ls0 == [ls EXCEPT ![e] = Nil]
<1>1. n[e] \in Nodes /\ p[e] \in Nodes /\ Rings(n0, p0, ls0, cl)
  BY CutRings
<1>2. n1 \in Link /\ n0 \in Link /\ p0 \in Link /\ ls0 \in Field
  BY <1>1 DEF Put, Link, Field
<1>3. n0[at] = n1[at]
  BY <1>2 DEF Put, Link
<1>4. \A z \in Nodes : n[z] # Nil /\ z # e => n0[z] # Nil
  BY <1>1 DEF Put, Link
<1>5. InRing(n0, ls0, cl, at) /\ ListOf(ls0, at) = l /\ ls0[e] = Nil
  BY <1>4 DEF InRing, ListOf, Nodes, Field
<1>6. Connected(n0, ls0, cl)
  BY CutConnected
<1> HIDE DEF n0, p0, ls0
<1>7. Connected(Put(Put(n0, e, n0[at]), at, e), [ls0 EXCEPT ![e] = l], cl)
  BY <1>1, <1>2, <1>5, <1>6, InsertConnected
<1>8. [ls0 EXCEPT ![e] = l] = ls
  BY DEF ls0, Field
<1>9. Put(n0, e, n1[at]) = Put(n1, e, n1[at])
  BY <1>2 DEF n0, Put, Link
<1> QED
  BY <1>3, <1>7, <1>8, <1>9

LEMMA ClearConnected ==
    ASSUME NEW n \in Link, NEW ls \in Field, NEW cl, NEW l \in Lists, Connected(n, ls, cl)
    PROVE  Connected(Put(n, l, l), ls, cl \cup {e \in Elems : ls[e] = l /\ e \notin cl})
<1> USE NodesDisjoint
<1> DEFINE n2 == Put(n, l, l)
           cl2 == cl \cup {e \in Elems : ls[e] = l /\ e \notin cl}
<1>1. \A z \in Nodes : z # l => n2[z] = n[z]
  BY PutIs
<1>2. \A e \in Elems : e \in cl2 <=> e \in cl \/ ls[e] = l
  OBVIOUS
<1> HIDE DEF n2, cl2
<1> SUFFICES ASSUME NEW m \in Lists, NEW S \in SUBSET Nodes, m \in S,
                    \A x \in S : InRing(n2, ls, cl2, x) /\ ListOf(ls, x) = m => n2[x] \in S,
                    NEW e \in Elems, ls[e] = m, e \notin cl2
             PROVE  e \in S
  BY DEF Connected, n2, cl2
<1>3. m # l /\ e \notin cl
  BY <1>2
<1>4. ASSUME NEW x \in S, InRing(n, ls, cl, x), ListOf(ls, x) = m
      PROVE  n[x] \in S
  <2>1. x # l /\ InRing(n2, ls, cl2, x)
    BY <1>1, <1>2, <1>3, <1>4 DEF InRing, ListOf, Nodes
  <2> QED
    BY <1>1, <1>4, <2>1
<1> QED
  BY <1>3, <1>4 DEF Connected
-----------------------------------------------------------------------------
\* The invariant of the links alone, and what a call may not undo: a list that
\* lazyInit has seen, and an element in its ring.
LinkTypes ==
    /\ next \in Link /\ prev \in Link /\ list \in Field
    /\ len \in [Lists -> Nat]
    /\ value \in [Elems -> Values \cup {Nil}]
    /\ cleared \subseteq Made

Whole == Connected(next, list, cleared)

LinkInv == LinkTypes /\ LinksMatch /\ Unlinked /\ LenCounts /\ Whole

LEMMA ContentsFinite == \A l \in Lists : IsFiniteSet(Contents(l)) /\ Cardinality(Contents(l)) \in Nat
BY ListAssumption, FS_Subset, FS_CardinalityType DEF Contents

\* lazyInit keeps the rings.
LEMMA Lazy ==
    ASSUME LinkInv, NEW l \in Lists
    PROVE  /\ LazyNext(l) \in Link /\ LazyPrev(l) \in Link
           /\ LazyNext(l)[l] # Nil /\ LazyPrev(l)[l] # Nil
           /\ \A m \in Lists : m # l => LazyNext(l)[m] = next[m] /\ LazyPrev(l)[m] = prev[m]
           /\ \A m \in Lists : next[m] # Nil => LazyNext(l)[m] # Nil
           /\ \A e \in Elems : LazyNext(l)[e] = next[e]
           /\ Rings(LazyNext(l), LazyPrev(l), list, cleared)
           /\ Connected(LazyNext(l), list, cleared)
<1> USE NodesDisjoint DEF LinkInv, LinkTypes
<1>1. CASE next[l] = Nil
  <2>1. \A e \in Elems : list[e] # l
    BY <1>1 DEF Unlinked
  <2>2. Rings(Put(next, l, l), Put(prev, l, l), list, cleared)
    BY <1>1, <2>1, LazyRings DEF LinksMatch
  <2>3. Connected(Put(next, l, l), list, cleared)
    BY <2>1, LazyConnected DEF Whole
  <2> QED
    <3>1. LazyNext(l) = Put(next, l, l) /\ LazyPrev(l) = Put(prev, l, l)
      BY <1>1 DEF LazyNext, LazyPrev
    <3>2. Put(next, l, l) \in Link /\ Put(prev, l, l) \in Link
      BY DEF Put, Link
    <3>3. \A z \in Nodes : /\ Put(next, l, l)[z] = IF z = l THEN l ELSE next[z]
                           /\ Put(prev, l, l)[z] = IF z = l THEN l ELSE prev[z]
      BY DEF Put, Link
    <3> QED
      BY <2>2, <2>3, <3>1, <3>2, <3>3
<1>2. CASE next[l] # Nil
  <2>1. prev[l] # Nil
    BY <1>2 DEF LinksMatch, Rings, InRing, Linked, Unlinked
  <2> QED
    BY <1>2, <2>1 DEF LazyNext, LazyPrev, LinksMatch, Whole
<1> QED
  BY <1>1, <1>2

LEMMA NewIsNew ==
    ASSUME LinkInv, Made # Elems
    PROVE  New \in Elems /\ New \notin Made /\ New \notin cleared /\ list[New] = Nil
<1>1. \E e \in Elems : e \notin Made
  BY DEF Made
<1>2. New \in Elems /\ New \notin Made
  BY <1>1 DEF New
<1> QED
  BY <1>2 DEF LinkInv, LinkTypes, Unlinked, Made

LEMMA InsertInv ==
    ASSUME LinkInv, NEW l \in Lists, NEW n \in Link, NEW p \in Link,
           Rings(n, p, list, cleared), Connected(n, list, cleared), n[l] # Nil,
           \A m \in Lists : next[m] # Nil => n[m] # Nil,
           \A m \in Lists : n[m] = Nil => p[m] = Nil,
           NEW at \in Nodes, InRing(n, list, cleared, at), ListOf(list, at) = l,
           NEW v \in Values, InsertValue(l, n, p, at, New, v)
    PROVE  /\ LinkInv'
           /\ \A m \in Lists : next[m] # Nil => next'[m] # Nil
           /\ next'[l] # Nil
           /\ New \in Elems
           /\ \A x \in Nodes : InRing(next, list, cleared, x) => InRing(next', list', cleared', x)
<1> USE NodesDisjoint
<1> DEFINE e == New
<1>1. e \in Elems /\ e \notin Made /\ e \notin cleared /\ list[e] = Nil
  BY NewIsNew DEF InsertValue
<1>2. /\ next' = Put(Put(n, e, n[at]), at, e)
      /\ prev' = Put(Put(p, e, at), n[at], e)
      /\ list' = [list EXCEPT ![e] = l]
      /\ len' = [len EXCEPT ![l] = @ + 1]
      /\ value' = [value EXCEPT ![e] = v]
      /\ cleared' = cleared
  BY DEF InsertValue
<1> HIDE DEF e
<1>3. n[at] \in Nodes /\ Rings(next', prev', list', cleared')
  BY <1>1, <1>2, InsertRings DEF LinkInv, LinkTypes
<1>4. Connected(next', list', cleared')
  BY <1>1, <1>2, InsertConnected DEF LinkInv, LinkTypes
<1>5. e # at
  BY <1>1 DEF InRing
<1>6. \A m \in Nodes : m # e => next'[m] = (IF m = at THEN e ELSE n[m])
  BY <1>1, <1>2, <1>3 DEF Put, Link
<1>7. \A m \in Nodes : m # e => prev'[m] = (IF m = n[at] THEN e ELSE p[m])
  BY <1>1, <1>2, <1>3 DEF Put, Link
<1>8. \A m \in Lists : next[m] # Nil => next'[m] # Nil
  BY <1>1, <1>6
<1>9. /\ list'[e] = l /\ value'[e] = v
      /\ \A z \in Elems : z # e => list'[z] = list[z] /\ value'[z] = value[z]
  BY <1>1, <1>2 DEF LinkInv, LinkTypes, Field
<1>10. LinkTypes'
  <2>1. next' \in Link /\ prev' \in Link
    BY <1>1, <1>2, <1>3 DEF Put, Link
  <2>2. /\ list' \in Field
        /\ len' \in [Lists -> Nat]
        /\ value' \in [Elems -> Values \cup {Nil}]
    <3>1. list' \in Field
      BY <1>2 DEF LinkInv, LinkTypes, Field
    <3>2. len' \in [Lists -> Nat]
      BY <1>2 DEF LinkInv, LinkTypes
    <3>3. value' \in [Elems -> Values \cup {Nil}]
      BY <1>2 DEF LinkInv, LinkTypes
    <3> QED
      BY <3>1, <3>2, <3>3
  <2>3. cleared' \subseteq Made'
    BY <1>1, <1>2, <1>9 DEF LinkInv, LinkTypes, Made
  <2> QED
    BY <2>1, <2>2, <2>3 DEF LinkTypes
<1>11. next'[l] # Nil
  BY <1>1, <1>6
<1>12. Unlinked'
  <2>1. \A z \in Elems : list'[z] # Nil => value'[z] # Nil /\ next'[list'[z]] # Nil
    BY <1>1, <1>8, <1>9, <1>11 DEF LinkInv, LinkTypes, Unlinked, Field
  <2>2. ASSUME NEW m \in Lists, next'[m] = Nil PROVE prev'[m] = Nil
    <3>1. m # at /\ n[m] = Nil
      BY <2>2, <1>1, <1>6
    <3>2. m # n[at]
      BY <3>1 DEF Rings, Linked, InRing
    <3> QED
      BY <3>1, <3>2, <1>1, <1>7
  <2> QED
    BY <2>1, <2>2 DEF Unlinked
<1>13. LenCounts'
  <2>1. Contents(l)' = Contents(l) \cup {e} /\ e \notin Contents(l)
    BY <1>1, <1>2, <1>9 DEF Contents
  <2>2. \A m \in Lists : m # l => Contents(m)' = Contents(m)
    BY <1>1, <1>2, <1>9 DEF Contents
  <2>3. Cardinality(Contents(l)') = Cardinality(Contents(l)) + 1
    BY <2>1, FS_AddElement, ContentsFinite
  <2>4. \A m \in Lists : len'[m] = IF m = l THEN len[m] + 1 ELSE len[m]
    BY <1>2 DEF LinkInv, LinkTypes
  <2>5. \A m \in Lists : len'[m] = Cardinality(Contents(m)')
    BY <2>2, <2>3, <2>4 DEF LinkInv, LenCounts
  <2> QED
    BY <2>5 DEF LenCounts
<1>14. \A x \in Nodes : InRing(next, list, cleared, x) => InRing(next', list', cleared', x)
  BY <1>1, <1>2, <1>8, <1>9 DEF InRing, Nodes
<1> QED
  BY <1>1, <1>3, <1>8, <1>10, <1>11, <1>12, <1>13, <1>14, <1>4 DEF LinkInv, LinksMatch, Whole, e

LEMMA RelinkInv ==
    ASSUME LinkInv, NEW l \in Lists, NEW e \in Elems, list[e] = l, e \notin cleared,
           NEW at \in Nodes, InRing(next, list, cleared, at), ListOf(list, at) = l,
           Relink(e, at)
    PROVE  LinkInv'
<1> USE NodesDisjoint
<1>1. CASE e = at
  <2>1. UNCHANGED <<next, prev, list, len, value, cleared>>
    BY <1>1 DEF Relink
  <2> QED
    BY <2>1 DEF LinkInv, LinkTypes, LinksMatch, Unlinked, LenCounts, Contents, Made, Whole
<1>2. CASE e # at
  <2> DEFINE n1 == Put(next, prev[e], next[e])
             p1 == Put(prev, next[e], prev[e])
  <2>1. /\ next' = Put(Put(n1, e, n1[at]), at, e)
        /\ prev' = Put(Put(p1, e, at), n1[at], e)
        /\ UNCHANGED <<list, len, value, cleared>>
    BY <1>2 DEF Relink, CutNext, CutPrev
  <2>2. next[l] # Nil
    BY DEF LinkInv, Unlinked
  <2>3. /\ next[e] \in Nodes /\ prev[e] \in Nodes /\ n1[at] \in Nodes
        /\ Rings(next', prev', list', cleared')
    BY <1>2, <2>1, <2>2, MoveRings DEF LinkInv, LinkTypes, LinksMatch
  <2>4. Connected(next', list', cleared')
    BY <1>2, <2>1, <2>2, MoveConnected DEF LinkInv, LinkTypes, LinksMatch, Whole
  <2>5. n1 \in Link /\ p1 \in Link
    BY <2>3 DEF LinkInv, LinkTypes, Link, Put
  <2>6. /\ \A z \in Nodes : n1[z] = IF z = prev[e] THEN next[e] ELSE next[z]
        /\ \A z \in Nodes : p1[z] = IF z = next[e] THEN prev[e] ELSE prev[z]
    BY <2>3 DEF LinkInv, LinkTypes, Link, Put
  <2> HIDE DEF n1, p1
  <2>7. next' \in Link /\ prev' \in Link
    BY <2>1, <2>3, <2>5 DEF Put, Link
  <2>8. \A z \in Nodes : z # e => next'[z] = IF z = at THEN e ELSE n1[z]
    BY <2>1, <2>3, <2>5 DEF Put, Link
  <2>9. \A z \in Nodes : z # e => prev'[z] = IF z = n1[at] THEN e ELSE p1[z]
    BY <2>1, <2>3, <2>5 DEF Put, Link
  <2>10. LinkTypes'
    BY <2>1, <2>7 DEF LinkInv, LinkTypes, Made
  <2>11. \A m \in Lists : next[m] # Nil => next'[m] # Nil
    BY <2>3, <2>6, <2>8
  <2>12. \A z \in Elems : list'[z] # Nil => value'[z] # Nil /\ next'[list'[z]] # Nil
    BY <2>1, <2>11 DEF LinkInv, LinkTypes, Unlinked, Field
  <2>13. ASSUME NEW m \in Lists, next'[m] = Nil PROVE prev'[m] = Nil
    <3>1. next[m] = Nil /\ prev[m] = Nil
      BY <2>11, <2>13 DEF LinkInv, Unlinked
    <3>2. \A z \in Nodes : InRing(next, list, cleared, z) => next[z] # m
      BY <3>1 DEF LinkInv, LinksMatch, Rings, Linked, InRing
    <3>3. InRing(next, list, cleared, e)
      BY DEF InRing
    <3>4. m # next[e]
      BY <3>2, <3>3
    <3>5. m # n1[at]
      BY <3>2, <3>4, <2>6
    <3> QED
      BY <3>1, <3>4, <3>5, <2>6, <2>9
  <2>14. LenCounts'
    BY <2>1 DEF LinkInv, LenCounts, Contents
  <2> QED
    BY <2>3, <2>10, <2>12, <2>13, <2>14, <2>4 DEF LinkInv, LinksMatch, Unlinked, Whole
<1> QED
  BY <1>1, <1>2

LEMMA RemoveInv ==
    ASSUME LinkInv, NEW l \in Lists, NEW e \in Usable, Remove(l, e)
    PROVE  LinkInv'
<1> USE NodesDisjoint
<1>1. e \in Elems /\ e \notin cleared
  BY DEF Usable, Made
<1>2. CASE list[e] # l
  <2>1. UNCHANGED <<next, prev, list, len, value, cleared>>
    BY <1>2 DEF Remove, Stay, links
  <2> QED
    BY <2>1 DEF LinkInv, LinkTypes, LinksMatch, Unlinked, LenCounts, Contents, Made, Whole
<1>3. CASE list[e] = l
  <2>1. /\ next' = Put(Put(next, prev[e], next[e]), e, Nil)
        /\ prev' = Put(Put(prev, next[e], prev[e]), e, Nil)
        /\ list' = [list EXCEPT ![e] = Nil]
        /\ len' = [len EXCEPT ![l] = @ - 1]
        /\ UNCHANGED <<value, cleared>>
    BY <1>3 DEF Remove, CutNext, CutPrev
  <2>2. /\ next[e] \in Nodes /\ prev[e] \in Nodes
        /\ Rings(next', prev', list', cleared')
    BY <1>1, <1>3, <2>1, CutRings DEF LinkInv, LinkTypes, LinksMatch
  <2>3. Connected(next', list', cleared')
    BY <1>1, <1>3, <2>1, CutConnected DEF LinkInv, LinkTypes, LinksMatch, Whole
  <2>4. next' \in Link /\ prev' \in Link
    BY <1>1, <2>1, <2>2 DEF LinkInv, LinkTypes, Link, Put
  <2>5. /\ \A z \in Nodes : z # e => next'[z] = IF z = prev[e] THEN next[e] ELSE next[z]
        /\ \A z \in Nodes : z # e => prev'[z] = IF z = next[e] THEN prev[e] ELSE prev[z]
    BY <1>1, <2>1, <2>2 DEF LinkInv, LinkTypes, Link, Put
  <2>6. \A m \in Lists : next[m] # Nil => next'[m] # Nil
    BY <1>1, <2>2, <2>5
  <2>7. list'[e] = Nil /\ \A z \in Elems : z # e => list'[z] = list[z]
    BY <1>1, <2>1 DEF LinkInv, LinkTypes, Field
  <2>8. /\ e \in Contents(l) /\ Contents(l)' = Contents(l) \ {e}
        /\ \A m \in Lists : m # l => Contents(m)' = Contents(m)
    BY <1>1, <1>3, <2>1, <2>7 DEF Contents
  <2>9. Cardinality(Contents(l)') = Cardinality(Contents(l)) - 1
    BY <2>8, FS_RemoveElement, ContentsFinite
  <2>10. len[l] = Cardinality(Contents(l)) /\ Cardinality(Contents(l)) # 0
    BY <2>8, FS_EmptySet, ContentsFinite DEF LinkInv, LenCounts
  <2>11. LinkTypes'
    <3>1. list' \in Field
      BY <2>1 DEF LinkInv, LinkTypes, Field
    <3>2. len[l] - 1 \in Nat
      BY <2>10, ContentsFinite
    <3>3. len' \in [Lists -> Nat]
      BY <2>1, <3>2 DEF LinkInv, LinkTypes
    <3> QED
      BY <2>1, <2>4, <3>1, <3>3 DEF LinkInv, LinkTypes, Made
  <2>12. \A z \in Elems : list'[z] # Nil => value'[z] # Nil /\ next'[list'[z]] # Nil
    BY <1>1, <2>1, <2>6, <2>7 DEF LinkInv, LinkTypes, Unlinked, Field
  <2>13. ASSUME NEW m \in Lists, next'[m] = Nil PROVE prev'[m] = Nil
    <3>1. next[m] = Nil /\ prev[m] = Nil
      BY <2>6, <2>13 DEF LinkInv, Unlinked
    <3>2. m # next[e]
      BY <1>1, <1>3, <3>1 DEF LinkInv, LinksMatch, Rings, Linked, InRing
    <3> QED
      BY <1>1, <2>5, <3>1, <3>2
  <2>14. LenCounts'
    <3>1. \A m \in Lists : len'[m] = IF m = l THEN len[m] - 1 ELSE len[m]
      BY <2>1 DEF LinkInv, LinkTypes
    <3> QED
      BY <2>8, <2>9, <2>10, <3>1 DEF LinkInv, LenCounts
  <2> QED
    BY <2>2, <2>11, <2>12, <2>13, <2>14, <2>3 DEF LinkInv, LinksMatch, Unlinked, Whole
<1> QED
  BY <1>2, <1>3

LEMMA InitListInv ==
    ASSUME LinkInv, NEW l \in Lists, InitList(l)
    PROVE  LinkInv'
<1> USE NodesDisjoint
<1>1. /\ next' = Put(next, l, l) /\ prev' = Put(prev, l, l)
      /\ len' = [len EXCEPT ![l] = 0]
      /\ cleared' = cleared \cup {e \in Elems : list[e] = l /\ e \notin cleared}
      /\ UNCHANGED <<list, value>>
  BY DEF InitList, Contents
<1>2. Rings(next', prev', list', cleared')
  BY <1>1, ClearRings DEF LinkInv, LinkTypes, LinksMatch
<1>3. Connected(next', list', cleared')
  BY <1>1, ClearConnected DEF LinkInv, LinkTypes, Whole
<1>4. /\ next' \in Link /\ prev' \in Link
      /\ \A z \in Nodes : /\ next'[z] = IF z = l THEN l ELSE next[z]
                          /\ prev'[z] = IF z = l THEN l ELSE prev[z]
  BY <1>1 DEF LinkInv, LinkTypes, Link, Put
<1>5. LinkTypes'
  <2>1. len' \in [Lists -> Nat]
    BY <1>1 DEF LinkInv, LinkTypes
  <2>2. cleared' \subseteq Made'
    BY <1>1 DEF LinkInv, LinkTypes, Made, Unlinked
  <2> QED
    BY <1>1, <1>4, <2>1, <2>2 DEF LinkInv, LinkTypes
<1>6. Unlinked'
  BY <1>1, <1>4 DEF LinkInv, LinkTypes, Unlinked, Field
<1>7. LenCounts'
  <2>1. Contents(l)' = {}
    BY <1>1 DEF Contents
  <2>2. \A m \in Lists : m # l => Contents(m)' = Contents(m)
    BY <1>1 DEF Contents
  <2>3. \A m \in Lists : len'[m] = IF m = l THEN 0 ELSE len[m]
    BY <1>1 DEF LinkInv, LinkTypes
  <2> QED
    BY <2>1, <2>2, <2>3, FS_EmptySet DEF LinkInv, LenCounts
<1> QED
  BY <1>2, <1>5, <1>6, <1>7, <1>3 DEF LinkInv, LinksMatch, Whole
-----------------------------------------------------------------------------
CopyTypes ==
    /\ copying \in [to : Lists \cup {Nil}, op : Calls, other : Lists \cup {Nil},
                    e : Nodes \cup {Nil}, i : Nat, made : SUBSET Elems]
    /\ call \in [op : Calls, list : Lists \cup {Nil}, elem : Elems \cup {Nil},
                 mark : Elems \cup Lists \cup {Nil}]

IInv == Inv /\ Whole

LEMMA InvParts == IInv <=> LinkInv /\ CopyTypes /\ CopyInv
BY DEF IInv, Inv, TypeOK, LinkInv, LinkTypes, CopyTypes, Link, Field

LEMMA InitInv == Init => IInv
<1> SUFFICES ASSUME Init PROVE IInv
  OBVIOUS
<1> USE NodesDisjoint
<1>1. LinkTypes
  BY DEF Init, LinkTypes, Link, Field
<1>2. LinksMatch /\ Unlinked
  BY DEF Init, LinksMatch, Rings, InRing, Unlinked, Nodes
<1>3. LenCounts
  <2>1. \A l \in Lists : Contents(l) = {}
    BY DEF Init, Contents
  <2> QED
    BY <2>1, FS_EmptySet DEF Init, LenCounts
<1>4. CopyTypes /\ CopyInv
  BY DEF Init, CopyTypes, CopyInv, NotCopying, Calls
<1>5. Whole
  BY DEF Init, Whole, Connected
<1> QED
  BY <1>1, <1>2, <1>3, <1>4, <1>5, InvParts DEF LinkInv

\* insertValue in the ring of l, whatever was the last call.
LEMMA PushInv ==
    ASSUME LinkInv, NEW l \in Lists, NEW v \in Values,
           NEW at, at = l \/ at = LazyPrev(l)[l],
           InsertValue(l, LazyNext(l), LazyPrev(l), at, New, v)
    PROVE  LinkInv' /\ New \in Elems
<1> USE NodesDisjoint
<1>1. /\ LazyNext(l) \in Link /\ LazyPrev(l) \in Link /\ LazyNext(l)[l] # Nil
      /\ \A m \in Lists : m # l => LazyNext(l)[m] = next[m] /\ LazyPrev(l)[m] = prev[m]
      /\ \A m \in Lists : next[m] # Nil => LazyNext(l)[m] # Nil
      /\ Rings(LazyNext(l), LazyPrev(l), list, cleared)
      /\ Connected(LazyNext(l), list, cleared)
  BY Lazy
<1>2. InRing(LazyNext(l), list, cleared, l) /\ ListOf(list, l) = l
  BY <1>1 DEF InRing, ListOf
<1>3. Linked(LazyNext(l), LazyNext(l), list, cleared, l, LazyPrev(l)[l])
  BY <1>1, <1>2 DEF Rings
<1>4. at \in Nodes /\ InRing(LazyNext(l), list, cleared, at) /\ ListOf(list, at) = l
  BY <1>2, <1>3 DEF Linked
<1>5. \A m \in Lists : LazyNext(l)[m] = Nil => LazyPrev(l)[m] = Nil
  BY <1>1 DEF LinkInv, Unlinked
<1> QED
  BY <1>1, <1>4, <1>5, InsertInv

LEMMA InsertByInv ==
    ASSUME LinkInv, NEW l \in Lists, NEW v \in Values, NEW mark \in Usable, list[mark] = l,
           NEW at, at = mark \/ at = prev[mark],
           InsertValue(l, next, prev, at, New, v)
    PROVE  LinkInv' /\ New \in Elems
<1> USE NodesDisjoint
<1>1. mark \in Elems /\ InRing(next, list, cleared, mark) /\ ListOf(list, mark) = l
  BY DEF Usable, Made, InRing, ListOf
<1>2. Linked(next, next, list, cleared, mark, prev[mark])
  BY <1>1 DEF LinkInv, LinksMatch, Rings
<1>3. at \in Nodes /\ InRing(next, list, cleared, at) /\ ListOf(list, at) = l
  BY <1>1, <1>2 DEF Linked
<1>4. next[l] # Nil
  BY <1>1 DEF LinkInv, Unlinked
<1> QED
  BY <1>3, <1>4, InsertInv DEF LinkInv, LinkTypes, LinksMatch, Unlinked, Whole

LEMMA MoveByInv ==
    ASSUME LinkInv, NEW l \in Lists, NEW e \in Usable, list[e] = l,
           NEW mark \in Usable, list[mark] = l,
           NEW at, at = mark \/ at = prev[mark] \/ at = l \/ at = prev[l],
           Relink(e, at)
    PROVE  LinkInv'
<1> USE NodesDisjoint
<1>1. /\ e \in Elems /\ e \notin cleared
      /\ mark \in Elems /\ InRing(next, list, cleared, mark) /\ ListOf(list, mark) = l
  BY DEF Usable, Made, InRing, ListOf
<1>2. InRing(next, list, cleared, l) /\ ListOf(list, l) = l
  BY <1>1 DEF LinkInv, Unlinked, InRing, ListOf
<1>3. /\ Linked(next, next, list, cleared, mark, prev[mark])
      /\ Linked(next, next, list, cleared, l, prev[l])
  BY <1>1, <1>2 DEF LinkInv, LinksMatch, Rings
<1>4. at \in Nodes /\ InRing(next, list, cleared, at) /\ ListOf(list, at) = l
  BY <1>1, <1>2, <1>3 DEF Linked
<1> QED
  BY <1>1, <1>4, RelinkInv

LEMMA StayInv == LinkInv /\ Stay => LinkInv'
BY DEF Stay, links, LinkInv, LinkTypes, LinksMatch, Unlinked, LenCounts, Contents, Made, Whole

\* A call that returns at once leaves no loop behind.
LEMMA DoneInv ==
    ASSUME IInv, copying.to = Nil, LinkInv',
           NEW l \in Lists, NEW op \in Calls, NEW e \in Elems \cup {Nil},
           NEW m \in Elems \cup Lists \cup {Nil}, Done(l, op, e, m)
    PROVE  IInv'
<1>1. CopyTypes' /\ CopyInv'
  BY InvParts DEF Done, CopyTypes, CopyInv
<1> QED
  BY <1>1, InvParts, PTL

LEMMA OperationInv ==
    ASSUME IInv, copying.to = Nil, Operation
    PROVE  IInv'
<1> USE NodesDisjoint
<1>0. LinkInv /\ Usable \subseteq Elems
  BY InvParts DEF Usable, Made
<1> PICK l \in Lists :
        \/ InitList(l)
        \/ \E v \in Values : \/ PushFront(l, v) \/ PushBack(l, v)
                             \/ \E mark \in Usable : \/ InsertBefore(l, v, mark)
                                                     \/ InsertAfter(l, v, mark)
        \/ \E e \in Usable : \/ Remove(l, e) \/ MoveToFront(l, e) \/ MoveToBack(l, e)
                             \/ \E mark \in Usable : \/ MoveBefore(l, e, mark)
                                                     \/ MoveAfter(l, e, mark)
        \/ \E other \in Lists : PushListBegins(l, other)
  BY DEF Operation
<1>1. CASE InitList(l)
  <2>1. LinkInv' /\ Done(l, "Init", Nil, Nil)
    BY <1>0, <1>1, InitListInv DEF InitList
  <2> QED
    BY <2>1, DoneInv DEF Calls
<1>2. ASSUME NEW v \in Values, PushFront(l, v) \/ PushBack(l, v) PROVE IInv'
  <2>1. LinkInv' /\ New \in Elems
    BY <1>0, <1>2, PushInv DEF PushFront, PushBack
  <2> QED
    BY <1>2, <2>1, DoneInv DEF PushFront, PushBack, Calls
<1>3. ASSUME NEW v \in Values, NEW mark \in Usable,
             InsertBefore(l, v, mark) \/ InsertAfter(l, v, mark)
      PROVE  IInv'
  <2>1. CASE list[mark] = l
    <3>1. LinkInv' /\ New \in Elems
      BY <1>0, <1>3, <2>1, InsertByInv DEF InsertBefore, InsertAfter
    <3> QED
      BY <1>0, <1>3, <2>1, <3>1, DoneInv DEF InsertBefore, InsertAfter, Calls
  <2>2. CASE list[mark] # l
    <3>1. LinkInv'
      BY <1>0, <1>3, <2>2, StayInv DEF InsertBefore, InsertAfter
    <3> QED
      BY <1>0, <1>3, <2>2, <3>1, DoneInv DEF InsertBefore, InsertAfter, Calls
  <2> QED
    BY <2>1, <2>2
<1>4. ASSUME NEW e \in Usable, Remove(l, e) PROVE IInv'
  <2>1. LinkInv' /\ Done(l, "Remove", e, Nil)
    BY <1>0, <1>4, RemoveInv DEF Remove
  <2> QED
    BY <1>0, <2>1, DoneInv DEF Calls
<1>5. ASSUME NEW e \in Usable, MoveToFront(l, e) \/ MoveToBack(l, e) PROVE IInv'
  <2>1. LinkInv'
    <3>1. Stay \/ (list[e] = l /\ (Relink(e, l) \/ Relink(e, prev[l])))
      BY <1>5 DEF MoveToFront, MoveToBack
    <3> QED
      BY <1>0, <3>1, StayInv, MoveByInv
  <2> QED
    BY <1>0, <1>5, <2>1, DoneInv DEF MoveToFront, MoveToBack, Calls
<1>6. ASSUME NEW e \in Usable, NEW mark \in Usable, MoveBefore(l, e, mark) \/ MoveAfter(l, e, mark)
      PROVE  IInv'
  <2>1. LinkInv'
    <3>1. Stay \/ (list[e] = l /\ list[mark] = l /\ (Relink(e, mark) \/ Relink(e, prev[mark])))
      BY <1>6 DEF MoveBefore, MoveAfter
    <3> QED
      BY <1>0, <3>1, StayInv, MoveByInv
  <2> QED
    BY <1>0, <1>6, <2>1, DoneInv DEF MoveBefore, MoveAfter, Calls
<1>7. ASSUME NEW other \in Lists, PushListBegins(l, other) PROVE IInv'
  <2>1. /\ next' = LazyNext(l) /\ prev' = LazyPrev(l)
        /\ UNCHANGED <<list, len, value, cleared, call>>
    BY <1>7 DEF PushListBegins
  <2>2. LinkInv' /\ next'[l] # Nil
    <3>1. LinkTypes' /\ LinksMatch' /\ next'[l] # Nil /\ Whole'
      BY <1>0, <2>1, Lazy DEF LinkInv, LinkTypes, LinksMatch, Made, Whole
    <3>2. Unlinked'
      BY <1>0, <2>1, Lazy DEF LinkInv, LinkTypes, Unlinked, Field
    <3>3. LenCounts'
      BY <1>0, <2>1 DEF LinkInv, LenCounts, Contents
    <3> QED
      BY <3>1, <3>2, <3>3 DEF LinkInv
  <2>3. len[other] \in Nat
    BY <1>0 DEF LinkInv, LinkTypes
  <2>4. ASSUME NEW x, x = Front(other) \/ x = Back(other)
        PROVE  /\ x \in Nodes \cup {Nil}
               /\ x # Nil => InRing(next', list', cleared', x)
    <3>1. CASE len[other] = 0
      BY <2>4, <3>1 DEF Front, Back
    <3>2. CASE len[other] # 0
      <4>1. Contents(other) # {}
        BY <1>0, <3>2, FS_EmptySet DEF LinkInv, LenCounts
      <4>2. next[other] # Nil
        BY <1>0, <4>1 DEF Contents, LinkInv, Unlinked
      <4>3. /\ next[other] \in Nodes /\ InRing(next, list, cleared, next[other])
            /\ prev[other] \in Nodes /\ InRing(next, list, cleared, prev[other])
        BY <1>0, <4>2 DEF LinkInv, LinksMatch, Rings, InRing, Linked
      <4>4. \A y \in Nodes : InRing(next, list, cleared, y) => InRing(next', list', cleared', y)
        BY <1>0, <2>1, Lazy DEF InRing, Nodes
      <4> QED
        BY <2>4, <3>2, <4>3, <4>4 DEF Front, Back
    <3> QED
      BY <3>1, <3>2
  <2>5. CopyTypes' /\ CopyInv'
    <3>1. CASE copying' = [to |-> l, op |-> "PushBackList", other |-> other,
                           e |-> Front(other), i |-> len[other], made |-> {}]
      BY <3>1, <2>1, <2>2, <2>3, <2>4, InvParts DEF CopyTypes, CopyInv, Calls
    <3>2. CASE copying' = [to |-> l, op |-> "PushFrontList", other |-> other,
                           e |-> Back(other), i |-> len[other], made |-> {}]
      BY <3>2, <2>1, <2>2, <2>3, <2>4, InvParts DEF CopyTypes, CopyInv, Calls
    <3> QED
      BY <1>7, <3>1, <3>2 DEF PushListBegins
  <2> QED
    BY <2>2, <2>5, InvParts, PTL
<1> QED
  BY <1>1, <1>2, <1>3, <1>4, <1>5, <1>6, <1>7

\* One turn of the loop of PushBackList or PushFrontList.
LEMMA CopyOneInv ==
    ASSUME IInv, CopyOne
    PROVE  IInv'
<1> USE NodesDisjoint
<1> DEFINE l == copying.to
           to == IF copying.op = "PushBackList" THEN prev[l] ELSE l
<1>0. LinkInv /\ CopyTypes /\ CopyInv
  BY InvParts
<1>1. /\ copying.i > 0 /\ copying.e \in Elems
      /\ InsertValue(l, next, prev, to, New, value[copying.e])
      /\ copying' = [to |-> l, op |-> copying.op, other |-> copying.other, i |-> copying.i - 1,
                     e |-> Step(list', IF copying.op = "PushBackList" THEN next' ELSE prev', copying.e),
                     made |-> copying.made \cup {New}]
      /\ UNCHANGED call
  BY DEF CopyOne
<1>2. l \in Lists /\ next[l] # Nil
  BY <1>0, <1>1 DEF CopyTypes, CopyInv
<1>3. InRing(next, list, cleared, copying.e)
  BY <1>0, <1>1 DEF CopyInv
<1>4. value[copying.e] \in Values
  BY <1>0, <1>1, <1>3 DEF InRing, LinkInv, LinkTypes, Unlinked
<1>5. InRing(next, list, cleared, l) /\ ListOf(list, l) = l
  BY <1>2 DEF InRing, ListOf
<1>6. to \in Nodes /\ InRing(next, list, cleared, to) /\ ListOf(list, to) = l
  BY <1>0, <1>2, <1>5 DEF LinkInv, LinksMatch, Rings, Linked
<1> HIDE DEF to
<1>7. /\ LinkInv' /\ next'[l] # Nil /\ New \in Elems
      /\ \A x \in Nodes : InRing(next, list, cleared, x) => InRing(next', list', cleared', x)
  BY <1>0, <1>1, <1>2, <1>4, <1>6, InsertInv DEF LinkInv, LinkTypes, LinksMatch, Unlinked, Whole
<1> DEFINE f == IF copying.op = "PushBackList" THEN next' ELSE prev'
           s == Step(list', f, copying.e)
<1>8. InRing(next', list', cleared', copying.e)
  BY <1>1, <1>3, <1>7
<1>9. f[copying.e] \in Nodes /\ InRing(next', list', cleared', f[copying.e])
  BY <1>1, <1>7, <1>8 DEF LinkInv, LinksMatch, Rings, Linked
<1>10. s \in Nodes \cup {Nil} /\ (s # Nil => InRing(next', list', cleared', s))
  BY <1>9 DEF Step
<1> HIDE DEF s
<1>11. copying.i - 1 \in Nat
  BY <1>0, <1>1 DEF CopyTypes
<1>12. /\ copying'.to = l /\ copying'.e = s /\ copying'.i = copying.i - 1
       /\ copying' \in [to : Lists \cup {Nil}, op : Calls, other : Lists \cup {Nil},
                        e : Nodes \cup {Nil}, i : Nat, made : SUBSET Elems]
  BY <1>0, <1>1, <1>2, <1>7, <1>10, <1>11 DEF s, CopyTypes
<1>13. CopyTypes' /\ CopyInv'
  BY <1>0, <1>1, <1>2, <1>7, <1>10, <1>12 DEF CopyTypes, CopyInv
<1> QED
  BY <1>7, <1>13, InvParts, PTL

LEMMA PushListEndsInv ==
    ASSUME IInv, PushListEnds
    PROVE  IInv'
<1>1. /\ UNCHANGED <<next, prev, list, len, value, cleared>>
      /\ copying' = NotCopying
      /\ call' = [op |-> copying.op, list |-> copying.to, elem |-> Nil, mark |-> copying.other]
  BY DEF PushListEnds, links
<1>2. LinkInv'
  BY <1>1, InvParts DEF LinkInv, LinkTypes, LinksMatch, Unlinked, LenCounts, Contents, Made, Whole
<1>3. CopyTypes' /\ CopyInv'
  BY <1>1, InvParts DEF CopyTypes, CopyInv, NotCopying, Calls
<1> QED
  BY <1>2, <1>3, InvParts, PTL

LEMMA NextInv ==
    ASSUME IInv, [Next]_vars
    PROVE  IInv'
<1>1. CASE copying.to = Nil /\ Operation
  BY <1>1, OperationInv
<1>2. CASE CopyOne
  BY <1>2, CopyOneInv
<1>3. CASE PushListEnds
  BY <1>3, PushListEndsInv
<1>4. CASE UNCHANGED vars
  BY <1>4 DEF vars, links, IInv, Inv, TypeOK, LinksMatch, Unlinked, CopyInv, LenCounts,
              Contents, Made, Whole
<1> QED
  BY <1>1, <1>2, <1>3, <1>4 DEF Next

LEMMA IInvHolds == Spec => []IInv
<1>1. IInv /\ [Next]_vars => IInv'
  BY NextInv
<1> QED
  BY InitInv, <1>1, PTL DEF Spec

\* The links of all lists match and their lengths count their elements, after
\* any calls with any elements that are not of a cleared list.
THEOREM InvHolds == Spec => []Inv
<1>1. IInv => Inv
  BY DEF IInv
<1> QED
  BY <1>1, IInvHolds, PTL
-----------------------------------------------------------------------------
(***************************************************************************)
(* The walk from the root.  What n does in k steps is a function on 0..k   *)
(* for every k (a least k without one would have a predecessor with one),  *)
(* hence the function that Walk chooses is there.                          *)
(***************************************************************************)
LEMMA LeastNatural ==
    ASSUME NEW T \in SUBSET Nat, T # {}
    PROVE  \E m \in T : \A k \in T : m <= k
<1>1. PICK m \in T : \A k \in T : ~ (<<k, m>> \in OpToRel(<, Nat))
  BY NatLessThanWellFounded, WFMin
<1>2. ASSUME NEW k \in T PROVE m <= k
  <2>1. <<k, m>> \notin OpToRel(<, Nat)
    BY <1>1
  <2>2. ~ (k < m)
    BY <2>1 DEF OpToRel
  <2> QED
    BY <2>2
<1> QED
  BY <1>2

\* f is where n leads from x in k steps and fewer.
Steps(n, x, k, f) == f = [i \in 0 .. k |-> IF i = 0 THEN x ELSE n[f[i - 1]]]

LEMMA StepsExist ==
    ASSUME NEW n, NEW x, NEW k \in Nat
    PROVE  \E f : Steps(n, x, k, f)
<1> DEFINE T == {j \in Nat : ~ \E f : Steps(n, x, j, f)}
<1> SUFFICES ASSUME T # {} PROVE FALSE
  OBVIOUS
<1>1. PICK m \in T : \A j \in T : m <= j
  BY LeastNatural
<1>2. CASE m = 0
  <2> DEFINE f == [i \in 0 .. 0 |-> x]
  <2>1. Steps(n, x, 0, f)
    BY DEF Steps
  <2> QED
    BY <1>1, <1>2, <2>1
<1>3. CASE m # 0
  <2>1. m - 1 \in Nat /\ ~ (m <= m - 1)
    BY <1>3
  <2>2. PICK f : Steps(n, x, m - 1, f)
    BY <1>1, <2>1
  <2> DEFINE g == [i \in 0 .. m |-> IF i = m THEN n[f[m - 1]] ELSE f[i]]
  <2>3. ASSUME NEW i \in 0 .. m
        PROVE  g[i] = IF i = 0 THEN x ELSE n[g[i - 1]]
    <3>1. CASE i = 0
      BY <2>1, <2>2, <3>1, <1>3 DEF Steps
    <3>2. CASE i # 0
      <4>1. i - 1 \in 0 .. m /\ i - 1 # m /\ i - 1 \in 0 .. (m - 1)
        BY <3>2
      <4>2. g[i - 1] = f[i - 1]
        BY <4>1
      <4>3. CASE i = m
        BY <3>2, <4>2, <4>3
      <4>4. CASE i # m
        <5>1. i \in 0 .. (m - 1)
          BY <4>4
        <5>2. f[i] = n[f[i - 1]]
          BY <2>2, <3>2, <5>1 DEF Steps
        <5> QED
          BY <3>2, <4>2, <4>4, <5>2
      <4> QED
        BY <4>3, <4>4
    <3> QED
      BY <3>1, <3>2
  <2>4. Steps(n, x, m, g)
    BY <2>3 DEF Steps
  <2> QED
    BY <1>1, <2>4
<1> QED
  BY <1>2, <1>3

LEMMA StepsAgree ==
    ASSUME NEW n, NEW x, NEW k \in Nat, NEW f, Steps(n, x, k, f),
           NEW h \in Nat, NEW g, Steps(n, x, h, g), NEW i \in Nat, i <= k, i <= h
    PROVE  f[i] = g[i]
<1> DEFINE T == {j \in Nat : j <= k /\ j <= h /\ f[j] # g[j]}
<1> SUFFICES ASSUME T # {} PROVE FALSE
  OBVIOUS
<1>1. PICK m \in T : \A j \in T : m <= j
  BY LeastNatural
<1>2. /\ f[m] = IF m = 0 THEN x ELSE n[f[m - 1]]
      /\ g[m] = IF m = 0 THEN x ELSE n[g[m - 1]]
  <2>1. m \in 0 .. k /\ m \in 0 .. h
    BY <1>1
  <2> QED
    BY <2>1 DEF Steps
<1>3. m # 0
  BY <1>1, <1>2
<1>4. m - 1 \in Nat /\ m - 1 <= k /\ m - 1 <= h /\ ~ (m <= m - 1)
  BY <1>3
<1>5. f[m - 1] = g[m - 1]
  BY <1>1, <1>4
<1> QED
  BY <1>1, <1>2, <1>3, <1>5

Path(n, x) == CHOOSE at : at = [i \in Nat |-> IF i = 0 THEN x ELSE n[at[i - 1]]]

LEMMA PathIs ==
    ASSUME NEW n, NEW x
    PROVE  /\ Path(n, x)[0] = x
           /\ \A i \in Nat : i # 0 => Path(n, x)[i] = n[Path(n, x)[i - 1]]
<1> DEFINE Some(k) == CHOOSE f : Steps(n, x, k, f)
           F == [i \in Nat |-> Some(i)[i]]
<1>1. \A k \in Nat : Steps(n, x, k, Some(k))
  BY StepsExist
<1> HIDE DEF Some
<1>2. ASSUME NEW i \in Nat
      PROVE  F[i] = IF i = 0 THEN x ELSE n[F[i - 1]]
  <2>1. Some(i)[i] = IF i = 0 THEN x ELSE n[Some(i)[i - 1]]
    BY <1>1 DEF Steps
  <2>2. ASSUME i # 0 PROVE Some(i)[i - 1] = Some(i - 1)[i - 1]
    BY <1>1, <2>2, StepsAgree
  <2> QED
    BY <2>1, <2>2
<1>3. F = [i \in Nat |-> IF i = 0 THEN x ELSE n[F[i - 1]]]
  BY <1>2
<1> HIDE DEF F
<1>4. Path(n, x) = [i \in Nat |-> IF i = 0 THEN x ELSE n[Path(n, x)[i - 1]]]
  BY <1>3 DEF Path
<1> QED
  BY <1>4

LEMMA WalkIs == ASSUME NEW l PROVE Walk(l) = [i \in 1 .. len[l] |-> Path(next, l)[i]]
BY DEF Walk, Path

\* Who follows the links from the root stays in its ring, and prev leads back.
LEMMA PathInRing ==
    ASSUME LinkInv, NEW l \in Lists, next[l] # Nil, NEW i \in Nat
    PROVE  /\ Path(next, l)[i] \in Contents(l) \cup {l}
           /\ next[Path(next, l)[i]] = Path(next, l)[i + 1]
           /\ prev[Path(next, l)[i + 1]] = Path(next, l)[i]
<1> USE NodesDisjoint
<1> DEFINE a == Path(next, l)
           T == {j \in Nat : a[j] \notin Contents(l) \cup {l}}
<1>1. a[0] = l /\ \A j \in Nat : a[j + 1] = next[a[j]]
  <2>1. \A j \in Nat : j + 1 \in Nat /\ j + 1 # 0 /\ (j + 1) - 1 = j
    OBVIOUS
  <2> QED
    BY <2>1, PathIs
<1> HIDE DEF a
<1>2. ASSUME NEW x \in Contents(l) \cup {l}
      PROVE  next[x] \in Contents(l) \cup {l} /\ prev[next[x]] = x
  <2>1. x \in Nodes /\ InRing(next, list, cleared, x) /\ ListOf(list, x) = l
    BY <1>2 DEF Contents, InRing, ListOf, Nodes
  <2>2. Linked(next, prev, list, cleared, x, next[x])
    BY <2>1 DEF LinkInv, LinksMatch, Rings
  <2> QED
    BY <2>1, <2>2 DEF Linked, Contents, InRing, ListOf, Nodes
<1>3. T = {}
  <2> SUFFICES ASSUME T # {} PROVE FALSE
    OBVIOUS
  <2>1. PICK m \in T : \A j \in T : m <= j
    BY LeastNatural
  <2>2. m # 0
    BY <1>1, <2>1
  <2>3. m - 1 \in Nat /\ (m - 1) + 1 = m /\ ~ (m <= m - 1)
    BY <2>2
  <2>4. a[m - 1] \in Contents(l) \cup {l}
    BY <2>1, <2>3
  <2>5. a[m] = next[a[m - 1]]
    BY <1>1, <2>3
  <2> QED
    BY <1>2, <2>1, <2>4, <2>5
<1>4. a[i] \in Contents(l) \cup {l}
  BY <1>3
<1> QED
  BY <1>1, <1>2, <1>4 DEF a

\* As long as the walk is not back at the root it meets nobody twice.
LEMMA PathMeetsOnce ==
    ASSUME LinkInv, NEW l \in Lists, next[l] # Nil, NEW k \in Nat,
           \A h \in 1 .. k : Path(next, l)[h] # l,
           NEW i \in 0 .. k, NEW j \in 0 .. k, Path(next, l)[i] = Path(next, l)[j]
    PROVE  i = j
<1> DEFINE a == Path(next, l)
           T == {x \in Nat : \E y \in 0 .. k : x < y /\ a[x] = a[y]}
<1>1. a[0] = l
  BY PathIs
<1>2. \A x \in Nat : prev[a[x + 1]] = a[x]
  BY PathInRing
<1>3. \A h \in 1 .. k : a[h] # l
  OBVIOUS
<1>4. a[i] = a[j]
  OBVIOUS
<1> HIDE DEF a
<1>5. T = {}
  <2> SUFFICES ASSUME T # {} PROVE FALSE
    OBVIOUS
  <2>1. PICK m \in T : \A x \in T : m <= x
    BY LeastNatural
  <2>2. PICK y \in 0 .. k : m < y /\ a[m] = a[y]
    BY <2>1
  <2>3. CASE m = 0
    BY <1>1, <1>3, <2>2, <2>3
  <2>4. CASE m # 0
    <3>1. m - 1 \in Nat /\ (m - 1) + 1 = m /\ y - 1 \in 0 .. k /\ (y - 1) + 1 = y
      BY <2>2, <2>4
    <3>2. a[m - 1] = a[y - 1]
      BY <1>2, <2>2, <3>1
    <3>3. m - 1 \in T
      BY <2>2, <3>1, <3>2
    <3> QED
      BY <2>1, <3>1, <3>3
  <2> QED
    BY <2>3, <2>4
<1>6. ~ (i < j) /\ ~ (j < i)
  BY <1>4, <1>5
<1> QED
  BY <1>6

\* The walk comes back to the root, for the ring is finite.
LEMMA PathReturns ==
    ASSUME LinkInv, NEW l \in Lists, next[l] # Nil
    PROVE  \E k \in Nat : /\ k # 0 /\ Path(next, l)[k] = l
                          /\ \A h \in Nat : h # 0 /\ h < k => Path(next, l)[h] # l
<1> DEFINE a == Path(next, l)
           R == Contents(l) \cup {l}
           T == {k \in Nat : k # 0 /\ a[k] = l}
<1>1. IsFiniteSet(R) /\ Cardinality(R) \in Nat
  BY ContentsFinite, FS_AddElement, FS_CardinalityType
<1>2. T # {}
  <2> SUFFICES ASSUME T = {} PROVE FALSE
    OBVIOUS
  <2> DEFINE S == 0 .. Cardinality(R)
             f == [i \in S |-> a[i]]
  <2>1. IsFiniteSet(S) /\ Cardinality(R) < Cardinality(S)
    BY <1>1, FS_Interval
  <2>2. f \in [S -> R]
    BY <1>1, PathInRing
  <2> HIDE DEF R, f
  <2>3. PICK i, j \in S : i # j /\ f[i] = f[j]
    <3> HIDE DEF S
    <3> QED
      BY <1>1, <2>1, <2>2, FS_PigeonHole
  <2>4. \A h \in 1 .. Cardinality(R) : a[h] # l
    BY <1>1
  <2>5. a[i] = a[j]
    BY <2>3 DEF f
  <2> QED
    BY <1>1, <2>3, <2>4, <2>5, PathMeetsOnce
<1>3. PICK k \in T : \A h \in T : k <= h
  BY <1>2, LeastNatural
<1>4. ASSUME NEW h \in Nat, h # 0, h < k PROVE a[h] # l
  BY <1>3, <1>4
<1> QED
  BY <1>3, <1>4

\* One turn around the ring meets the root and every element of the list.
LEMMA PathIsRing ==
    ASSUME LinkInv, NEW l \in Lists, next[l] # Nil
    PROVE  /\ len[l] \in Nat
           /\ Path(next, l)[len[l] + 1] = l
           /\ \A i \in 1 .. len[l] : Path(next, l)[i] \in Contents(l)
           /\ \A e \in Contents(l) : \E i \in 1 .. len[l] : e = Path(next, l)[i]
<1> USE NodesDisjoint
<1> DEFINE a == Path(next, l)
           R == Contents(l) \cup {l}
<1>1. PICK k \in Nat : /\ k # 0 /\ a[k] = l
                       /\ \A h \in Nat : h # 0 /\ h < k => a[h] # l
  BY PathReturns
<1>2. a[0] = l /\ \A i \in Nat : a[i] \in R /\ next[a[i]] = a[i + 1]
  BY PathIs, PathInRing
<1>3. k - 1 \in Nat /\ (k - 1) + 1 = k
  BY <1>1
<1>4. ASSUME NEW i \in 0 .. (k - 1), NEW j \in 0 .. (k - 1), a[i] = a[j]
      PROVE  i = j
  <2>1. \A h \in 1 .. (k - 1) : a[h] # l
    BY <1>1
  <2> QED
    BY <1>3, <1>4, <2>1, PathMeetsOnce
<1>5. l \notin Contents(l) /\ Contents(l) \subseteq Elems /\ Elems \subseteq Nodes /\ l \in Nodes
  BY DEF Contents, Nodes
<1> HIDE DEF a
<1> DEFINE M == {a[i] : i \in 0 .. (k - 1)}
<1>6. l \in M /\ M \subseteq R
  BY <1>2, <1>3
<1>7. \A x \in M : next[x] \in M
  <2> SUFFICES ASSUME NEW i \in 0 .. (k - 1) PROVE a[i + 1] \in M
    BY <1>2
  <2>1. CASE i = k - 1
    BY <1>1, <1>3, <1>6, <2>1
  <2>2. CASE i # k - 1
    <3>1. i + 1 \in 0 .. (k - 1)
      BY <1>3, <2>2
    <3> QED
      BY <3>1
  <2> QED
    BY <2>1, <2>2
<1>8. Contents(l) \subseteq M
  <2>1. M \in SUBSET Nodes
    BY <1>5, <1>6
  <2> HIDE DEF M
  <2>2. \A e \in Elems : list[e] = l /\ e \notin cleared => e \in M
    BY <1>6, <1>7, <2>1 DEF LinkInv, Whole, Connected
  <2> QED
    BY <2>2 DEF Contents
<1>9. M = R
  BY <1>6, <1>8
<1>10. len[l] = k - 1
  <2> DEFINE f == [i \in 0 .. (k - 1) |-> a[i]]
  <2>1. f \in Bijection(0 .. (k - 1), R)
    <3>1. f \in [0 .. (k - 1) -> R]
      BY <1>2, <1>3
    <3>2. \A i, j \in 0 .. (k - 1) : f[i] = f[j] => i = j
      BY <1>4
    <3>3. \A x \in R : \E i \in 0 .. (k - 1) : f[i] = x
      BY <1>9
    <3> HIDE DEF f, R
    <3> QED
      BY <3>1, <3>2, <3>3, Zenon DEF Bijection, Injection, Surjection, IsInjective
  <2>2. IsFiniteSet(0 .. (k - 1)) /\ Cardinality(0 .. (k - 1)) = k
    BY <1>1, <1>3, FS_Interval
  <2>3. Cardinality(R) = k
    <3> HIDE DEF f, R
    <3>1. ExistsBijection(0 .. (k - 1), R)
      BY <2>1, Zenon DEF ExistsBijection
    <3> QED
      BY <2>2, <3>1, FS_Bijection
  <2>4. Cardinality(R) = Cardinality(Contents(l)) + 1
    BY <1>5, ContentsFinite, FS_AddElement
  <2>5. len[l] = Cardinality(Contents(l))
    BY DEF LinkInv, LenCounts
  <2> QED
    BY <2>3, <2>4, <2>5, ContentsFinite
<1>11. ASSUME NEW i \in 1 .. len[l] PROVE a[i] \in Contents(l)
  BY <1>1, <1>2, <1>10, <1>11
<1>12. ASSUME NEW e \in Contents(l) PROVE \E i \in 1 .. len[l] : e = a[i]
  <2>1. PICK i \in 0 .. (k - 1) : e = a[i]
    BY <1>8, <1>12
  <2>2. i # 0
    BY <1>2, <1>5, <2>1
  <2> QED
    BY <1>3, <1>10, <2>1, <2>2
<1> QED
  BY <1>1, <1>3, <1>10, <1>11, <1>12 DEF a

\* The walk from the root meets the elements of the list and no other.
LEMMA WalkMeetsAll == LinkInv => WalkIsComplete
<1> USE NodesDisjoint
<1> SUFFICES ASSUME LinkInv, NEW l \in Lists
             PROVE  /\ {Walk(l)[i] : i \in 1 .. Len(Walk(l))} = Contents(l)
                    /\ Walk(l) # <<>> => /\ Front(l) = Walk(l)[1]
                                         /\ Back(l) = Walk(l)[Len(Walk(l))]
  BY DEF WalkIsComplete
<1> DEFINE w == Walk(l)
           a == Path(next, l)
<1>1. len[l] \in Nat /\ w = [i \in 1 .. len[l] |-> a[i]]
  BY WalkIs DEF LinkInv, LinkTypes
<1>2. Len(w) = len[l] /\ \A i \in 1 .. len[l] : w[i] = a[i]
  BY <1>1
<1> HIDE DEF w, a
<1>3. CASE next[l] = Nil
  <2>1. Contents(l) = {}
    BY <1>3 DEF Contents, LinkInv, Unlinked
  <2>2. len[l] = 0
    BY <2>1, FS_EmptySet DEF LinkInv, LenCounts
  <2>3. w = <<>>
    BY <1>1, <2>2
  <2> QED
    BY <1>2, <2>1, <2>2, <2>3 DEF w
<1>4. CASE next[l] # Nil
  <2>1. /\ a[len[l] + 1] = l
        /\ \A i \in 1 .. len[l] : a[i] \in Contents(l)
        /\ \A e \in Contents(l) : \E i \in 1 .. len[l] : e = a[i]
    BY <1>4, PathIsRing DEF a
  <2>2. {w[i] : i \in 1 .. Len(w)} = Contents(l)
    BY <1>2, <2>1
  <2>3. ASSUME w # <<>> PROVE Front(l) = w[1] /\ Back(l) = w[Len(w)]
    <3>1. len[l] # 0
      BY <1>1, <2>3
    <3>2. a[0] = l /\ a[1] = next[l]
      BY PathIs DEF a
    <3>3. prev[a[len[l] + 1]] = a[len[l]]
      BY <1>1, <1>4, PathInRing DEF a
    <3>4. 1 \in 1 .. len[l] /\ len[l] \in 1 .. len[l]
      BY <1>1, <3>1
    <3> QED
      BY <1>2, <2>1, <3>1, <3>2, <3>3, <3>4 DEF Front, Back
  <2> QED
    BY <2>2, <2>3 DEF w
<1> QED
  BY <1>3, <1>4

\* Who follows a list from its front to its back meets all its elements, each
\* once, and no element of another list (list.go:7).
THEOREM WalkIsCompleteHolds == Spec => []WalkIsComplete
<1>1. IInv => WalkIsComplete
  BY WalkMeetsAll, InvParts
<1> QED
  BY <1>1, IInvHolds, PTL
-----------------------------------------------------------------------------
(***************************************************************************)
(* The sequences of ListContents, element by element.                      *)
(***************************************************************************)
Injective(s) == \A i, j \in 1 .. Len(s) : s[i] = s[j] => i = j

LEMMA InsertAtIs ==
    ASSUME NEW s \in Seq(Elems), NEW k \in 1 .. Len(s) + 1, NEW e \in Elems
    PROVE  /\ Promise!InsertAt(s, k, e) \in Seq(Elems)
           /\ Len(Promise!InsertAt(s, k, e)) = Len(s) + 1
           /\ \A i \in 1 .. Len(s) + 1 :
                 Promise!InsertAt(s, k, e)[i] = IF i < k THEN s[i] ELSE IF i = k THEN e ELSE s[i - 1]
<1> DEFINE a == SubSeq(s, 1, k - 1)
           b == SubSeq(s, k, Len(s))
<1>1. Len(s) \in Nat /\ k \in Int /\ k - 1 \in Int /\ Len(s) \in Int
  OBVIOUS
<1>2. /\ a \in Seq(Elems) /\ Len(a) = k - 1
      /\ \A i \in 1 .. k - 1 : a[i] = s[i]
  BY <1>1, SubSeqProperties
<1>3. /\ b \in Seq(Elems) /\ Len(b) = Len(s) - k + 1
      /\ \A i \in 1 .. Len(s) - k + 1 : b[i] = s[k + i - 1]
  BY <1>1, SubSeqProperties
<1>4. <<e>> \in Seq(Elems) /\ Len(<<e>>) = 1 /\ <<e>>[1] = e
  OBVIOUS
<1> HIDE DEF a, b
<1>5. /\ a \o <<e>> \in Seq(Elems) /\ Len(a \o <<e>>) = k
      /\ \A i \in 1 .. k : (a \o <<e>>)[i] = IF i < k THEN s[i] ELSE e
  BY <1>1, <1>2, <1>4, ConcatProperties
<1>6. /\ (a \o <<e>>) \o b \in Seq(Elems) /\ Len((a \o <<e>>) \o b) = Len(s) + 1
      /\ \A i \in 1 .. Len(s) + 1 :
            ((a \o <<e>>) \o b)[i] = IF i <= k THEN (a \o <<e>>)[i] ELSE b[i - k]
  BY <1>1, <1>3, <1>5, ConcatProperties
<1>7. \A i \in 1 .. Len(s) + 1 : i > k => b[i - k] = s[i - 1]
  <2> TAKE i \in 1 .. Len(s) + 1
  <2> HAVE i > k
  <2>1. i - k \in 1 .. Len(s) - k + 1 /\ k + (i - k) - 1 = i - 1
    BY <1>1
  <2> QED
    BY <1>3, <2>1
<1>8. \A i \in 1 .. Len(s) + 1 :
         ((a \o <<e>>) \o b)[i] = IF i < k THEN s[i] ELSE IF i = k THEN e ELSE s[i - 1]
  BY <1>1, <1>5, <1>6, <1>7
<1> QED
  BY <1>6, <1>8 DEF a, b, Promise!InsertAt

LEMMA RemoveAtIs ==
    ASSUME NEW s \in Seq(Elems), NEW k \in 1 .. Len(s)
    PROVE  /\ Promise!RemoveAt(s, k) \in Seq(Elems)
           /\ Len(Promise!RemoveAt(s, k)) = Len(s) - 1
           /\ \A i \in 1 .. Len(s) - 1 :
                 Promise!RemoveAt(s, k)[i] = IF i < k THEN s[i] ELSE s[i + 1]
<1> DEFINE a == SubSeq(s, 1, k - 1)
           b == SubSeq(s, k + 1, Len(s))
<1>1. Len(s) \in Nat /\ k \in Int /\ k - 1 \in Int /\ k + 1 \in Int /\ Len(s) \in Int
  OBVIOUS
<1>2. /\ a \in Seq(Elems) /\ Len(a) = k - 1
      /\ \A i \in 1 .. k - 1 : a[i] = s[i]
  BY <1>1, SubSeqProperties
<1>3. /\ b \in Seq(Elems) /\ Len(b) = Len(s) - k
      /\ \A i \in 1 .. Len(s) - k : b[i] = s[k + i]
  <2>1. /\ b \in Seq(Elems) /\ Len(b) = IF k + 1 <= Len(s) THEN Len(s) - (k + 1) + 1 ELSE 0
        /\ \A i \in 1 .. Len(s) - (k + 1) + 1 : b[i] = s[(k + 1) + i - 1]
    BY <1>1, SubSeqProperties
  <2>2. Len(s) - (k + 1) + 1 = Len(s) - k /\ \A i \in Int : (k + 1) + i - 1 = k + i
    BY <1>1
  <2> HIDE DEF b
  <2>3. Len(b) = Len(s) - k
    BY <1>1, <2>1
  <2>4. ASSUME NEW i \in 1 .. Len(s) - k PROVE b[i] = s[k + i]
    <3>1. i \in 1 .. Len(s) - (k + 1) + 1 /\ (k + 1) + i - 1 = k + i
      BY <1>1
    <3> QED
      BY <2>1, <3>1
  <2> QED
    BY <2>1, <2>3, <2>4
<1> HIDE DEF a, b
<1>4. /\ a \o b \in Seq(Elems) /\ Len(a \o b) = Len(s) - 1
      /\ \A i \in 1 .. Len(s) - 1 :
            (a \o b)[i] = IF i <= k - 1 THEN a[i] ELSE b[i - (k - 1)]
  <2>1. Len(a) + Len(b) = Len(s) - 1
    BY <1>1, <1>2, <1>3
  <2>2. /\ a \o b \in Seq(Elems) /\ Len(a \o b) = Len(a) + Len(b)
        /\ \A i \in 1 .. Len(a) + Len(b) :
              (a \o b)[i] = IF i <= Len(a) THEN a[i] ELSE b[i - Len(a)]
    BY <1>2, <1>3, ConcatProperties
  <2> QED
    BY <1>2, <2>1, <2>2
<1>5. \A i \in 1 .. Len(s) - 1 : i >= k => b[i - (k - 1)] = s[i + 1]
  <2> TAKE i \in 1 .. Len(s) - 1
  <2> HAVE i >= k
  <2>1. i - (k - 1) \in 1 .. Len(s) - k /\ k + (i - (k - 1)) = i + 1
    BY <1>1
  <2> QED
    BY <1>3, <2>1
<1>6. \A i \in 1 .. Len(s) - 1 : (a \o b)[i] = IF i < k THEN s[i] ELSE s[i + 1]
  BY <1>1, <1>2, <1>4, <1>5
<1> QED
  BY <1>4, <1>6 DEF a, b, Promise!RemoveAt

LEMMA PosIs ==
    ASSUME NEW s \in Seq(Elems), Injective(s), NEW k \in 1 .. Len(s)
    PROVE  Promise!Pos(s, s[k]) = k
<1>1. {i \in 1 .. Len(s) : s[i] = s[k]} = {k}
  BY DEF Injective
<1>2. Promise!Min({k}) = k
  BY DEF Promise!Min
<1> QED
  BY <1>1, <1>2 DEF Promise!Pos, Promise!SelectInSeq

LEMMA RemoveFirstIs ==
    ASSUME NEW s \in Seq(Elems), Injective(s)
    PROVE  /\ \A k \in 1 .. Len(s) : Promise!RemoveFirst(s, s[k]) = Promise!RemoveAt(s, k)
           /\ \A e : (\A i \in 1 .. Len(s) : s[i] # e) => Promise!RemoveFirst(s, e) = s
<1>1. ASSUME NEW k \in 1 .. Len(s)
      PROVE  Promise!RemoveFirst(s, s[k]) = Promise!RemoveAt(s, k)
  <2>1. Promise!SelectInSeq(s, LAMBDA v : v = s[k]) = k
    BY PosIs DEF Promise!Pos
  <2> QED
    BY <2>1 DEF Promise!RemoveFirst
<1> QED
  BY <1>1 DEF Promise!RemoveFirst

\* Who takes an element out and puts it back where it was has changed nothing.
LEMMA Reinsert ==
    ASSUME NEW s \in Seq(Elems), NEW k \in 1 .. Len(s)
    PROVE  Promise!InsertAt(Promise!RemoveAt(s, k), k, s[k]) = s
<1> DEFINE e == s[k]
           r == Promise!RemoveAt(s, k)
           t == Promise!InsertAt(r, k, e)
<1>1. /\ r \in Seq(Elems) /\ Len(r) = Len(s) - 1
      /\ \A i \in 1 .. Len(s) - 1 : r[i] = IF i < k THEN s[i] ELSE s[i + 1]
  BY RemoveAtIs
<1>2. e \in Elems /\ k \in 1 .. Len(r) + 1
  BY <1>1
<1> HIDE DEF r, e
<1>3. /\ t \in Seq(Elems) /\ Len(t) = Len(s)
      /\ \A i \in 1 .. Len(s) : t[i] = IF i < k THEN r[i] ELSE IF i = k THEN e ELSE r[i - 1]
  <2>1. /\ t \in Seq(Elems) /\ Len(t) = Len(r) + 1
        /\ \A i \in 1 .. Len(r) + 1 :
              t[i] = IF i < k THEN r[i] ELSE IF i = k THEN e ELSE r[i - 1]
    <3>1. r \in Seq(Elems)
      BY <1>1
    <3> QED
      BY <1>2, <3>1, InsertAtIs
  <2>2. Len(r) + 1 = Len(s)
    BY <1>1
  <2> HIDE DEF t
  <2> QED
    BY <2>1, <2>2
<1> HIDE DEF t
<1>4. ASSUME NEW i \in 1 .. Len(s) PROVE t[i] = s[i]
  <2>0. CASE i < k
    <3>1. i \in 1 .. Len(s) - 1
      BY <2>0
    <3> QED
      BY <1>1, <1>3, <2>0, <3>1
  <2>1. CASE i = k
    BY <1>3, <2>1 DEF e
  <2>2. CASE i > k
    <3>1. i - 1 \in 1 .. Len(s) - 1 /\ ~ (i - 1 < k) /\ (i - 1) + 1 = i
      BY <2>2
    <3>2. r[i - 1] = s[i]
      BY <1>1, <3>1
    <3> QED
      BY <1>3, <2>2, <3>2
  <2> QED
    BY <2>0, <2>1, <2>2
<1> QED
  BY <1>3, <1>4, SeqEqual DEF t, r, e

LEMMA InsertAtEnds ==
    ASSUME NEW s \in Seq(Elems), NEW e \in Elems
    PROVE  /\ Promise!InsertAt(s, 1, e) = <<e>> \o s
           /\ Promise!InsertAt(s, Len(s) + 1, e) = Append(s, e)
<1>1. Len(s) \in Nat /\ 1 \in 1 .. Len(s) + 1 /\ Len(s) + 1 \in 1 .. Len(s) + 1
  OBVIOUS
<1>2. <<e>> \in Seq(Elems) /\ Len(<<e>>) = 1 /\ <<e>>[1] = e
  OBVIOUS
<1>3. Promise!InsertAt(s, 1, e) = <<e>> \o s
  <2>1. /\ <<e>> \o s \in Seq(Elems) /\ Len(<<e>> \o s) = 1 + Len(s)
        /\ \A i \in 1 .. 1 + Len(s) : (<<e>> \o s)[i] = IF i <= 1 THEN e ELSE s[i - 1]
    BY <1>2, ConcatProperties
  <2> DEFINE t == Promise!InsertAt(s, 1, e)
  <2>2. /\ t \in Seq(Elems) /\ Len(t) = Len(s) + 1
        /\ \A i \in 1 .. Len(s) + 1 : t[i] = IF i < 1 THEN s[i] ELSE IF i = 1 THEN e ELSE s[i - 1]
    BY <1>1, InsertAtIs
  <2> HIDE DEF t
  <2>3. \A i \in 1 .. Len(t) : t[i] = (<<e>> \o s)[i]
    BY <1>1, <2>1, <2>2
  <2> QED
    BY <1>1, <2>1, <2>2, <2>3, SeqEqual DEF t
<1>4. Promise!InsertAt(s, Len(s) + 1, e) = Append(s, e)
  <2>1. /\ Append(s, e) \in Seq(Elems) /\ Len(Append(s, e)) = Len(s) + 1
        /\ \A i \in 1 .. Len(s) : Append(s, e)[i] = s[i]
        /\ Append(s, e)[Len(s) + 1] = e
    BY AppendProperties
  <2>4. \A k \in 1 .. Len(s) + 1 :
           /\ Promise!InsertAt(s, k, e) \in Seq(Elems)
           /\ Len(Promise!InsertAt(s, k, e)) = Len(s) + 1
           /\ \A i \in 1 .. Len(s) + 1 :
                 Promise!InsertAt(s, k, e)[i] = IF i < k THEN s[i] ELSE IF i = k THEN e ELSE s[i - 1]
    BY InsertAtIs
  <2> DEFINE t == Promise!InsertAt(s, Len(s) + 1, e)
  <2>2. /\ t \in Seq(Elems) /\ Len(t) = Len(s) + 1
        /\ \A i \in 1 .. Len(s) + 1 :
              t[i] = IF i < Len(s) + 1 THEN s[i] ELSE IF i = Len(s) + 1 THEN e ELSE s[i - 1]
    BY <1>1, <2>4
  <2> HIDE DEF t
  <2>3. \A i \in 1 .. Len(t) : t[i] = Append(s, e)[i]
    BY <1>1, <2>1, <2>2
  <2> QED
    BY <1>1, <2>1, <2>2, <2>3, SeqEqual DEF t
<1> QED
  BY <1>3, <1>4
-----------------------------------------------------------------------------
(***************************************************************************)
(* What rewiring a ring does to the sequence of its elements.              *)
(***************************************************************************)

\* Where one is after i steps from the root of l in the ring of the elements s.
At(l, s, i) == IF i \in 1 .. Len(s) THEN s[i] ELSE l

Chain(n, l, s) ==
    /\ s \in Seq(Elems) /\ Injective(s)
    /\ \A i \in 0 .. Len(s) : n[At(l, s, i)] = At(l, s, i + 1)

LEMMA AtOnce ==
    ASSUME NEW l \in Lists, NEW s \in Seq(Elems), Injective(s),
           NEW i \in 0 .. Len(s), NEW j \in 0 .. Len(s), At(l, s, i) = At(l, s, j)
    PROVE  i = j
<1>1. \A m \in 1 .. Len(s) : s[m] \in Elems
  OBVIOUS
<1>2. \A m \in 1 .. Len(s) : s[m] # l
  BY <1>1, NodesDisjoint
<1> QED
  BY <1>2 DEF At, Injective

LEMMA AtIsNode ==
    ASSUME NEW l \in Lists, NEW s \in Seq(Elems), NEW i \in Int
    PROVE  At(l, s, i) \in Nodes
BY DEF At, Nodes

\* insert: e comes after the k-th node.
LEMMA ChainInsert ==
    ASSUME NEW n \in Link, NEW l \in Lists, NEW s, Chain(n, l, s),
           NEW e \in Elems, \A i \in 1 .. Len(s) : s[i] # e,
           NEW k \in 0 .. Len(s), NEW at, at = At(l, s, k)
    PROVE  Chain(Put(Put(n, e, n[at]), at, e), l, Promise!InsertAt(s, k + 1, e))
<1> USE NodesDisjoint
<1> DEFINE n2 == Put(Put(n, e, n[at]), at, e)
           t == Promise!InsertAt(s, k + 1, e)
<1>1. s \in Seq(Elems) /\ Injective(s) /\ Len(s) \in Nat
  BY DEF Chain
<1>2. at \in Nodes /\ at # e
  BY <1>1, AtIsNode DEF At
<1>3. n[at] = At(l, s, k + 1) /\ n[at] \in Nodes
  BY <1>1, AtIsNode DEF Chain
<1>4. n2[at] = e /\ n2[e] = n[at] /\ \A z \in Nodes : z # at /\ z # e => n2[z] = n[z]
  BY <1>2, <1>3 DEF Put, Link
<1>5. /\ t \in Seq(Elems) /\ Len(t) = Len(s) + 1
      /\ \A i \in 1 .. Len(s) + 1 :
            t[i] = IF i < k + 1 THEN s[i] ELSE IF i = k + 1 THEN e ELSE s[i - 1]
  <2>1. k + 1 \in 1 .. Len(s) + 1
    BY <1>1
  <2> HIDE DEF t
  <2> QED
    BY <1>1, <2>1, InsertAtIs DEF t
<1> HIDE DEF t, n2
<1>6. ASSUME NEW i \in 0 .. Len(s) + 2
      PROVE  At(l, t, i) = IF i <= k THEN At(l, s, i)
                           ELSE IF i = k + 1 THEN e ELSE At(l, s, i - 1)
  <2>1. CASE i <= k
    BY <1>1, <1>5, <2>1 DEF At
  <2>2. CASE i = k + 1
    BY <1>1, <1>5, <2>2 DEF At
  <2>3. CASE i > k + 1
    BY <1>1, <1>5, <2>3 DEF At
  <2> QED
    BY <1>1, <2>1, <2>2, <2>3
<1>7. ASSUME NEW i \in 0 .. Len(s) + 1
      PROVE  n2[At(l, t, i)] = At(l, t, i + 1)
  <2>1. CASE i < k
    <3>1. i \in 0 .. Len(s) /\ i + 1 \in 0 .. Len(s) + 2 /\ i \in 0 .. Len(s) + 2
      BY <1>1, <2>1
    <3>2. At(l, s, i) \in Nodes /\ At(l, s, i) # at /\ At(l, s, i) # e
      BY <1>1, <2>1, <3>1, AtIsNode, AtOnce DEF At
    <3>3. n[At(l, s, i)] = At(l, s, i + 1)
      BY <3>1 DEF Chain
    <3>4. At(l, t, i) = At(l, s, i) /\ At(l, t, i + 1) = At(l, s, i + 1)
      BY <1>6, <2>1, <3>1
    <3> QED
      BY <1>4, <3>2, <3>3, <3>4
  <2>2. CASE i = k
    <3>1. At(l, t, i) = at /\ At(l, t, i + 1) = e
      BY <1>1, <1>6, <2>2
    <3> QED
      BY <1>4, <3>1
  <2>3. CASE i = k + 1
    <3>1. At(l, t, i) = e /\ At(l, t, i + 1) = At(l, s, k + 1)
      BY <1>1, <1>6, <2>3
    <3> QED
      BY <1>3, <1>4, <3>1
  <2>4. CASE i > k + 1
    <3>1. i - 1 \in 0 .. Len(s) /\ i + 1 \in 0 .. Len(s) + 2 /\ i \in 0 .. Len(s) + 2
          /\ i - 1 # k /\ (i - 1) + 1 = i /\ (i + 1) - 1 = i /\ i - 1 \in 1 .. Len(s)
      BY <1>1, <2>4
    <3>2. At(l, s, i - 1) \in Nodes /\ At(l, s, i - 1) # at /\ At(l, s, i - 1) # e
      <4>1. At(l, s, i - 1) # at
        BY <1>1, <3>1, AtOnce
      <4> QED
        BY <1>1, <3>1, <4>1, AtIsNode DEF At
    <3>3. n[At(l, s, i - 1)] = At(l, s, i)
      BY <3>1 DEF Chain
    <3>4. At(l, t, i) = At(l, s, i - 1) /\ At(l, t, i + 1) = At(l, s, i)
      BY <1>6, <2>4, <3>1
    <3> QED
      BY <1>4, <3>2, <3>3, <3>4
  <2> QED
    BY <1>1, <2>1, <2>2, <2>3, <2>4
<1>8. Injective(t)
  <2> SUFFICES ASSUME NEW i \in 1 .. Len(s) + 1, NEW j \in 1 .. Len(s) + 1, t[i] = t[j]
               PROVE  i = j
    BY <1>5 DEF Injective
  <2> DEFINE Old(x) == IF x < k + 1 THEN x ELSE x - 1
  <2>1. ASSUME NEW x \in 1 .. Len(s) + 1
        PROVE  /\ x # k + 1 => Old(x) \in 1 .. Len(s) /\ t[x] = s[Old(x)] /\ t[x] # e
               /\ x = k + 1 => t[x] = e
    BY <1>1, <1>5
  <2>2. CASE i = k + 1 \/ j = k + 1
    BY <2>1, <2>2
  <2>3. CASE i # k + 1 /\ j # k + 1
    <3>1. Old(i) = Old(j)
      BY <1>1, <2>1, <2>3 DEF Injective
    <3> QED
      BY <1>1, <2>3, <3>1
  <2> QED
    BY <2>2, <2>3
<1> QED
  BY <1>5, <1>7, <1>8 DEF Chain, n2, t

\* Where a node is cut out, whatever it links to after that.
LEMMA ChainRemove ==
    ASSUME NEW n \in Link, NEW l \in Lists, NEW s, Chain(n, l, s),
           NEW k \in 1 .. Len(s), NEW e, e = s[k],
           NEW n2, n2[At(l, s, k - 1)] = n[e],
           \A z \in Nodes : z # e /\ z # At(l, s, k - 1) => n2[z] = n[z]
    PROVE  Chain(n2, l, Promise!RemoveAt(s, k))
<1> USE NodesDisjoint
<1> DEFINE r == Promise!RemoveAt(s, k)
           at == At(l, s, k - 1)
<1>1. s \in Seq(Elems) /\ Injective(s) /\ Len(s) \in Nat
  BY DEF Chain
<1>2. n[e] = At(l, s, k + 1) /\ e = At(l, s, k)
  BY <1>1 DEF Chain, At
<1>3. /\ r \in Seq(Elems) /\ Len(r) = Len(s) - 1
      /\ \A i \in 1 .. Len(s) - 1 : r[i] = IF i < k THEN s[i] ELSE s[i + 1]
  BY <1>1, RemoveAtIs
<1> HIDE DEF r
<1>4. ASSUME NEW i \in 0 .. Len(s)
      PROVE  At(l, r, i) = IF i < k THEN At(l, s, i) ELSE At(l, s, i + 1)
  <2>1. CASE i < k
    <3>1. i \in 1 .. Len(s) - 1 <=> i \in 1 .. Len(s)
      BY <1>1, <2>1
    <3> QED
      BY <1>1, <1>3, <2>1, <3>1 DEF At
  <2>2. CASE i >= k
    <3>1. i \in 1 .. Len(s) - 1 <=> i + 1 \in 1 .. Len(s)
      BY <1>1, <2>2
    <3> QED
      BY <1>1, <1>3, <2>2, <3>1 DEF At
  <2> QED
    BY <1>1, <2>1, <2>2
<1>5. at = At(l, s, k - 1) /\ n2[at] = n[e] /\ \A z \in Nodes : z # e /\ z # at => n2[z] = n[z]
  OBVIOUS
<1> HIDE DEF at
<1>6. ASSUME NEW i \in 0 .. Len(s) - 1
      PROVE  n2[At(l, r, i)] = At(l, r, i + 1)
  <2>0. i \in 0 .. Len(s) /\ i + 1 \in 0 .. Len(s)
    BY <1>1
  <2>1. CASE i < k - 1
    <3>1. At(l, r, i) = At(l, s, i) /\ At(l, r, i + 1) = At(l, s, i + 1)
      BY <1>4, <2>0, <2>1
    <3>2. At(l, s, i) \in Nodes /\ At(l, s, i) # at /\ At(l, s, i) # e
      <4>1. i # k - 1 /\ i # k /\ k - 1 \in 0 .. Len(s) /\ k \in 0 .. Len(s)
        BY <1>1, <2>1
      <4> QED
        BY <1>1, <1>2, <1>5, <2>0, <4>1, AtIsNode, AtOnce
    <3>3. n[At(l, s, i)] = At(l, s, i + 1)
      BY <2>0 DEF Chain
    <3> QED
      BY <1>5, <3>1, <3>2, <3>3
  <2>2. CASE i = k - 1
    <3>1. At(l, r, i) = at /\ At(l, r, i + 1) = At(l, s, k + 1)
      BY <1>1, <1>4, <1>5, <2>0, <2>2
    <3> QED
      BY <1>2, <1>5, <3>1
  <2>3. CASE i >= k
    <3>1. At(l, r, i) = At(l, s, i + 1) /\ At(l, r, i + 1) = At(l, s, (i + 1) + 1)
      BY <1>4, <2>0, <2>3
    <3>2. At(l, s, i + 1) \in Nodes /\ At(l, s, i + 1) # at /\ At(l, s, i + 1) # e
      <4>1. i + 1 # k - 1 /\ i + 1 # k /\ k - 1 \in 0 .. Len(s) /\ k \in 0 .. Len(s)
        BY <1>1, <2>3
      <4> QED
        BY <1>1, <1>2, <1>5, <2>0, <4>1, AtIsNode, AtOnce
    <3>3. n[At(l, s, i + 1)] = At(l, s, (i + 1) + 1)
      BY <2>0 DEF Chain
    <3> QED
      BY <1>5, <3>1, <3>2, <3>3
  <2> QED
    BY <1>1, <2>1, <2>2, <2>3
<1>7. Injective(r)
  <2> SUFFICES ASSUME NEW i \in 1 .. Len(s) - 1, NEW j \in 1 .. Len(s) - 1, r[i] = r[j]
               PROVE  i = j
    BY <1>3 DEF Injective
  <2> DEFINE Old(x) == IF x < k THEN x ELSE x + 1
  <2>1. \A x \in 1 .. Len(s) - 1 : Old(x) \in 1 .. Len(s) /\ r[x] = s[Old(x)]
    BY <1>1, <1>3
  <2>2. Old(i) = Old(j)
    BY <1>1, <2>1 DEF Injective
  <2> QED
    BY <1>1, <2>2
<1> QED
  BY <1>3, <1>6, <1>7 DEF Chain, r

\* A list whose links are left alone stays what it was.
LEMMA ChainStays ==
    ASSUME NEW n, NEW n2, NEW l \in Lists, NEW s, Chain(n, l, s),
           n2[l] = n[l], \A i \in 1 .. Len(s) : n2[s[i]] = n[s[i]]
    PROVE  Chain(n2, l, s)
BY DEF Chain, At

\* The ring determines the walk.
LEMMA ChainIsPath ==
    ASSUME NEW n, NEW l \in Lists, NEW s, Chain(n, l, s), NEW k \in 1 .. Len(s)
    PROVE  Path(n, l)[k] = s[k]
<1> DEFINE a == Path(n, l)
           T == {i \in Nat : i <= Len(s) /\ a[i] # At(l, s, i)}
<1>1. Len(s) \in Nat
  BY DEF Chain
<1>2. a[0] = l /\ \A i \in Nat : i # 0 => a[i] = n[a[i - 1]]
  BY PathIs
<1> HIDE DEF a
<1>3. T = {}
  <2> SUFFICES ASSUME T # {} PROVE FALSE
    OBVIOUS
  <2>1. PICK m \in T : \A i \in T : m <= i
    BY LeastNatural
  <2>2. m # 0
    BY <1>2, <2>1 DEF At
  <2>3. m - 1 \in 0 .. Len(s) /\ m - 1 \in Nat /\ (m - 1) + 1 = m /\ ~ (m <= m - 1)
    BY <1>1, <2>1, <2>2
  <2>4. a[m - 1] = At(l, s, m - 1)
    BY <1>1, <2>1, <2>3
  <2>5. n[At(l, s, m - 1)] = At(l, s, m)
    BY <2>3 DEF Chain
  <2> QED
    BY <1>2, <2>1, <2>2, <2>4, <2>5
<1>4. a[k] = At(l, s, k)
  BY <1>1, <1>3
<1> QED
  BY <1>4 DEF At, a
-----------------------------------------------------------------------------
(***************************************************************************)
(* The walks of a state and of the next one.                               *)
(***************************************************************************)
LEMMA WalkIsPath ==
    ASSUME LinkInv, NEW l \in Lists, next[l] # Nil
    PROVE  \A i \in 0 .. len[l] + 1 : Path(next, l)[i] = At(l, Walk(l), i)
<1>1. /\ len[l] \in Nat /\ Path(next, l)[len[l] + 1] = l /\ Path(next, l)[0] = l
  BY PathIsRing, PathIs
<1>2. Walk(l) = [i \in 1 .. len[l] |-> Path(next, l)[i]] /\ Len(Walk(l)) = len[l]
  BY <1>1, WalkIs
<1> QED
  BY <1>1, <1>2 DEF At

LEMMA WalkOf ==
    ASSUME LinkInv, NEW l \in Lists
    PROVE  /\ Walk(l) \in Seq(Elems) /\ Len(Walk(l)) = len[l] /\ len[l] \in Nat
           /\ Injective(Walk(l))
           /\ \A i \in 1 .. len[l] : Walk(l)[i] \in Contents(l)
           /\ \A e \in Contents(l) : \E i \in 1 .. len[l] : e = Walk(l)[i]
           /\ next[l] # Nil => Chain(next, l, Walk(l))
           /\ next[l] = Nil => Walk(l) = <<>> /\ len[l] = 0
<1> DEFINE w == Walk(l)
           a == Path(next, l)
<1>1. len[l] \in Nat /\ w = [i \in 1 .. len[l] |-> a[i]]
  BY WalkIs DEF LinkInv, LinkTypes
<1> HIDE DEF w, a
<1>2. CASE next[l] = Nil
  <2>1. Contents(l) = {}
    BY <1>2, NodesDisjoint DEF Contents, LinkInv, Unlinked
  <2>2. len[l] = 0
    BY <2>1, FS_EmptySet DEF LinkInv, LenCounts
  <2>3. w = <<>>
    BY <1>1, <2>2
  <2> QED
    BY <1>2, <2>1, <2>2, <2>3 DEF w, Injective
<1>3. CASE next[l] # Nil
  <2>1. /\ \A i \in 1 .. len[l] : a[i] \in Contents(l)
        /\ \A e \in Contents(l) : \E i \in 1 .. len[l] : e = a[i]
    BY <1>3, PathIsRing DEF a
  <2>2. w \in Seq(Elems) /\ Len(w) = len[l]
    BY <1>1, <2>1 DEF Contents
  <2>3. \A i \in 1 .. len[l] : w[i] = a[i]
    BY <1>1
  <2>4. Injective(w)
    <3> SUFFICES ASSUME NEW i \in 1 .. len[l], NEW j \in 1 .. len[l], a[i] = a[j]
                 PROVE  i = j
      BY <2>2, <2>3 DEF Injective
    <3>1. \A h \in 1 .. len[l] : a[h] # l
      BY <2>1, NodesDisjoint DEF Contents
    <3>2. i \in 0 .. len[l] /\ j \in 0 .. len[l]
      BY <1>1
    <3> QED
      BY <1>1, <1>3, <3>1, <3>2, PathMeetsOnce DEF a
  <2>5. \A i \in 0 .. len[l] + 1 : a[i] = At(l, w, i)
    BY <1>3, WalkIsPath DEF a, w
  <2>6. ASSUME NEW i \in 0 .. len[l]
        PROVE  next[At(l, w, i)] = At(l, w, i + 1)
    <3>1. i \in Nat /\ i \in 0 .. len[l] + 1 /\ i + 1 \in 0 .. len[l] + 1
      BY <1>1
    <3>2. next[a[i]] = a[i + 1]
      BY <1>3, <3>1, PathInRing DEF a
    <3> QED
      BY <2>5, <3>1, <3>2
  <2>7. Chain(next, l, w)
    BY <2>2, <2>4, <2>6 DEF Chain
  <2> QED
    BY <1>1, <1>3, <2>1, <2>2, <2>3, <2>4, <2>7 DEF w
<1> QED
  BY <1>2, <1>3

\* The links back lead through the same sequence.
LEMMA PrevIs ==
    ASSUME LinkInv, NEW l \in Lists, next[l] # Nil, NEW i \in 0 .. len[l]
    PROVE  prev[At(l, Walk(l), i + 1)] = At(l, Walk(l), i)
<1>1. len[l] \in Nat
  BY WalkOf
<1>2. i \in 0 .. len[l] + 1 /\ i + 1 \in 0 .. len[l] + 1 /\ i \in Nat
  BY <1>1
<1>3. prev[Path(next, l)[i + 1]] = Path(next, l)[i]
  BY <1>2, PathInRing
<1> QED
  BY <1>2, <1>3, WalkIsPath

LEMMA WalkBecomes ==
    ASSUME NEW l \in Lists, NEW s, Chain(next', l, s), len'[l] = Len(s)
    PROVE  Walk(l)' = s
<1>1. Walk(l)' = [i \in 1 .. len'[l] |-> Path(next', l)[i]]
  BY DEF Walk, Path
<1>2. \A i \in 1 .. Len(s) : Path(next', l)[i] = s[i]
  BY ChainIsPath
<1>3. s \in Seq(Elems)
  BY DEF Chain
<1>4. s = [i \in 1 .. Len(s) |-> s[i]]
  BY <1>3
<1> QED
  BY <1>1, <1>2, <1>4

\* The lists whose links and lengths a step leaves alone.
LEMMA OthersStay ==
    ASSUME LinkInv, NEW l \in Lists,
           \A z \in Nodes : InRing(next, list, cleared, z) /\ ListOf(list, z) # l => next'[z] = next[z],
           \A m \in Lists \ {l} : len'[m] = len[m],
           NEW m \in Lists \ {l}
    PROVE  Walk(m)' = Walk(m)
<1>1. CASE next[m] = Nil
  <2>1. len'[m] = 0
    BY <1>1, WalkOf
  <2>2. Walk(m)' = [i \in 1 .. 0 |-> Path(next', m)[i]]
    BY <2>1 DEF Walk, Path
  <2>3. Walk(m)' = <<>>
    BY <2>2
  <2> QED
    BY <1>1, <2>3, WalkOf
<1>2. CASE next[m] # Nil
  <2>1. Chain(next, m, Walk(m)) /\ Len(Walk(m)) = len[m]
    BY <1>2, WalkOf
  <2>2. next'[m] = next[m]
    BY <1>2, NodesDisjoint DEF InRing, ListOf
  <2>3. ASSUME NEW i \in 1 .. Len(Walk(m)) PROVE next'[Walk(m)[i]] = next[Walk(m)[i]]
    <3>1. Walk(m)[i] \in Contents(m)
      BY <2>1, WalkOf
    <3> QED
      BY <3>1, NodesDisjoint DEF Contents, InRing, ListOf
  <2>4. Chain(next', m, Walk(m))
    BY <2>1, <2>2, <2>3, ChainStays
  <2> QED
    BY <2>1, <2>4, WalkBecomes
<1> QED
  BY <1>1, <1>2

Idle == copying = NotCopying

Walks == [l \in Lists |-> Walk(l)]

SeenAll == ContentsSeen = Walks /\ ValueSeen = value

\* Between the calls the users see all of the lists.
LEMMA SeenWhenIdle == LinkInv /\ Idle => SeenAll
<1> SUFFICES ASSUME LinkInv, Idle
             PROVE  ContentsSeen = Walks /\ ValueSeen = value
  BY DEF SeenAll
<1>1. /\ copying.to = Nil /\ copying.op = "none" /\ copying.made = {}
  BY DEF Idle, NotCopying
<1>2. ASSUME NEW l \in Lists PROVE SubSeq(Walk(l), 1, len[l] - 0) = Walk(l)
  <2>1. Walk(l) \in Seq(Elems) /\ Len(Walk(l)) = len[l] /\ len[l] \in Nat
    BY WalkOf
  <2>2. SubSeq(Walk(l), 1, Len(Walk(l))) = Walk(l)
    BY <2>1, SubSeqFull
  <2> QED
    BY <2>1, <2>2
<1>3. ContentsSeen = Walks
  BY <1>1, <1>2, NodesDisjoint DEF ContentsSeen, Walks
<1>4. ValueSeen = value
  BY <1>1 DEF ValueSeen, LinkInv, LinkTypes
<1> QED
  BY <1>3, <1>4

LEMMA SeenBecomes ==
    ASSUME LinkInv, LinkInv', Idle, Idle',
           NEW l \in Lists, NEW s, Walk(l)' = s,
           \A m \in Lists \ {l} : Walk(m)' = Walk(m)
    PROVE  ContentsSeen' = [ContentsSeen EXCEPT ![l] = s]
<1>0. SeenAll /\ SeenAll'
  BY SeenWhenIdle, PTL
<1>1. ContentsSeen = Walks /\ ContentsSeen' = Walks'
  BY <1>0 DEF SeenAll
<1>2. Walks' = [Walks EXCEPT ![l] = s]
  BY DEF Walks
<1> QED
  BY <1>1, <1>2

LEMMA SeenStays ==
    ASSUME LinkInv, LinkInv', Idle, Idle', UNCHANGED <<next, len, value>>
    PROVE  UNCHANGED <<ContentsSeen, ValueSeen>>
<1>0. SeenAll /\ SeenAll'
  BY SeenWhenIdle, PTL
<1>1. ContentsSeen = Walks /\ ContentsSeen' = Walks' /\ ValueSeen = value /\ ValueSeen' = value'
  BY <1>0 DEF SeenAll
<1>2. Walks' = Walks
  BY DEF Walks, Walk
<1> QED
  BY <1>1, <1>2
-----------------------------------------------------------------------------
(***************************************************************************)
(* What the ways of rewiring do to the walks.                              *)
(***************************************************************************)

\* The nodes of the ring of l are no nodes of another one.
LEMMA AtIsOwn ==
    ASSUME LinkInv, NEW l \in Lists, NEW i \in Int
    PROVE  At(l, Walk(l), i) \in Nodes /\ ListOf(list, At(l, Walk(l), i)) = l
<1>1. /\ Walk(l) \in Seq(Elems) /\ Len(Walk(l)) = len[l]
      /\ \A j \in 1 .. len[l] : Walk(l)[j] \in Contents(l)
  BY WalkOf
<1> QED
  BY <1>1, AtIsNode, NodesDisjoint DEF At, ListOf, Contents

LEMMA InsertWalks ==
    ASSUME LinkInv, NEW l \in Lists, NEW n \in Link, NEW p, NEW v,
           Chain(n, l, Walk(l)), \A z \in Nodes \ {l} : n[z] = next[z],
           NEW k \in 0 .. len[l], NEW at, at = At(l, Walk(l), k),
           InsertValue(l, n, p, at, New, v)
    PROVE  /\ New \in Elems \ Made
           /\ Walk(l)' = Promise!InsertAt(Walk(l), k + 1, New)
           /\ \A m \in Lists \ {l} : Walk(m)' = Walk(m)
<1> USE NodesDisjoint
<1> DEFINE e == New
           w == Walk(l)
           s == Promise!InsertAt(w, k + 1, e)
<1>1. /\ e \in Elems /\ e \notin Made /\ list[e] = Nil
      /\ next' = Put(Put(n, e, n[at]), at, e)
      /\ len' = [len EXCEPT ![l] = @ + 1]
  BY NewIsNew DEF InsertValue
<1> HIDE DEF e
<1>2. /\ w \in Seq(Elems) /\ Len(w) = len[l] /\ len[l] \in Nat
      /\ \A i \in 1 .. len[l] : w[i] \in Contents(l)
  BY WalkOf
<1>3. \A i \in 1 .. Len(w) : w[i] # e
  BY <1>1, <1>2 DEF Contents
<1>4. at \in Nodes /\ ListOf(list, at) = l /\ at # e
  <2>1. at \in Nodes /\ ListOf(list, at) = l
    BY AtIsOwn
  <2> QED
    BY <1>1, <2>1 DEF ListOf
<1>5. Chain(next', l, s)
  BY <1>1, <1>2, <1>3, ChainInsert
<1>6. len'[l] = Len(s) /\ \A m \in Lists \ {l} : len'[m] = len[m]
  <2>1. k + 1 \in 1 .. Len(w) + 1
    BY <1>2
  <2>2. Len(s) = Len(w) + 1
    BY <1>1, <1>2, <2>1, InsertAtIs
  <2> QED
    BY <1>1, <1>2, <2>2 DEF LinkInv, LinkTypes
<1> HIDE DEF s
<1>7. Walk(l)' = s
  BY <1>5, <1>6, WalkBecomes
<1>8. \A z \in Nodes : InRing(next, list, cleared, z) /\ ListOf(list, z) # l => next'[z] = next[z]
  <2> SUFFICES ASSUME NEW z \in Nodes, InRing(next, list, cleared, z), ListOf(list, z) # l
               PROVE  next'[z] = next[z]
    OBVIOUS
  <2>1. z # l /\ z # at /\ z # e
    BY <1>1, <1>4 DEF InRing, ListOf
  <2>2. n[at] \in Nodes
    BY <1>2, AtIsNode DEF Chain
  <2>3. next'[z] = n[z]
    BY <1>1, <1>4, <2>1, <2>2 DEF Put, Link
  <2> QED
    BY <2>1, <2>3
<1>9. \A m \in Lists \ {l} : Walk(m)' = Walk(m)
  BY <1>6, <1>8, OthersStay
<1> QED
  BY <1>1, <1>7, <1>9 DEF s, e

LEMMA RemoveWalks ==
    ASSUME LinkInv, NEW l \in Lists, NEW k \in 1 .. len[l], NEW e, e = Walk(l)[k],
           next' = Put(CutNext(e), e, Nil), len' = [len EXCEPT ![l] = @ - 1]
    PROVE  /\ Walk(l)' = Promise!RemoveAt(Walk(l), k)
           /\ \A m \in Lists \ {l} : Walk(m)' = Walk(m)
<1> USE NodesDisjoint
<1> DEFINE w == Walk(l)
           s == Promise!RemoveAt(w, k)
           before == At(l, w, k - 1)
<1>1. /\ w \in Seq(Elems) /\ Len(w) = len[l] /\ len[l] \in Nat /\ Injective(w)
      /\ e \in Contents(l)
  BY WalkOf
<1>2. next[l] # Nil
  BY <1>1 DEF Contents, LinkInv, Unlinked
<1>3. Chain(next, l, w)
  BY <1>2, WalkOf
<1>4. e = At(l, w, k) /\ e \in Elems /\ list[e] = l
  BY <1>1 DEF At, Contents
<1>5. before \in Nodes /\ ListOf(list, before) = l
  BY AtIsOwn
<1>6. prev[e] = before /\ before # e
  <2>1. k - 1 \in 0 .. len[l] /\ (k - 1) + 1 = k /\ k \in 0 .. len[l] /\ k - 1 # k
    BY <1>1
  <2>2. prev[e] = before
    BY <1>2, <1>4, <2>1, PrevIs
  <2>3. before # e
    BY <1>1, <1>4, <2>1, AtOnce
  <2> QED
    BY <2>2, <2>3
<1> HIDE DEF before
<1>7. /\ next'[before] = next[e]
      /\ \A z \in Nodes : z # e /\ z # before => next'[z] = next[z]
  <2>1. next[e] \in Nodes
    BY <1>3, <1>4, <1>1, AtIsNode DEF Chain
  <2>2. next \in Link
    BY DEF LinkInv, LinkTypes
  <2> QED
    BY <1>4, <1>5, <1>6, <2>1, <2>2 DEF CutNext, Put, Link
<1>8. Chain(next', l, s)
  <2>1. next \in Link
    BY DEF LinkInv, LinkTypes
  <2> HIDE DEF s, w
  <2> QED
    BY <1>1, <1>3, <1>7, <2>1, ChainRemove DEF w, s, before
<1>9. len'[l] = Len(s) /\ \A m \in Lists \ {l} : len'[m] = len[m]
  <2>1. Len(s) = Len(w) - 1
    BY <1>1, RemoveAtIs
  <2> QED
    BY <1>1, <2>1 DEF LinkInv, LinkTypes
<1> HIDE DEF s
<1>10. Walk(l)' = s
  BY <1>8, <1>9, WalkBecomes
<1>11. \A z \in Nodes : InRing(next, list, cleared, z) /\ ListOf(list, z) # l => next'[z] = next[z]
  BY <1>4, <1>5, <1>7 DEF ListOf
<1>12. \A m \in Lists \ {l} : Walk(m)' = Walk(m)
  BY <1>9, <1>11, OthersStay
<1> QED
  BY <1>10, <1>12 DEF s

\* The node after i steps, once the k-th is out.
LEMMA AtRemoved ==
    ASSUME NEW l \in Lists, NEW s \in Seq(Elems), NEW k \in 1 .. Len(s), NEW i \in 0 .. Len(s)
    PROVE  At(l, Promise!RemoveAt(s, k), i) = IF i < k THEN At(l, s, i) ELSE At(l, s, i + 1)
<1> DEFINE r == Promise!RemoveAt(s, k)
<1>1. /\ r \in Seq(Elems) /\ Len(r) = Len(s) - 1 /\ Len(s) \in Nat
      /\ \A j \in 1 .. Len(s) - 1 : r[j] = IF j < k THEN s[j] ELSE s[j + 1]
  BY RemoveAtIs
<1> HIDE DEF r
<1>2. CASE i < k
  <2>1. i \in 1 .. Len(s) - 1 <=> i \in 1 .. Len(s)
    BY <1>1, <1>2
  <2> QED
    BY <1>1, <1>2, <2>1 DEF At, r
<1>3. CASE i >= k
  <2>1. i \in 1 .. Len(s) - 1 <=> i + 1 \in 1 .. Len(s)
    BY <1>1, <1>3
  <2> QED
    BY <1>1, <1>3, <2>1 DEF At, r
<1> QED
  BY <1>1, <1>2, <1>3

LEMMA RelinkWalks ==
    ASSUME LinkInv, NEW l \in Lists, NEW k \in 1 .. len[l], NEW e, e = Walk(l)[k],
           NEW r, r = Promise!RemoveAt(Walk(l), k),
           NEW j \in 0 .. len[l] - 1, NEW at, at = At(l, r, j),
           Relink(e, at)
    PROVE  /\ Walk(l)' = Promise!InsertAt(r, j + 1, e)
           /\ \A m \in Lists \ {l} : Walk(m)' = Walk(m)
<1> USE NodesDisjoint
<1> DEFINE w == Walk(l)
           before == At(l, w, k - 1)
           n1 == CutNext(e)
           s == Promise!InsertAt(r, j + 1, e)
<1>1. /\ w \in Seq(Elems) /\ Len(w) = len[l] /\ len[l] \in Nat /\ Injective(w)
      /\ e \in Contents(l)
  BY WalkOf
<1>2. next[l] # Nil
  BY <1>1 DEF Contents, LinkInv, Unlinked
<1>3. Chain(next, l, w)
  BY <1>2, WalkOf
<1>4. e = At(l, w, k) /\ e \in Elems /\ list[e] = l
  BY <1>1 DEF At, Contents
<1>5. before \in Nodes /\ ListOf(list, before) = l
  BY AtIsOwn
<1>6. prev[e] = before /\ before # e
  <2>1. k - 1 \in 0 .. len[l] /\ (k - 1) + 1 = k /\ k \in 0 .. len[l] /\ k - 1 # k
    BY <1>1
  <2>2. prev[e] = before
    BY <1>2, <1>4, <2>1, PrevIs
  <2>3. before # e
    BY <1>1, <1>4, <2>1, AtOnce
  <2> QED
    BY <2>2, <2>3
<1>7. /\ n1 \in Link /\ n1[before] = next[e]
      /\ \A z \in Nodes : z # e /\ z # before => n1[z] = next[z]
  <2>1. next[e] \in Nodes
    BY <1>3, <1>4, <1>1, AtIsNode DEF Chain
  <2>2. next \in Link
    BY DEF LinkInv, LinkTypes
  <2> QED
    BY <1>4, <1>5, <1>6, <2>1, <2>2 DEF CutNext, Put, Link
<1>8. /\ r \in Seq(Elems) /\ Len(r) = len[l] - 1
      /\ \A i \in 1 .. len[l] - 1 : r[i] = IF i < k THEN w[i] ELSE w[i + 1]
  BY <1>1, RemoveAtIs
<1>9. \A i \in 1 .. Len(r) : r[i] # e
  <2> SUFFICES ASSUME NEW i \in 1 .. len[l] - 1 PROVE r[i] # e
    BY <1>8
  <2>1. /\ i < k => i \in 1 .. Len(w) /\ i # k
        /\ i >= k => i + 1 \in 1 .. Len(w) /\ i + 1 # k
    BY <1>1
  <2>2. \A x \in 1 .. Len(w) : x # k => w[x] # w[k]
    BY <1>1 DEF Injective
  <2> QED
    BY <1>8, <2>1, <2>2
<1>10. at # e /\ at \in Nodes /\ ListOf(list, at) = l
  <2>1. at # e
    BY <1>4, <1>8, <1>9 DEF At
  <2>2. j \in 0 .. Len(w) /\ j \in Int /\ j + 1 \in Int
    BY <1>1
  <2>3. at = At(l, w, j) \/ at = At(l, w, j + 1)
    BY <1>1, <2>2, AtRemoved
  <2>4. at \in Nodes /\ ListOf(list, at) = l
    BY <2>2, <2>3, AtIsOwn
  <2> QED
    BY <2>1, <2>4
<1>11. next' = Put(Put(n1, e, n1[at]), at, e) /\ len' = len
  BY <1>10 DEF Relink
<1>12. Chain(n1, l, r)
  <2>1. next \in Link
    BY DEF LinkInv, LinkTypes
  <2> HIDE DEF w, n1, before
  <2> QED
    BY <1>1, <1>3, <1>7, <2>1, ChainRemove DEF w, before
<1> HIDE DEF n1, before
<1>13. Chain(next', l, s)
  <2>1. j \in 0 .. Len(r)
    BY <1>8
  <2> QED
    BY <1>4, <1>7, <1>9, <1>11, <1>12, <2>1, ChainInsert
<1>14. len'[l] = Len(s) /\ \A m \in Lists \ {l} : len'[m] = len[m]
  <2>1. j + 1 \in 1 .. Len(r) + 1
    BY <1>8
  <2>2. Len(s) = Len(r) + 1
    BY <1>4, <1>8, <2>1, InsertAtIs
  <2> QED
    BY <1>1, <1>8, <1>11, <2>2
<1> HIDE DEF s
<1>15. Walk(l)' = s
  BY <1>13, <1>14, WalkBecomes
<1>16. \A z \in Nodes : InRing(next, list, cleared, z) /\ ListOf(list, z) # l => next'[z] = next[z]
  <2> SUFFICES ASSUME NEW z \in Nodes, ListOf(list, z) # l
               PROVE  next'[z] = next[z]
    OBVIOUS
  <2>1. z # e /\ z # at /\ z # before
    BY <1>4, <1>5, <1>10 DEF ListOf
  <2>2. n1[at] \in Nodes \cup {Nil}
    BY <1>7, <1>10 DEF Link
  <2>3. next'[z] = n1[z]
    BY <1>4, <1>7, <1>10, <1>11, <2>1, <2>2 DEF Put, Link
  <2> QED
    BY <1>7, <2>1, <2>3
<1>17. \A m \in Lists \ {l} : Walk(m)' = Walk(m)
  BY <1>14, <1>16, OthersStay
<1> QED
  BY <1>15, <1>17 DEF s
-----------------------------------------------------------------------------
(***************************************************************************)
(* Every call is a step of ListContents.                                   *)
(***************************************************************************)
LEMMA SeenInList ==
    ASSUME LinkInv, Idle, NEW l \in Lists
    PROVE  /\ ContentsSeen[l] = Walk(l) /\ ValueSeen = value /\ Promise!Made = Made
           /\ \A e \in Elems : Promise!Has(l, e) <=> e \in Contents(l)
<1>1. ContentsSeen = Walks /\ ValueSeen = value
  BY SeenWhenIdle DEF SeenAll
<1>2. ContentsSeen[l] = Walk(l)
  BY <1>1 DEF Walks
<1>3. Promise!Made = Made
  BY <1>1 DEF Promise!Made, Made
<1>4. /\ Walk(l) \in Seq(Elems) /\ Len(Walk(l)) = len[l]
      /\ \A i \in 1 .. len[l] : Walk(l)[i] \in Contents(l)
      /\ \A e \in Contents(l) : \E i \in 1 .. len[l] : e = Walk(l)[i]
  BY WalkOf
<1>5. \A e \in Elems : Promise!Has(l, e) <=> e \in Contents(l)
  <2>1. DOMAIN Walk(l) = 1 .. len[l]
    BY <1>4
  <2>2. \A e : Promise!Has(l, e) <=> \E i \in 1 .. len[l] : e = Walk(l)[i]
    BY <1>2, <2>1 DEF Promise!Has, Promise!ToSet
  <2> QED
    BY <1>4, <2>2
<1> QED
  BY <1>1, <1>2, <1>3, <1>5

\* A usable element is in the list that its field names.
LEMMA UsableIs ==
    ASSUME LinkInv, NEW e \in Usable
    PROVE  /\ e \in Elems /\ e \in Made
           /\ \A l \in Lists : list[e] = l <=> e \in Contents(l)
BY DEF Usable, Made, Contents

LEMMA ClearSeen ==
    ASSUME LinkInv, LinkInv', Idle, Idle', NEW l \in Lists, InitList(l)
    PROVE  Promise!Clear(l)
<1>1. /\ next' = Put(next, l, l) /\ len' = [len EXCEPT ![l] = 0] /\ value' = value
      /\ call' = [op |-> "Init", list |-> l, elem |-> Nil, mark |-> Nil]
  BY DEF InitList, Done
<1>2. len'[l] = 0 /\ \A m \in Lists \ {l} : len'[m] = len[m]
  BY <1>1 DEF LinkInv, LinkTypes
<1>3. Walk(l)' = <<>>
  <2>1. Walk(l)' = [i \in 1 .. 0 |-> Path(next', l)[i]]
    BY <1>2 DEF Walk, Path
  <2> QED
    BY <2>1
<1>4. \A z \in Nodes : InRing(next, list, cleared, z) /\ ListOf(list, z) # l => next'[z] = next[z]
  <2>1. next \in Link
    BY DEF LinkInv, LinkTypes
  <2> QED
    BY <1>1, <2>1, NodesDisjoint DEF ListOf, Put, Link
<1>5. \A m \in Lists \ {l} : Walk(m)' = Walk(m)
  BY <1>2, <1>4, OthersStay
<1>6. ContentsSeen' = [ContentsSeen EXCEPT ![l] = <<>>]
  BY <1>3, <1>5, SeenBecomes
<1>7. SeenAll /\ SeenAll'
  BY SeenWhenIdle, PTL
<1>8. ValueSeen' = ValueSeen
  BY <1>1, <1>7 DEF SeenAll
<1> QED
  BY <1>1, <1>6, <1>8 DEF Promise!Clear, Promise!Called, Promise!Becomes

LEMMA TakeOutSeen ==
    ASSUME LinkInv, LinkInv', Idle, Idle', NEW l \in Lists, NEW e \in Usable, Remove(l, e)
    PROVE  Promise!TakeOut(l, e)
<1>1. SeenAll /\ SeenAll'
  BY SeenWhenIdle, PTL
<1>2. value' = value /\ call' = [op |-> "Remove", list |-> l, elem |-> e, mark |-> Nil]
  BY DEF Remove, Done, Stay, links
<1>3. ValueSeen' = ValueSeen
  BY <1>1, <1>2 DEF SeenAll
<1>4. /\ Walk(l) \in Seq(Elems) /\ Len(Walk(l)) = len[l] /\ Injective(Walk(l))
      /\ \A i \in 1 .. len[l] : Walk(l)[i] \in Contents(l)
      /\ \A x \in Contents(l) : \E i \in 1 .. len[l] : x = Walk(l)[i]
      /\ ContentsSeen[l] = Walk(l)
  BY WalkOf, SeenInList
<1>5. CASE list[e] = l
  <2>1. PICK k \in 1 .. len[l] : e = Walk(l)[k]
    BY <1>4, <1>5, UsableIs
  <2>2. next' = Put(CutNext(e), e, Nil) /\ len' = [len EXCEPT ![l] = @ - 1]
    BY <1>5 DEF Remove
  <2>3. /\ Walk(l)' = Promise!RemoveAt(Walk(l), k)
        /\ \A m \in Lists \ {l} : Walk(m)' = Walk(m)
    BY <2>1, <2>2, RemoveWalks
  <2>4. ContentsSeen' = [ContentsSeen EXCEPT ![l] = Promise!RemoveAt(Walk(l), k)]
    BY <2>3, SeenBecomes
  <2>5. Promise!RemoveFirst(Walk(l), e) = Promise!RemoveAt(Walk(l), k)
    BY <1>4, <2>1, RemoveFirstIs
  <2> QED
    BY <1>2, <1>3, <1>4, <2>4, <2>5 DEF Promise!TakeOut, Promise!Called, Promise!Becomes
<1>6. CASE list[e] # l
  <2>1. UNCHANGED <<next, len, value>>
    BY <1>6 DEF Remove, Stay, links
  <2>2. ContentsSeen' = ContentsSeen
    BY <2>1, SeenStays
  <2>3. Promise!RemoveFirst(Walk(l), e) = Walk(l)
    BY <1>4, <1>6, UsableIs, RemoveFirstIs
  <2>4. ContentsSeen' = [ContentsSeen EXCEPT ![l] = Walk(l)]
    BY <1>4, <2>2 DEF ContentsSeen
  <2> QED
    BY <1>2, <1>3, <1>4, <2>3, <2>4 DEF Promise!TakeOut, Promise!Called, Promise!Becomes
<1> QED
  BY <1>5, <1>6

LEMMA LazyChain ==
    ASSUME LinkInv, NEW l \in Lists
    PROVE  /\ LazyNext(l) \in Link /\ \A z \in Nodes \ {l} : LazyNext(l)[z] = next[z]
           /\ Chain(LazyNext(l), l, Walk(l))
           /\ LazyPrev(l)[l] = At(l, Walk(l), len[l])
<1>1. LazyNext(l) \in Link /\ \A z \in Nodes \ {l} : LazyNext(l)[z] = next[z]
  BY Lazy DEF Nodes
<1>2. CASE next[l] = Nil
  <2>1. Walk(l) = <<>> /\ len[l] = 0
    BY <1>2, WalkOf
  <2>2. LazyNext(l)[l] = l /\ LazyPrev(l)[l] = l
    BY <1>2, NodesDisjoint DEF LazyNext, LazyPrev, Put, LinkInv, LinkTypes, Link
  <2>3. \A i \in Int : At(l, <<>>, i) = l
    BY DEF At
  <2>4. Injective(<<>>) /\ <<>> \in Seq(Elems) /\ Len(<<>>) = 0
    BY DEF Injective
  <2>5. Chain(LazyNext(l), l, <<>>)
    BY <2>2, <2>3, <2>4 DEF Chain
  <2> QED
    BY <1>1, <2>1, <2>2, <2>3, <2>5
<1>3. CASE next[l] # Nil
  <2>1. LazyNext(l) = next /\ LazyPrev(l) = prev
    BY <1>3 DEF LazyNext, LazyPrev
  <2>2. Chain(next, l, Walk(l)) /\ len[l] \in Nat /\ Len(Walk(l)) = len[l]
    BY <1>3, WalkOf
  <2>3. len[l] \in 0 .. len[l] /\ At(l, Walk(l), len[l] + 1) = l
    BY <2>2 DEF At
  <2>4. prev[l] = At(l, Walk(l), len[l])
    BY <1>3, <2>3, PrevIs
  <2> QED
    BY <1>1, <2>1, <2>2, <2>4
<1> QED
  BY <1>2, <1>3

\* An insertion after the k-th node, as the users see it.
LEMMA InsertSeen ==
    ASSUME LinkInv, LinkInv', Idle, Idle', NEW l \in Lists, NEW n \in Link, NEW p, NEW v,
           Chain(n, l, Walk(l)), \A z \in Nodes \ {l} : n[z] = next[z],
           NEW k \in 0 .. len[l], NEW at, at = At(l, Walk(l), k),
           InsertValue(l, n, p, at, New, v)
    PROVE  /\ New \in Elems \ Promise!Made
           /\ ContentsSeen' = [ContentsSeen EXCEPT ![l] = Promise!InsertAt(Walk(l), k + 1, New)]
           /\ ValueSeen' = [ValueSeen EXCEPT ![New] = v]
<1>1. /\ New \in Elems \ Made
      /\ Walk(l)' = Promise!InsertAt(Walk(l), k + 1, New)
      /\ \A m \in Lists \ {l} : Walk(m)' = Walk(m)
  BY InsertWalks
<1>2. Promise!Made = Made
  BY SeenInList
<1>3. ContentsSeen' = [ContentsSeen EXCEPT ![l] = Promise!InsertAt(Walk(l), k + 1, New)]
  BY <1>1, SeenBecomes
<1>4. SeenAll /\ SeenAll'
  BY SeenWhenIdle, PTL
<1>5. value' = [value EXCEPT ![New] = v]
  BY DEF InsertValue
<1> QED
  BY <1>1, <1>2, <1>3, <1>4, <1>5 DEF SeenAll

LEMMA PushSeen ==
    ASSUME LinkInv, LinkInv', Idle, Idle', NEW l \in Lists, NEW v \in Values,
           PushFront(l, v) \/ PushBack(l, v)
    PROVE  New \in Elems \ Promise!Made /\ Promise!Push(l, New, v)
<1>1. /\ LazyNext(l) \in Link /\ \A z \in Nodes \ {l} : LazyNext(l)[z] = next[z]
      /\ Chain(LazyNext(l), l, Walk(l))
      /\ LazyPrev(l)[l] = At(l, Walk(l), len[l])
  BY LazyChain
<1>2. /\ Walk(l) \in Seq(Elems) /\ Len(Walk(l)) = len[l] /\ len[l] \in Nat
      /\ ContentsSeen[l] = Walk(l)
  BY WalkOf, SeenInList
<1>3. CASE PushFront(l, v)
  <2>1. /\ InsertValue(l, LazyNext(l), LazyPrev(l), l, New, v)
        /\ call' = [op |-> "PushFront", list |-> l, elem |-> New, mark |-> Nil]
    BY <1>3 DEF PushFront, Done
  <2>2. 0 \in 0 .. len[l] /\ l = At(l, Walk(l), 0)
    BY <1>2 DEF At
  <2>3. /\ New \in Elems \ Promise!Made
        /\ ContentsSeen' = [ContentsSeen EXCEPT ![l] = Promise!InsertAt(Walk(l), 0 + 1, New)]
        /\ ValueSeen' = [ValueSeen EXCEPT ![New] = v]
    BY <1>1, <2>1, <2>2, InsertSeen
  <2>4. Promise!InsertAt(Walk(l), 0 + 1, New) = <<New>> \o Walk(l)
    BY <1>2, <2>3, InsertAtEnds
  <2> QED
    BY <1>2, <2>1, <2>3, <2>4 DEF Promise!Push, Promise!Called, Promise!Becomes
<1>4. CASE PushBack(l, v)
  <2>1. /\ InsertValue(l, LazyNext(l), LazyPrev(l), LazyPrev(l)[l], New, v)
        /\ call' = [op |-> "PushBack", list |-> l, elem |-> New, mark |-> Nil]
    BY <1>4 DEF PushBack, Done
  <2>2. len[l] \in 0 .. len[l]
    BY <1>2
  <2>3. /\ New \in Elems \ Promise!Made
        /\ ContentsSeen' = [ContentsSeen EXCEPT ![l] = Promise!InsertAt(Walk(l), len[l] + 1, New)]
        /\ ValueSeen' = [ValueSeen EXCEPT ![New] = v]
    BY <1>1, <2>1, <2>2, InsertSeen
  <2>4. Promise!InsertAt(Walk(l), len[l] + 1, New) = Append(Walk(l), New)
    BY <1>2, <2>3, InsertAtEnds
  <2> QED
    BY <1>2, <2>1, <2>3, <2>4 DEF Promise!Push, Promise!Called, Promise!Becomes
<1> QED
  BY <1>3, <1>4

\* Where a usable mark is, and who comes before it.
LEMMA MarkIs ==
    ASSUME LinkInv, NEW l \in Lists, NEW mark \in Usable, list[mark] = l
    PROVE  /\ next[l] # Nil
           /\ \E k \in 1 .. len[l] : /\ mark = Walk(l)[k] /\ mark = At(l, Walk(l), k)
                                     /\ prev[mark] = At(l, Walk(l), k - 1)
                                     /\ Promise!Pos(Walk(l), mark) = k
<1>1. /\ Walk(l) \in Seq(Elems) /\ Len(Walk(l)) = len[l] /\ len[l] \in Nat /\ Injective(Walk(l))
      /\ \A x \in Contents(l) : \E i \in 1 .. len[l] : x = Walk(l)[i]
  BY WalkOf
<1>2. mark \in Contents(l)
  BY UsableIs
<1>3. next[l] # Nil
  BY <1>2, NodesDisjoint DEF Contents, LinkInv, Unlinked
<1>4. PICK k \in 1 .. len[l] : mark = Walk(l)[k]
  BY <1>1, <1>2
<1>5. mark = At(l, Walk(l), k)
  BY <1>1, <1>4 DEF At
<1>6. k - 1 \in 0 .. len[l] /\ (k - 1) + 1 = k
  BY <1>1
<1>7. prev[At(l, Walk(l), (k - 1) + 1)] = At(l, Walk(l), k - 1)
  BY <1>3, <1>6, PrevIs
<1>8. Promise!Pos(Walk(l), mark) = k
  BY <1>1, <1>4, PosIs
<1> QED
  BY <1>3, <1>4, <1>5, <1>6, <1>7, <1>8

LEMMA InsertBySeen ==
    ASSUME LinkInv, LinkInv', Idle, Idle', NEW l \in Lists, NEW v \in Values, NEW mark \in Usable,
           InsertBefore(l, v, mark) \/ InsertAfter(l, v, mark)
    PROVE  \/ Promise!InsertNothing(l, mark)
           \/ New \in Elems \ Promise!Made /\ Promise!Insert(l, New, v, mark)
<1>1. /\ Walk(l) \in Seq(Elems) /\ Len(Walk(l)) = len[l] /\ len[l] \in Nat
      /\ ContentsSeen[l] = Walk(l)
      /\ Promise!Has(l, mark) <=> list[mark] = l
  BY WalkOf, SeenInList, UsableIs
<1>2. CASE list[mark] # l
  <2>1. /\ UNCHANGED <<next, len, value>>
        /\ \/ call' = [op |-> "InsertBefore", list |-> l, elem |-> Nil, mark |-> mark]
           \/ call' = [op |-> "InsertAfter", list |-> l, elem |-> Nil, mark |-> mark]
    BY <1>2 DEF InsertBefore, InsertAfter, Stay, links, Done
  <2>2. UNCHANGED <<ContentsSeen, ValueSeen>>
    BY <2>1, SeenStays
  <2> QED
    BY <1>1, <1>2, <2>1, <2>2 DEF Promise!InsertNothing, Promise!Called
<1>3. CASE list[mark] = l
  <2>1. next[l] # Nil
    BY <1>3, MarkIs
  <2>2. PICK k \in 1 .. len[l] : /\ mark = At(l, Walk(l), k)
                                 /\ prev[mark] = At(l, Walk(l), k - 1)
                                 /\ Promise!Pos(Walk(l), mark) = k
    BY <1>3, MarkIs
  <2>3. Chain(next, l, Walk(l)) /\ next \in Link
    BY <2>1, WalkOf DEF LinkInv, LinkTypes
  <2>4. CASE InsertBefore(l, v, mark)
    <3>1. /\ InsertValue(l, next, prev, prev[mark], New, v)
          /\ call' = [op |-> "InsertBefore", list |-> l, elem |-> New, mark |-> mark]
      BY <1>3, <2>4 DEF InsertBefore, Done
    <3>2. k - 1 \in 0 .. len[l] /\ (k - 1) + 1 = k
      BY <1>1
    <3>3. /\ New \in Elems \ Promise!Made
          /\ ContentsSeen' = [ContentsSeen EXCEPT ![l] = Promise!InsertAt(Walk(l), (k - 1) + 1, New)]
          /\ ValueSeen' = [ValueSeen EXCEPT ![New] = v]
      BY <2>2, <2>3, <3>1, <3>2, InsertSeen
    <3> QED
      BY <1>1, <1>3, <2>2, <3>1, <3>2, <3>3
      DEF Promise!Insert, Promise!Called, Promise!Becomes, Promise!Before
  <2>5. CASE InsertAfter(l, v, mark)
    <3>1. /\ InsertValue(l, next, prev, mark, New, v)
          /\ call' = [op |-> "InsertAfter", list |-> l, elem |-> New, mark |-> mark]
      BY <1>3, <2>5 DEF InsertAfter, Done
    <3>2. k \in 0 .. len[l]
      BY <1>1
    <3>3. /\ New \in Elems \ Promise!Made
          /\ ContentsSeen' = [ContentsSeen EXCEPT ![l] = Promise!InsertAt(Walk(l), k + 1, New)]
          /\ ValueSeen' = [ValueSeen EXCEPT ![New] = v]
      BY <2>2, <2>3, <3>1, <3>2, InsertSeen
    <3> QED
      BY <1>1, <1>3, <2>2, <3>1, <3>2, <3>3
      DEF Promise!Insert, Promise!Called, Promise!Becomes, Promise!After
  <2> QED
    BY <2>4, <2>5
<1> QED
  BY <1>2, <1>3

\* e, the k-th element, is moved after the j-th node of the rest.
LEMMA RelinkSeen ==
    ASSUME LinkInv, LinkInv', Idle, Idle', NEW l \in Lists,
           NEW k \in 1 .. len[l], NEW e, e = Walk(l)[k],
           NEW r, r = Promise!RemoveAt(Walk(l), k),
           NEW j \in 0 .. len[l] - 1, NEW at, at = At(l, r, j),
           Relink(e, at)
    PROVE  /\ ContentsSeen' = [ContentsSeen EXCEPT ![l] = Promise!InsertAt(r, j + 1, e)]
           /\ ValueSeen' = ValueSeen
<1>1. /\ Walk(l)' = Promise!InsertAt(r, j + 1, e)
      /\ \A m \in Lists \ {l} : Walk(m)' = Walk(m)
  BY RelinkWalks
<1>2. ContentsSeen' = [ContentsSeen EXCEPT ![l] = Promise!InsertAt(r, j + 1, e)]
  BY <1>1, SeenBecomes
<1>3. SeenAll /\ SeenAll'
  BY SeenWhenIdle, PTL
<1>4. value' = value
  BY DEF Relink
<1> QED
  BY <1>2, <1>3, <1>4 DEF SeenAll

\* What stays where it was has been taken out and put back.
LEMMA StaysSeen ==
    ASSUME LinkInv, LinkInv', Idle, Idle', NEW l \in Lists,
           NEW k \in 1 .. len[l], NEW e, e = Walk(l)[k],
           UNCHANGED <<next, len, value>>
    PROVE  /\ ContentsSeen' = [ContentsSeen EXCEPT ![l] =
                                  Promise!InsertAt(Promise!RemoveAt(Walk(l), k), k, e)]
           /\ ValueSeen' = ValueSeen
<1>1. UNCHANGED <<ContentsSeen, ValueSeen>>
  BY SeenStays
<1>2. /\ Walk(l) \in Seq(Elems) /\ Len(Walk(l)) = len[l]
      /\ ContentsSeen[l] = Walk(l)
  BY WalkOf, SeenInList
<1>3. Promise!InsertAt(Promise!RemoveAt(Walk(l), k), k, e) = Walk(l)
  BY <1>2, Reinsert
<1> QED
  BY <1>1, <1>2, <1>3 DEF ContentsSeen

\* A call that names an element of no use to it changes nothing.
LEMMA NothingSeen ==
    ASSUME LinkInv, LinkInv', Idle, Idle', NEW l \in Lists, Stay
    PROVE  ContentsSeen' = [ContentsSeen EXCEPT ![l] = Walk(l)] /\ ValueSeen' = ValueSeen
<1>1. UNCHANGED <<ContentsSeen, ValueSeen>>
  BY SeenStays DEF Stay, links
<1>2. ContentsSeen[l] = Walk(l)
  BY SeenInList
<1> QED
  BY <1>1, <1>2 DEF ContentsSeen

LEMMA MoveToSeen ==
    ASSUME LinkInv, LinkInv', Idle, Idle', NEW l \in Lists, NEW e \in Usable,
           MoveToFront(l, e) \/ MoveToBack(l, e)
    PROVE  Promise!Move(l, e)
<1> USE NodesDisjoint
<1> DEFINE w == Walk(l)
<1>1. /\ w \in Seq(Elems) /\ Len(w) = len[l] /\ len[l] \in Nat /\ Injective(w)
      /\ \A i \in 1 .. len[l] : w[i] \in Contents(l)
      /\ \A x \in Contents(l) : \E i \in 1 .. len[l] : x = w[i]
      /\ ContentsSeen[l] = w
      /\ Promise!Has(l, e) <=> list[e] = l
  BY WalkOf, SeenInList, UsableIs
<1>2. /\ MoveToFront(l, e) => call' = [op |-> "MoveToFront", list |-> l, elem |-> e, mark |-> Nil]
      /\ MoveToBack(l, e) => call' = [op |-> "MoveToBack", list |-> l, elem |-> e, mark |-> Nil]
  BY DEF MoveToFront, MoveToBack, Done
<1>3. CASE list[e] # l
  <2>1. Stay
    BY <1>3 DEF MoveToFront, MoveToBack
  <2>2. ContentsSeen' = [ContentsSeen EXCEPT ![l] = w] /\ ValueSeen' = ValueSeen
    BY <2>1, NothingSeen
  <2>3. Promise!RemoveFirst(w, e) = w
    BY <1>1, <1>3, UsableIs, RemoveFirstIs
  <2> HIDE DEF w
  <2> QED
    BY <1>1, <1>2, <1>3, <2>2, <2>3 DEF Promise!Move, Promise!Called, Promise!Becomes
<1>4. CASE list[e] = l
  <2>1. PICK k \in 1 .. len[l] : e = w[k] /\ e = At(l, w, k)
    BY <1>4, MarkIs
  <2>2. next[l] # Nil /\ Chain(next, l, w)
    BY <1>4, MarkIs, WalkOf
  <2> DEFINE r == Promise!RemoveAt(w, k)
  <2>3. /\ r \in Seq(Elems) /\ Len(r) = len[l] - 1
        /\ Promise!RemoveFirst(w, e) = r
        /\ e \in Elems
    BY <1>1, <2>1, RemoveAtIs, RemoveFirstIs, UsableIs
  <2>4. /\ Promise!InsertAt(r, 1, e) = <<e>> \o r
        /\ Promise!InsertAt(r, len[l], e) = Append(r, e)
    <3>1. len[l] = Len(r) + 1
      BY <1>1, <2>3
    <3> HIDE DEF r
    <3> QED
      BY <2>3, <3>1, InsertAtEnds
  <2>5. CASE MoveToFront(l, e)
    <3>1. ContentsSeen' = [ContentsSeen EXCEPT ![l] = Promise!InsertAt(r, 1, e)]
          /\ ValueSeen' = ValueSeen
      <4>1. CASE next[l] = e
        <5>1. UNCHANGED <<next, len, value>>
          BY <2>5, <4>1 DEF MoveToFront, Stay, links
        <5>2. 1 = k
          <6>1. next[At(l, w, 0)] = At(l, w, 0 + 1) /\ At(l, w, 0) = l
            BY <1>1, <2>2 DEF Chain, At
          <6>2. 1 \in 1 .. len[l]
            BY <1>1, <2>1
          <6>3. At(l, w, 0 + 1) = w[1]
            BY <1>1, <6>2 DEF At
          <6>4. w[1] = w[k]
            BY <2>1, <4>1, <6>1, <6>3
          <6> QED
            BY <1>1, <6>2, <6>4 DEF Injective
        <5>3. /\ ContentsSeen' = [ContentsSeen EXCEPT ![l] =
                                     Promise!InsertAt(Promise!RemoveAt(Walk(l), k), k, e)]
              /\ ValueSeen' = ValueSeen
          BY <2>1, <5>1, StaysSeen
        <5> QED
          BY <5>2, <5>3
      <4>2. CASE next[l] # e
        <5>1. Relink(e, l)
          BY <1>4, <2>5, <4>2 DEF MoveToFront
        <5>2. 0 \in 0 .. len[l] - 1 /\ l = At(l, r, 0) /\ 0 + 1 = 1
          BY <1>1, <2>1 DEF At
        <5>3. ContentsSeen' = [ContentsSeen EXCEPT ![l] = Promise!InsertAt(r, 0 + 1, e)]
              /\ ValueSeen' = ValueSeen
          <6> HIDE DEF r
          <6> QED
            BY <2>1, <5>1, <5>2, RelinkSeen DEF r
        <5> QED
          BY <5>2, <5>3
      <4> QED
        BY <4>1, <4>2
    <3> HIDE DEF r, w
    <3> QED
      BY <1>1, <1>2, <1>4, <2>3, <2>4, <2>5, <3>1 DEF Promise!Move, Promise!Called, Promise!Becomes
  <2>6. CASE MoveToBack(l, e)
    <3>0. len[l] \in 0 .. len[l] /\ At(l, w, len[l] + 1) = l /\ len[l] \in 1 .. len[l]
      BY <1>1, <2>1 DEF At
    <3>2. prev[l] = At(l, w, len[l])
      BY <2>2, <3>0, PrevIs
    <3>1. ContentsSeen' = [ContentsSeen EXCEPT ![l] = Promise!InsertAt(r, len[l], e)]
          /\ ValueSeen' = ValueSeen
      <4>1. CASE prev[l] = e
        <5>1. UNCHANGED <<next, len, value>>
          BY <2>6, <4>1 DEF MoveToBack, Stay, links
        <5>2. k = len[l]
          <6> HIDE DEF w
          <6>1. w[len[l]] = e
            BY <1>1, <3>0, <3>2, <4>1 DEF At
          <6>2. w[len[l]] = w[k] /\ k \in 1 .. Len(w) /\ len[l] \in 1 .. Len(w)
            BY <1>1, <2>1, <3>0, <6>1
          <6> QED
            BY <1>1, <6>2 DEF Injective
        <5> QED
          BY <2>1, <5>1, <5>2, StaysSeen
      <4>2. CASE prev[l] # e
        <5>1. Relink(e, prev[l])
          BY <1>4, <2>6, <4>2 DEF MoveToBack
        <5>2. k # len[l]
          BY <2>1, <3>2, <4>2
        <5>3. len[l] - 1 \in 0 .. len[l] - 1 /\ (len[l] - 1) + 1 = len[l]
              /\ len[l] - 1 \in 0 .. len[l] /\ ~ (len[l] - 1 < k)
          BY <1>1, <2>1, <5>2
        <5>4. prev[l] = At(l, r, len[l] - 1)
          BY <1>1, <3>2, <5>3, AtRemoved
        <5>5. ContentsSeen' = [ContentsSeen EXCEPT ![l] = Promise!InsertAt(r, (len[l] - 1) + 1, e)]
              /\ ValueSeen' = ValueSeen
          <6> HIDE DEF r
          <6> QED
            BY <2>1, <5>1, <5>3, <5>4, RelinkSeen DEF r
        <5> QED
          BY <5>3, <5>5
      <4> QED
        BY <4>1, <4>2
    <3> HIDE DEF r, w
    <3> QED
      BY <1>1, <1>2, <1>4, <2>3, <2>4, <2>6, <3>1 DEF Promise!Move, Promise!Called, Promise!Becomes
  <2> QED
    BY <2>5, <2>6
<1> QED
  BY <1>3, <1>4

LEMMA MoveNextToSeen ==
    ASSUME LinkInv, LinkInv', Idle, Idle', NEW l \in Lists, NEW e \in Usable, NEW mark \in Usable,
           MoveBefore(l, e, mark) \/ MoveAfter(l, e, mark)
    PROVE  Promise!MoveNextTo(l, e, mark)
<1> USE NodesDisjoint
<1> DEFINE w == Walk(l)
           moves == e # mark /\ Promise!Has(l, e) /\ Promise!Has(l, mark)
<1>1. /\ w \in Seq(Elems) /\ Len(w) = len[l] /\ len[l] \in Nat /\ Injective(w)
      /\ ContentsSeen[l] = w
      /\ moves <=> e # mark /\ list[e] = l /\ list[mark] = l
  BY WalkOf, SeenInList, UsableIs
<1>2. /\ MoveBefore(l, e, mark) => call' = [op |-> "MoveBefore", list |-> l, elem |-> e, mark |-> mark]
      /\ MoveAfter(l, e, mark) => call' = [op |-> "MoveAfter", list |-> l, elem |-> e, mark |-> mark]
  BY DEF MoveBefore, MoveAfter, Done
<1>3. CASE ~moves
  <2>1. Stay
    BY <1>1, <1>3 DEF MoveBefore, MoveAfter
  <2>2. ContentsSeen' = [ContentsSeen EXCEPT ![l] = w] /\ ValueSeen' = ValueSeen
    BY <2>1, NothingSeen
  <2> HIDE DEF w
  <2> QED
    BY <1>1, <1>2, <1>3, <2>2 DEF Promise!MoveNextTo, Promise!Called, Promise!Becomes
<1>4. CASE moves
  <2>0. e # mark /\ list[e] = l /\ list[mark] = l
    BY <1>1, <1>4
  <2>1. PICK k \in 1 .. len[l] : e = w[k] /\ e = At(l, w, k)
    BY <2>0, MarkIs
  <2>2. PICK m \in 1 .. len[l] : /\ mark = w[m] /\ mark = At(l, w, m)
                                 /\ prev[mark] = At(l, w, m - 1)
    BY <2>0, MarkIs
  <2> DEFINE r == Promise!RemoveAt(w, k)
             q == IF m < k THEN m ELSE m - 1
  <2>3. m # k /\ q \in 1 .. len[l] - 1
    <3>1. m # k
      BY <2>0, <2>1, <2>2
    <3> QED
      BY <1>1, <3>1
  <2>4. /\ r \in Seq(Elems) /\ Len(r) = len[l] - 1 /\ Injective(r)
        /\ Promise!RemoveFirst(w, e) = r
        /\ r[q] = mark
    <3>1. /\ r \in Seq(Elems) /\ Len(r) = len[l] - 1
          /\ \A i \in 1 .. len[l] - 1 : r[i] = IF i < k THEN w[i] ELSE w[i + 1]
      <4>1. k \in 1 .. Len(w)
        BY <1>1
      <4> HIDE DEF w
      <4>2. /\ r \in Seq(Elems) /\ Len(r) = Len(w) - 1
            /\ \A i \in 1 .. Len(w) - 1 : r[i] = IF i < k THEN w[i] ELSE w[i + 1]
        BY <1>1, <4>1, RemoveAtIs
      <4> QED
        BY <1>1, <4>2
    <3>2. Promise!RemoveFirst(w, e) = r
      BY <1>1, <2>1, RemoveFirstIs
    <3>3. r[q] = mark
      <4>1. CASE m < k
        BY <2>2, <2>3, <3>1, <4>1
      <4>2. CASE m > k
        <5>1. q = m - 1 /\ ~ (m - 1 < k) /\ (m - 1) + 1 = m
          BY <1>1, <4>2
        <5> QED
          BY <2>2, <2>3, <3>1, <5>1
      <4> QED
        BY <1>1, <2>3, <4>1, <4>2
    <3>4. Injective(r)
      <4> SUFFICES ASSUME NEW i \in 1 .. len[l] - 1, NEW j \in 1 .. len[l] - 1, r[i] = r[j]
                   PROVE  i = j
        BY <3>1 DEF Injective
      <4> DEFINE Old(x) == IF x < k THEN x ELSE x + 1
      <4>1. \A x \in 1 .. len[l] - 1 : Old(x) \in 1 .. len[l]
        BY <1>1
      <4>2. \A x \in 1 .. len[l] - 1 : Old(x) \in 1 .. len[l] /\ r[x] = w[Old(x)]
        BY <3>1, <4>1
      <4> HIDE DEF Old
      <4>3. w[Old(i)] = w[Old(j)] /\ Old(i) \in 1 .. Len(w) /\ Old(j) \in 1 .. Len(w)
        BY <1>1, <4>2
      <4>4. Old(i) = Old(j)
        BY <1>1, <4>3 DEF Injective
      <4> QED
        BY <1>1, <4>4 DEF Old
    <3> QED
      BY <3>1, <3>2, <3>3, <3>4
  <2>5. Promise!Pos(r, mark) = q
    <3> HIDE DEF r, q
    <3>1. q \in 1 .. Len(r)
      BY <2>3, <2>4
    <3> QED
      BY <2>4, <3>1, PosIs
  <2>6. CASE MoveBefore(l, e, mark)
    <3>1. Relink(e, prev[mark])
      BY <2>0, <2>6 DEF MoveBefore
    <3>2. ContentsSeen' = [ContentsSeen EXCEPT ![l] = Promise!InsertAt(r, q, e)]
          /\ ValueSeen' = ValueSeen
      <4>1. CASE m - 1 = k
        <5>1. UNCHANGED <<next, len, value>>
          BY <2>1, <2>2, <3>1, <4>1 DEF Relink
        <5>2. q = k
          BY <1>1, <4>1
        <5> QED
          BY <2>1, <5>1, <5>2, StaysSeen
      <4>2. CASE m - 1 # k
        <5>1. q - 1 \in 0 .. len[l] - 1 /\ (q - 1) + 1 = q /\ q - 1 \in 0 .. Len(w)
              /\ m - 1 = IF q - 1 < k THEN q - 1 ELSE (q - 1) + 1
          BY <1>1, <2>3, <4>2
        <5>2. prev[mark] = At(l, r, q - 1)
          BY <1>1, <2>2, <5>1, AtRemoved
        <5>3. ContentsSeen' = [ContentsSeen EXCEPT ![l] = Promise!InsertAt(r, (q - 1) + 1, e)]
              /\ ValueSeen' = ValueSeen
          <6> HIDE DEF r, q
          <6> QED
            BY <2>1, <3>1, <5>1, <5>2, RelinkSeen DEF r
        <5> QED
          BY <5>1, <5>3
      <4> QED
        BY <4>1, <4>2
    <3> HIDE DEF r, w, q
    <3> QED
      BY <1>1, <1>2, <1>4, <2>4, <2>5, <2>6, <3>2
      DEF Promise!MoveNextTo, Promise!Called, Promise!Becomes, Promise!Before, moves
  <2>7. CASE MoveAfter(l, e, mark)
    <3>1. Relink(e, mark)
      BY <2>0, <2>7 DEF MoveAfter
    <3>2. ContentsSeen' = [ContentsSeen EXCEPT ![l] = Promise!InsertAt(r, q + 1, e)]
          /\ ValueSeen' = ValueSeen
      <4>1. q \in 0 .. len[l] - 1 /\ mark = At(l, r, q)
        BY <1>1, <2>3, <2>4 DEF At
      <4> HIDE DEF r, q
      <4> QED
        BY <2>1, <3>1, <4>1, RelinkSeen DEF r
    <3> HIDE DEF r, w, q
    <3> QED
      BY <1>1, <1>2, <1>4, <2>4, <2>5, <2>7, <3>2
      DEF Promise!MoveNextTo, Promise!Called, Promise!Becomes, Promise!After, moves
  <2> QED
    BY <2>6, <2>7
<1> QED
  BY <1>3, <1>4
-----------------------------------------------------------------------------
(***************************************************************************)
(* The loops of PushBackList and PushFrontList.  What is copied so far is  *)
(* at the end of the list, in the order of the source, and the loop is at  *)
(* the element to copy next.                                               *)
(***************************************************************************)
Copied == Cardinality(copying.made)

\* The elements that the users do not see in list m, and how many of them come
\* before those they see.
Hidden(m) == IF m = copying.to THEN Copied ELSE 0
Ahead(m) == IF m = copying.to /\ copying.op = "PushFrontList" THEN Copied ELSE 0

\* The nodes of the list before the first copy, the elements of the source
\* before the first that is copied, and the one that is copied next.
Before1 == IF copying.op = "PushFrontList" THEN 0 ELSE len[copying.to] - Copied
Skipped == IF copying.op = "PushFrontList" THEN copying.i ELSE 0
Turn == IF copying.op = "PushFrontList" THEN copying.i ELSE Copied + 1

CopiesFit ==
    copying.to # Nil => /\ copying.op \in {"PushBackList", "PushFrontList"}
                        /\ copying.to \in Lists /\ copying.other \in Lists
                        /\ copying.made \in SUBSET Elems /\ copying.i \in Nat
                        /\ Copied \in 0 .. len[copying.to]

\* What a loop that copies the list other to l has done.
CopiesAre(l, other) ==
    LET w == Walk(l)
        o == ContentsSeen[other]
    IN  /\ Copied + copying.i = Len(o)
        /\ copying.made = {w[Before1 + j] : j \in 1 .. Copied}
        /\ \A j \in 1 .. Copied : value[w[Before1 + j]] = value[o[Skipped + j]]
        /\ copying.i > 0 => copying.e = o[Turn]

CopiesKnown ==
    /\ copying.to = Nil => Idle
    /\ CopiesFit
    /\ \A l, other \in Lists : copying.to = l /\ copying.other = other => CopiesAre(l, other)

WalksKnown ==
    \A m \in Lists :
        /\ Walk(m) \in Seq(Elems) /\ Len(Walk(m)) = len[m] /\ len[m] \in Nat /\ Injective(Walk(m))
        /\ \A x \in 1 .. len[m] : Walk(m)[x] \in Contents(m)
        /\ \A x \in 1 .. len[m] - 1 : /\ next[Walk(m)[x]] = Walk(m)[x + 1]
                                      /\ prev[Walk(m)[x + 1]] = Walk(m)[x]

SeenKnown ==
    \A m \in Lists :
        /\ ContentsSeen[m] \in Seq(Elems) /\ Hidden(m) \in 0 .. len[m]
        /\ Len(ContentsSeen[m]) = len[m] - Hidden(m)
        /\ \A j \in 1 .. len[m] - Hidden(m) : ContentsSeen[m][j] = Walk(m)[Ahead(m) + j]

LEMMA WalksAreKnown == LinkInv => WalksKnown
<1> SUFFICES ASSUME LinkInv, NEW m \in Lists
             PROVE  /\ Walk(m) \in Seq(Elems) /\ Len(Walk(m)) = len[m] /\ len[m] \in Nat
                    /\ Injective(Walk(m))
                    /\ \A x \in 1 .. len[m] : Walk(m)[x] \in Contents(m)
                    /\ \A x \in 1 .. len[m] - 1 : /\ next[Walk(m)[x]] = Walk(m)[x + 1]
                                                  /\ prev[Walk(m)[x + 1]] = Walk(m)[x]
  BY DEF WalksKnown
<1>1. /\ Walk(m) \in Seq(Elems) /\ Len(Walk(m)) = len[m] /\ len[m] \in Nat /\ Injective(Walk(m))
      /\ \A x \in 1 .. len[m] : Walk(m)[x] \in Contents(m)
  BY WalkOf
<1>2. ASSUME NEW x \in 1 .. len[m] - 1
      PROVE  next[Walk(m)[x]] = Walk(m)[x + 1] /\ prev[Walk(m)[x + 1]] = Walk(m)[x]
  <2>1. x \in 0 .. len[m] /\ x \in 1 .. len[m] /\ x + 1 \in 1 .. len[m]
    BY <1>1
  <2>2. next[m] # Nil /\ Chain(next, m, Walk(m))
    BY <1>1, <2>1, WalkOf
  <2>3. At(m, Walk(m), x) = Walk(m)[x] /\ At(m, Walk(m), x + 1) = Walk(m)[x + 1]
    BY <1>1, <2>1 DEF At
  <2>4. next[At(m, Walk(m), x)] = At(m, Walk(m), x + 1)
    BY <1>1, <2>1, <2>2 DEF Chain
  <2>5. prev[At(m, Walk(m), x + 1)] = At(m, Walk(m), x)
    BY <2>1, <2>2, PrevIs
  <2> QED
    BY <2>3, <2>4, <2>5
<1> QED
  BY <1>1, <1>2

LEMMA SeenIsKnown == LinkInv /\ CopiesFit => SeenKnown
<1> SUFFICES ASSUME LinkInv, CopiesFit, NEW m \in Lists
             PROVE  /\ ContentsSeen[m] \in Seq(Elems) /\ Hidden(m) \in 0 .. len[m]
                    /\ Len(ContentsSeen[m]) = len[m] - Hidden(m)
                    /\ \A j \in 1 .. len[m] - Hidden(m) :
                          ContentsSeen[m][j] = Walk(m)[Ahead(m) + j]
  BY DEF SeenKnown
<1> DEFINE w == Walk(m)
           d == Hidden(m)
<1>1. w \in Seq(Elems) /\ Len(w) = len[m] /\ len[m] \in Nat
  BY WalkOf
<1>2. d \in 0 .. len[m]
  BY <1>1, NodesDisjoint DEF CopiesFit, Hidden
<1>3. ContentsSeen[m] = IF copying.op = "PushFrontList"
                        THEN SubSeq(w, d + 1, len[m]) ELSE SubSeq(w, 1, len[m] - d)
  BY DEF ContentsSeen, Hidden, Copied
<1>4. Ahead(m) = IF copying.op = "PushFrontList" THEN d ELSE 0
  BY DEF Ahead, Hidden
<1> HIDE DEF w, d
<1>5. CASE copying.op = "PushFrontList"
  <2> DEFINE s == SubSeq(w, d + 1, len[m])
  <2>1. /\ d + 1 \in Int /\ len[m] \in Int
        /\ \A i \in d + 1 .. len[m] : w[i] \in Elems
    BY <1>1, <1>2
  <2>2. /\ s \in Seq(Elems) /\ Len(s) = (IF d + 1 <= len[m] THEN len[m] - (d + 1) + 1 ELSE 0)
        /\ \A i \in 1 .. len[m] - (d + 1) + 1 : s[i] = w[(d + 1) + i - 1]
    BY <2>1, SubSeqProperties
  <2> HIDE DEF s
  <2>3. Len(s) = len[m] - d
    BY <1>1, <1>2, <2>2
  <2>4. ASSUME NEW j \in 1 .. len[m] - d PROVE s[j] = w[d + j]
    <3>1. j \in 1 .. len[m] - (d + 1) + 1 /\ (d + 1) + j - 1 = d + j
      BY <1>1, <1>2
    <3> QED
      BY <2>2, <3>1
  <2> QED
    BY <1>2, <1>3, <1>4, <1>5, <2>2, <2>3, <2>4 DEF s, w, d
<1>6. CASE copying.op # "PushFrontList"
  <2> DEFINE s == SubSeq(w, 1, len[m] - d)
  <2>1. /\ 1 \in Int /\ len[m] - d \in Int
        /\ \A i \in 1 .. len[m] - d : w[i] \in Elems
    BY <1>1, <1>2
  <2>2. /\ s \in Seq(Elems) /\ Len(s) = (IF 1 <= len[m] - d THEN (len[m] - d) - 1 + 1 ELSE 0)
        /\ \A i \in 1 .. (len[m] - d) - 1 + 1 : s[i] = w[1 + i - 1]
    BY <2>1, SubSeqProperties
  <2> HIDE DEF s
  <2>3. Len(s) = len[m] - d
    BY <1>1, <1>2, <2>2
  <2>4. ASSUME NEW j \in 1 .. len[m] - d PROVE s[j] = w[0 + j]
    <3>1. j \in 1 .. (len[m] - d) - 1 + 1 /\ 1 + j - 1 = 0 + j
      BY <1>1, <1>2
    <3> QED
      BY <2>2, <3>1
  <2> QED
    BY <1>2, <1>3, <1>4, <1>6, <2>2, <2>3, <2>4 DEF s, w, d
<1> QED
  BY <1>5, <1>6

\* Two states show the same if they show as many elements, and the same ones.
LEMMA SeenSame ==
    ASSUME SeenKnown, SeenKnown',
           \A m \in Lists :
               /\ len'[m] - Hidden(m)' = len[m] - Hidden(m)
               /\ \A j \in 1 .. len[m] - Hidden(m) :
                     Walk(m)'[Ahead(m)' + j] = Walk(m)[Ahead(m) + j]
    PROVE  ContentsSeen' = ContentsSeen
<1>1. ASSUME NEW m \in Lists PROVE ContentsSeen'[m] = ContentsSeen[m]
  <2> DEFINE s == ContentsSeen[m]
             t == ContentsSeen'[m]
  <2>1. s \in Seq(Elems) /\ t \in Seq(Elems) /\ Len(s) = Len(t)
    BY DEF SeenKnown
  <2>2. \A j \in 1 .. Len(s) : s[j] = t[j]
    BY DEF SeenKnown
  <2> HIDE DEF s, t
  <2> QED
    BY <2>1, <2>2, SeqEqual DEF s, t
<1>2. /\ ContentsSeen = [m \in Lists |-> ContentsSeen[m]]
      /\ ContentsSeen' = [m \in Lists |-> ContentsSeen'[m]]
  BY DEF ContentsSeen
<1> QED
  BY <1>1, <1>2

\* The elements that the users see are no copies, and every element of a list
\* is made.
LEMMA SeenNotCopies ==
    ASSUME LinkInv, WalksKnown, SeenKnown, NEW l \in Lists, NEW other \in Lists,
           copying.to = l, CopiesFit, CopiesAre(l, other)
    PROVE  /\ copying.made \subseteq Made
           /\ \A m \in Lists : \A j \in 1 .. Len(ContentsSeen[m]) :
                 ContentsSeen[m][j] \in Made \ copying.made
<1> DEFINE w == Walk(l)
<1>1. \A m \in Lists : Contents(m) \subseteq Made
  BY NodesDisjoint DEF Contents, Made, LinkInv, Unlinked
<1>2. /\ w \in Seq(Elems) /\ Len(w) = len[l] /\ len[l] \in Nat /\ Injective(w)
      /\ \A x \in 1 .. len[l] : w[x] \in Contents(l)
  BY DEF WalksKnown
<1>3. Copied \in 0 .. len[l] /\ Before1 = IF copying.op = "PushFrontList" THEN 0 ELSE len[l] - Copied
  BY NodesDisjoint DEF CopiesFit, Before1
<1>4. copying.made = {w[Before1 + j] : j \in 1 .. Copied}
  BY DEF CopiesAre
<1>5. \A j \in 1 .. Copied : Before1 + j \in 1 .. len[l]
  BY <1>2, <1>3
<1> HIDE DEF w
<1>6. copying.made \subseteq Contents(l)
  BY <1>2, <1>4, <1>5
<1>7. ASSUME NEW m \in Lists, NEW j \in 1 .. Len(ContentsSeen[m])
      PROVE  ContentsSeen[m][j] \in Made \ copying.made
  <2>1. /\ Hidden(m) \in 0 .. len[m] /\ len[m] \in Nat
        /\ j \in 1 .. len[m] - Hidden(m)
        /\ ContentsSeen[m][j] = Walk(m)[Ahead(m) + j]
    BY DEF SeenKnown, WalksKnown
  <2>2. Ahead(m) \in 0 .. Hidden(m)
    BY <2>1 DEF Ahead, Hidden
  <2>3. Ahead(m) + j \in 1 .. len[m]
    BY <2>1, <2>2
  <2>4. ContentsSeen[m][j] \in Contents(m)
    BY <2>1, <2>3 DEF WalksKnown
  <2>5. CASE m # l
    <3>1. ContentsSeen[m][j] \notin Contents(l)
      BY <2>4, <2>5 DEF Contents
    <3> QED
      BY <1>1, <1>6, <2>4, <3>1
  <2>6. CASE m = l
    <3>1. ASSUME NEW h \in 1 .. Copied PROVE Before1 + h # Ahead(l) + j
      BY <1>2, <1>3, <2>1, <2>6 DEF Ahead, Hidden
    <3>2. ASSUME NEW h \in 1 .. Copied PROVE w[Before1 + h] # w[Ahead(l) + j]
      BY <1>2, <1>5, <2>3, <2>6, <3>1 DEF Injective
    <3>3. ContentsSeen[m][j] = w[Ahead(l) + j]
      BY <2>1, <2>6 DEF w
    <3> QED
      BY <1>1, <1>4, <2>4, <3>2, <3>3
  <2> QED
    BY <2>5, <2>6
<1> QED
  BY <1>1, <1>6, <1>7

\* Until its first copy a loop changes nothing that the users see.
LEMMA ListBeginsSeen ==
    ASSUME LinkInv, LinkInv', Idle, NEW l \in Lists, NEW other \in Lists, PushListBegins(l, other)
    PROVE  UNCHANGED <<ContentsSeen, ValueSeen, call>> /\ CopiesKnown'
<1>1. /\ LazyNext(l) \in Link /\ \A z \in Nodes \ {l} : LazyNext(l)[z] = next[z]
      /\ Chain(LazyNext(l), l, Walk(l))
  BY LazyChain
<1>2. next' = LazyNext(l) /\ len' = len /\ value' = value /\ call' = call
  BY DEF PushListBegins
<1>3. \A m \in Lists : Walk(m)' = Walk(m)
  <2>1. len'[l] = Len(Walk(l))
    BY <1>2, WalkOf
  <2>2. Walk(l)' = Walk(l)
    BY <1>1, <1>2, <2>1, WalkBecomes
  <2>3. \A m \in Lists \ {l} : Walk(m)' = Walk(m)
    BY <1>1, <1>2, OthersStay, NodesDisjoint DEF ListOf
  <2> QED
    BY <2>2, <2>3
<1>4. /\ copying'.to = l /\ copying'.other = other /\ copying'.i = len[other]
      /\ copying'.made = {} /\ copying'.op \in {"PushBackList", "PushFrontList"}
      /\ copying'.op = "PushBackList" => copying'.e = Front(other)
      /\ copying'.op = "PushFrontList" => copying'.e = Back(other)
  BY DEF PushListBegins
<1>5. Copied' = 0
  BY <1>4, FS_EmptySet DEF Copied
<1>6. /\ copying.to = Nil /\ copying.made = {} /\ copying.op = "none"
  BY DEF Idle, NotCopying
<1>7. WalksKnown /\ WalksKnown'
  BY WalksAreKnown, PTL
<1>8. CopiesFit /\ CopiesFit'
  <2>1. CopiesFit
    BY <1>6 DEF CopiesFit
  <2>2. len[l] \in Nat /\ len[other] \in Nat
    BY <1>7 DEF WalksKnown
  <2>3. CopiesFit'
    BY <1>2, <1>4, <1>5, <2>2 DEF CopiesFit
  <2> QED
    BY <2>1, <2>3
<1>9. SeenKnown /\ SeenKnown'
  BY <1>8, SeenIsKnown, PTL
<1>10. \A m \in Lists : Hidden(m) = 0 /\ Hidden(m)' = 0 /\ Ahead(m) = 0 /\ Ahead(m)' = 0
  BY <1>5, <1>6, NodesDisjoint DEF Hidden, Ahead
<1>11. ContentsSeen' = ContentsSeen
  BY <1>2, <1>3, <1>9, <1>10, SeenSame
<1>12. ValueSeen' = ValueSeen
  BY <1>2, <1>4, <1>6 DEF ValueSeen
<1>13. ContentsSeen[other] = Walk(other)
  BY SeenInList
<1>14. CopiesAre(l, other)'
  <2>1. /\ Walk(other) \in Seq(Elems) /\ Len(Walk(other)) = len[other] /\ len[other] \in Nat
    BY <1>7 DEF WalksKnown
  <2>2. ASSUME len[other] > 0 PROVE copying'.e = Walk(other)[Turn']
    <3>1. next[other] # Nil
      BY <2>2, WalkOf
    <3>2. /\ 0 \in 0 .. len[other] /\ 1 \in 1 .. len[other] /\ len[other] \in 1 .. len[other]
          /\ len[other] + 1 \notin 1 .. len[other] /\ 0 \notin 1 .. len[other]
      BY <2>1, <2>2
    <3>3. Chain(next, other, Walk(other))
      BY <3>1, WalkOf
    <3>4. next[other] = Walk(other)[1]
      <4>1. At(other, Walk(other), 0) = other /\ At(other, Walk(other), 0 + 1) = Walk(other)[1]
        BY <2>1, <3>2 DEF At
      <4> QED
        BY <2>1, <3>2, <3>3, <4>1 DEF Chain
    <3>5. prev[other] = Walk(other)[len[other]]
      <4>1. /\ At(other, Walk(other), len[other] + 1) = other
            /\ At(other, Walk(other), len[other]) = Walk(other)[len[other]]
            /\ len[other] \in 0 .. len[other]
        BY <2>1, <3>2 DEF At
      <4> QED
        BY <3>1, <4>1, PrevIs
    <3>6. Front(other) = next[other] /\ Back(other) = prev[other]
      BY <2>2 DEF Front, Back
    <3>7. Turn' = IF copying'.op = "PushFrontList" THEN len[other] ELSE 1
      BY <1>4, <1>5 DEF Turn
    <3> QED
      BY <1>4, <3>4, <3>5, <3>6, <3>7
  <2>3. Copied' + copying'.i = Len(ContentsSeen'[other])
    BY <1>4, <1>5, <1>11, <1>13, <2>1
  <2>4. copying'.made = {Walk(l)'[Before1' + j] : j \in 1 .. Copied'}
    BY <1>4, <1>5
  <2>5. copying'.i > 0 => copying'.e = ContentsSeen'[other][Turn']
    BY <1>4, <1>11, <1>13, <2>2
  <2>6. \A j \in 1 .. Copied' :
           value'[Walk(l)'[Before1' + j]] = value'[ContentsSeen'[other][Skipped' + j]]
    BY <1>5
  <2> QED
    BY <2>3, <2>4, <2>5, <2>6 DEF CopiesAre
<1>15. CopiesKnown'
  BY <1>4, <1>8, <1>14, NodesDisjoint DEF CopiesKnown
<1> QED
  BY <1>2, <1>11, <1>12, <1>15

\* A copy takes the place that it is promised, and the loop steps to the
\* element that is next in the order of the source.
LEMMA CopyOneSeen ==
    ASSUME LinkInv, LinkInv', CopyInv, CopiesKnown, CopyOne
    PROVE  UNCHANGED <<ContentsSeen, ValueSeen, call>> /\ CopiesKnown'
<1>1. copying.i > 0 /\ copying.to # Nil
  BY DEF CopyOne, CopiesKnown, Idle, NotCopying
<1>2. /\ copying.op \in {"PushBackList", "PushFrontList"} /\ copying.to \in Lists
      /\ copying.other \in Lists /\ copying.made \in SUBSET Elems /\ copying.i \in Nat
      /\ Copied \in 0 .. len[copying.to] /\ CopiesFit
  BY <1>1 DEF CopiesKnown, CopiesFit
<1>3. /\ copying.i \in Nat /\ Copied \in Nat
  <2>1. len[copying.to] \in Nat
    BY <1>2, WalkOf
  <2> QED
    BY <1>2, <2>1
<1>a. PICK l0 \in Lists : l0 = copying.to
  BY <1>2
<1>b. PICK other0 \in Lists : other0 = copying.other
  BY <1>2
<1>c. PICK e0 : e0 = copying.e
  OBVIOUS
<1>d. PICK i0 \in Nat : i0 = copying.i
  BY <1>3
<1>e. PICK c0 \in Nat : c0 = Copied
  BY <1>3
<1>4. CopiesAre(l0, other0)
  BY <1>a, <1>b, <1>c, <1>d, <1>e DEF CopiesKnown
<1>5. WalksKnown /\ WalksKnown' /\ SeenKnown
  BY <1>2, WalksAreKnown, SeenIsKnown, PTL
<1> DEFINE w == Walk(l0)
           w2 == Walk(l0)'
           o == ContentsSeen[other0]
           front == copying.op = "PushFrontList"
           at == IF copying.op = "PushBackList" THEN prev[l0] ELSE l0
           k == IF copying.op = "PushFrontList" THEN 0 ELSE len[l0]
<1>6. /\ InsertValue(l0, next, prev, at, New, value[e0])
      /\ copying'.to = l0 /\ copying'.op = copying.op /\ copying'.other = other0
      /\ copying'.i = i0 - 1 /\ copying'.made = copying.made \cup {New}
      /\ copying'.e = Step(list', IF copying.op = "PushBackList" THEN next' ELSE prev', e0)
      /\ call' = call
  BY <1>a, <1>b, <1>c, <1>d, <1>e DEF CopyOne
<1>7. /\ w \in Seq(Elems) /\ Len(w) = len[l0] /\ len[l0] \in Nat /\ Injective(w)
      /\ c0 \in 0 .. len[l0] /\ o \in Seq(Elems) /\ Len(o) \in Nat
      /\ i0 > 0 /\ c0 + i0 = Len(o)
  <2>1. w \in Seq(Elems) /\ Len(w) = len[l0] /\ len[l0] \in Nat /\ Injective(w)
    BY <1>5 DEF WalksKnown
  <2>2. o \in Seq(Elems)
    BY <1>5 DEF SeenKnown
  <2>3. i0 > 0 /\ c0 \in 0 .. len[l0]
    BY <1>1, <1>2, <1>a, <1>d, <1>e
  <2>4. c0 + i0 = Len(o)
    BY <1>4, <1>d, <1>e DEF CopiesAre
  <2> QED
    BY <2>1, <2>2, <2>3, <2>4
<1>8. next[l0] # Nil
  BY <1>1, <1>a, <1>b, <1>c, <1>d, <1>e DEF CopyInv
<1>9. k \in 0 .. len[l0] /\ at = At(l0, w, k)
  <2>1. k \in 0 .. len[l0]
    BY <1>7
  <2>2. At(l0, w, 0) = l0 /\ At(l0, w, len[l0] + 1) = l0
    BY <1>7 DEF At
  <2>3. prev[l0] = At(l0, w, len[l0])
    <3>1. len[l0] \in 0 .. len[l0]
      BY <1>7
    <3> QED
      BY <1>8, <2>2, <3>1, PrevIs
  <2> QED
    BY <1>2, <2>1, <2>2, <2>3
<1>10. /\ New \in Elems \ Made
       /\ w2 = Promise!InsertAt(w, k + 1, New)
       /\ \A m \in Lists \ {l0} : Walk(m)' = Walk(m)
  <2>1. Chain(next, l0, w) /\ next \in Link
    BY <1>8, WalkOf DEF LinkInv, LinkTypes
  <2> HIDE DEF at, k, w
  <2> QED
    BY <1>6, <1>9, <2>1, InsertWalks DEF w
<1>11. /\ w2 \in Seq(Elems) /\ Len(w2) = len[l0] + 1
       /\ \A x \in 1 .. len[l0] + 1 : w2[x] = IF x < k + 1 THEN w[x] ELSE IF x = k + 1 THEN New ELSE w[x - 1]
  <2>1. k + 1 \in 1 .. Len(w) + 1
    BY <1>7, <1>9
  <2> HIDE DEF k, w, w2
  <2>2. PICK h \in 1 .. Len(w) + 1 : h = k + 1
    BY <2>1
  <2>3. /\ Promise!InsertAt(w, h, New) \in Seq(Elems)
        /\ Len(Promise!InsertAt(w, h, New)) = Len(w) + 1
        /\ \A x \in 1 .. Len(w) + 1 :
              Promise!InsertAt(w, h, New)[x] = IF x < h THEN w[x] ELSE IF x = h THEN New ELSE w[x - 1]
    BY <1>7, <1>10, InsertAtIs
  <2>4. w2 = Promise!InsertAt(w, h, New) /\ Len(w) + 1 = len[l0] + 1
    BY <1>7, <1>10, <2>2
  <2> QED
    BY <2>2, <2>3, <2>4
<1>12. len' = [len EXCEPT ![l0] = @ + 1] /\ value' = [value EXCEPT ![New] = value[e0]]
  BY <1>6 DEF InsertValue
<1>13. /\ len'[l0] = len[l0] + 1 /\ \A m \in Lists \ {l0} : len'[m] = len[m]
       /\ value'[New] = value[e0] /\ \A x \in Elems \ {New} : value'[x] = value[x]
  BY <1>10, <1>12 DEF LinkInv, LinkTypes
<1>14. /\ copying.made \subseteq Made
       /\ \A m \in Lists : \A j \in 1 .. Len(ContentsSeen[m]) :
             ContentsSeen[m][j] \in Made \ copying.made
  BY <1>2, <1>a, <1>b, <1>c, <1>d, <1>e, <1>4, <1>5, SeenNotCopies
<1>15. Copied' = c0 + 1
  <2>1. IsFiniteSet(copying.made)
    BY <1>2, ListAssumption, FS_Subset
  <2>2. New \notin copying.made
    BY <1>10, <1>14
  <2>3. Cardinality(copying.made \cup {New}) = Cardinality(copying.made) + 1
    BY <2>1, <2>2, FS_AddElement
  <2> QED
    BY <1>a, <1>b, <1>c, <1>d, <1>e, <1>6, <2>3 DEF Copied
<1>16. CopiesFit'
  BY <1>2, <1>a, <1>b, <1>c, <1>d, <1>e, <1>6, <1>7, <1>10, <1>13, <1>15 DEF CopiesFit
<1>17. SeenKnown'
  BY <1>16, SeenIsKnown, PTL
<1>18. /\ \A m \in Lists : Hidden(m) = (IF m = l0 THEN c0 ELSE 0)
                           /\ Hidden(m)' = IF m = l0 THEN c0 + 1 ELSE 0
       /\ \A m \in Lists : Ahead(m) = (IF m = l0 /\ front THEN c0 ELSE 0)
                           /\ Ahead(m)' = IF m = l0 /\ front THEN c0 + 1 ELSE 0
  BY <1>a, <1>b, <1>c, <1>d, <1>e, <1>6, <1>15 DEF Hidden, Ahead
<1>19. /\ Before1 = IF front THEN 0 ELSE len[l0] - c0
       /\ Before1' = IF front THEN 0 ELSE len[l0] - c0
       /\ Skipped = (IF front THEN i0 ELSE 0) /\ Skipped' = (IF front THEN i0 - 1 ELSE 0)
       /\ Turn = (IF front THEN i0 ELSE c0 + 1) /\ Turn' = (IF front THEN i0 - 1 ELSE c0 + 2)
  <2>1. len[l0] + 1 - (c0 + 1) = len[l0] - c0 /\ (c0 + 1) + 1 = c0 + 2
    BY <1>7
  <2>2. Before1 = IF front THEN 0 ELSE len[l0] - c0
    BY <1>a, <1>e DEF Before1
  <2>3. Before1' = IF front THEN 0 ELSE len'[l0] - Copied'
    BY <1>6 DEF Before1
  <2>4. Skipped = (IF front THEN i0 ELSE 0) /\ Skipped' = (IF front THEN i0 - 1 ELSE 0)
    BY <1>d, <1>6 DEF Skipped
  <2>5. Turn = (IF front THEN i0 ELSE c0 + 1) /\ Turn' = (IF front THEN i0 - 1 ELSE Copied' + 1)
    BY <1>d, <1>e, <1>6 DEF Turn
  <2>6. len'[l0] - Copied' = len[l0] - c0
    <3>1. PICK x : x = len[l0]
      OBVIOUS
    <3>2. x \in Nat /\ len'[l0] = x + 1
      BY <1>7, <1>13, <3>1
    <3>3. PICK y : y = Copied'
      OBVIOUS
    <3>4. y = c0 + 1
      BY <1>15, <3>3
    <3> QED
      BY <3>1, <3>2, <3>3, <3>4
  <2>7. Copied' + 1 = c0 + 2
    BY <1>15, <2>1
  <2> QED
    BY <2>2, <2>3, <2>4, <2>5, <2>6, <2>7
<1>20. ContentsSeen' = ContentsSeen
  <2>1. ASSUME NEW m \in Lists
        PROVE  /\ len'[m] - Hidden(m)' = len[m] - Hidden(m)
               /\ \A j \in 1 .. len[m] - Hidden(m) :
                     Walk(m)'[Ahead(m)' + j] = Walk(m)[Ahead(m) + j]
    <3>1. CASE m # l0
      BY <1>10, <1>13, <1>18, <3>1
    <3>2. CASE m = l0
      <4>1. len'[m] - Hidden(m)' = len[m] - Hidden(m)
        BY <1>7, <1>13, <1>18, <3>2
      <4>2. ASSUME NEW j \in 1 .. len[l0] - c0
            PROVE  IF front THEN w2[(c0 + 1) + j] = w[c0 + j] ELSE w2[0 + j] = w[0 + j]
        <5>1. /\ (c0 + 1) + j \in 1 .. len[l0] + 1 /\ (c0 + 1) + j > 1
              /\ ((c0 + 1) + j) - 1 = c0 + j
              /\ 0 + j \in 1 .. len[l0] + 1 /\ 0 + j < len[l0] + 1
          BY <1>7
        <5> HIDE DEF w, w2
        <5> QED
          BY <1>11, <5>1
      <4> QED
        BY <1>18, <3>2, <4>1, <4>2
    <3> QED
      BY <3>1, <3>2
  <2> QED
    BY <1>5, <1>17, <2>1, SeenSame
<1>21. ValueSeen' = ValueSeen
  <2>1. value[New] = Nil
    BY <1>10 DEF Made
  <2> QED
    BY <1>6, <1>13, <2>1 DEF ValueSeen
<1> HIDE DEF w, w2, o, at
<1>22. /\ copying.made = {w[Before1 + j] : j \in 1 .. c0}
       /\ \A j \in 1 .. c0 : value[w[Before1 + j]] = value[o[Skipped + j]]
       /\ e0 = o[Turn]
  BY <1>a, <1>b, <1>c, <1>d, <1>e, <1>4, <1>7 DEF CopiesAre, w, o
\* The copies after the step, one by one.
<1>23. \A j \in 1 .. c0 + 1 :
          w2[Before1' + j] = IF front THEN (IF j = 1 THEN New ELSE w[j - 1])
                             ELSE IF j = c0 + 1 THEN New ELSE w[Before1 + j]
  <2> SUFFICES ASSUME NEW j \in 1 .. c0 + 1
               PROVE  w2[Before1' + j] = IF front THEN (IF j = 1 THEN New ELSE w[j - 1])
                                         ELSE IF j = c0 + 1 THEN New ELSE w[Before1 + j]
    OBVIOUS
  <2>1. CASE front
    <3>1. j \in 1 .. len[l0] + 1 /\ 0 + j = j /\ ~(j < 1)
      BY <1>7
    <3>2. w2[j] = IF j = 1 THEN New ELSE w[j - 1]
      <4>1. w2[j] = IF j < 0 + 1 THEN w[j] ELSE IF j = 0 + 1 THEN New ELSE w[j - 1]
        BY <1>11, <2>1, <3>1
      <4> QED
        BY <3>1, <4>1
    <3> QED
      BY <1>19, <2>1, <3>1, <3>2
  <2>2. CASE ~front
    <3>1. /\ (len[l0] - c0) + j \in 1 .. len[l0] + 1
          /\ j = c0 + 1 => (len[l0] - c0) + j = len[l0] + 1
          /\ j # c0 + 1 => (len[l0] - c0) + j < len[l0] + 1
          /\ ~(len[l0] + 1 < len[l0] + 1)
      <4>1. len[l0] \in Nat /\ c0 \in Nat /\ c0 <= len[l0] /\ j \in Nat /\ 1 <= j /\ j <= c0 + 1
        BY <1>7
      <4> QED
        BY <4>1
    <3>2. Before1 = len[l0] - c0 /\ Before1' = len[l0] - c0 /\ k = len[l0]
      BY <1>19, <2>2
    <3> HIDE DEF k
    <3>3. w2[(len[l0] - c0) + j] = IF j = c0 + 1 THEN New ELSE w[(len[l0] - c0) + j]
      BY <1>11, <3>1, <3>2
    <3> QED
      BY <2>2, <3>2, <3>3
  <2> QED
    BY <2>1, <2>2
<1>24. copying'.made = {w2[Before1' + j] : j \in 1 .. c0 + 1}
  <2>1. CASE front
    <3>1. copying.made = {w[j] : j \in 1 .. c0}
      BY <1>19, <1>22, <2>1
    <3>2. {w2[Before1' + j] : j \in 1 .. c0 + 1} = {w[j] : j \in 1 .. c0} \cup {New}
      <4>1. ASSUME NEW j \in 1 .. c0 + 1 PROVE w2[Before1' + j] \in {w[h] : h \in 1 .. c0} \cup {New}
        <5>1. j = 1 \/ j - 1 \in 1 .. c0
          BY <1>7
        <5> QED
          BY <1>23, <2>1, <5>1
      <4>2. ASSUME NEW h \in 1 .. c0 PROVE \E j \in 1 .. c0 + 1 : w[h] = w2[Before1' + j]
        <5>1. h + 1 \in 1 .. c0 + 1 /\ h + 1 # 1 /\ (h + 1) - 1 = h
          BY <1>7
        <5> QED
          BY <1>23, <2>1, <5>1
      <4>3. \E j \in 1 .. c0 + 1 : New = w2[Before1' + j]
        <5>1. 1 \in 1 .. c0 + 1
          BY <1>7
        <5> QED
          BY <1>23, <2>1, <5>1
      <4> QED
        BY <4>1, <4>2, <4>3
    <3> QED
      BY <1>6, <3>1, <3>2
  <2>2. CASE ~front
    <3>1. {w2[Before1' + j] : j \in 1 .. c0 + 1} = {w[Before1 + j] : j \in 1 .. c0} \cup {New}
      <4>1. ASSUME NEW j \in 1 .. c0 + 1
            PROVE  w2[Before1' + j] \in {w[Before1 + h] : h \in 1 .. c0} \cup {New}
        <5>1. j = c0 + 1 \/ j \in 1 .. c0
          BY <1>7
        <5> QED
          BY <1>23, <2>2, <5>1
      <4>2. ASSUME NEW h \in 1 .. c0 PROVE \E j \in 1 .. c0 + 1 : w[Before1 + h] = w2[Before1' + j]
        <5>1. h \in 1 .. c0 + 1 /\ h # c0 + 1
          BY <1>7
        <5> QED
          BY <1>23, <2>2, <5>1
      <4>3. \E j \in 1 .. c0 + 1 : New = w2[Before1' + j]
        <5>1. c0 + 1 \in 1 .. c0 + 1
          BY <1>7
        <5> QED
          BY <1>23, <2>2, <5>1
      <4> QED
        BY <4>1, <4>2, <4>3
    <3> QED
      BY <1>6, <1>22, <3>1
  <2> QED
    BY <2>1, <2>2
<1>25. ASSUME NEW j \in 1 .. c0 + 1
       PROVE  value'[w2[Before1' + j]] = value'[o[Skipped' + j]]
  <2>1. Skipped' + j \in 1 .. Len(o)
    BY <1>7, <1>19
  <2>2. o[Skipped' + j] \in Made
    BY <1>14, <2>1 DEF o
  <2>3. value'[o[Skipped' + j]] = value[o[Skipped' + j]]
    BY <1>10, <1>13, <2>2 DEF Made
  <2>4. ASSUME NEW h \in 1 .. c0 PROVE value'[w[Before1 + h]] = value[o[Skipped + h]]
    <3>1. w[Before1 + h] \in Made
      BY <1>14, <1>22
    <3>2. value'[w[Before1 + h]] = value[w[Before1 + h]]
      BY <1>10, <1>13, <3>1 DEF Made
    <3> QED
      BY <1>22, <3>2
  <2>5. CASE front /\ j = 1
    <3>1. Skipped' + j = Turn
      BY <1>7, <1>19, <2>5
    <3> QED
      BY <1>13, <1>22, <1>23, <2>3, <2>5, <3>1
  <2>6. CASE front /\ j # 1
    <3>1. j - 1 \in 1 .. c0 /\ Skipped + (j - 1) = Skipped' + j /\ Before1 + (j - 1) = j - 1
      BY <1>7, <1>19, <2>6
    <3> QED
      BY <1>23, <2>3, <2>4, <2>6, <3>1
  <2>7. CASE ~front /\ j = c0 + 1
    <3>1. Skipped' + j = Turn
      BY <1>7, <1>19, <2>7
    <3> QED
      BY <1>13, <1>22, <1>23, <2>3, <2>7, <3>1
  <2>8. CASE ~front /\ j # c0 + 1
    <3>1. j \in 1 .. c0 /\ Skipped = Skipped'
      BY <1>7, <1>19, <2>8
    <3> QED
      BY <1>23, <2>3, <2>4, <2>8, <3>1
  <2> QED
    BY <2>5, <2>6, <2>7, <2>8
\* The neighbour of the element that was copied is the next of the source.
<1>26. ASSUME i0 - 1 > 0
       PROVE  copying'.e = o[Turn']
  <2> DEFINE v == Walk(other0)'
             a == Ahead(other0)'
             n == len'[other0]
  <2>1. /\ v \in Seq(Elems) /\ Len(v) = n /\ n \in Nat
        /\ \A x \in 1 .. n : v[x] \in Contents(other0)'
        /\ \A x \in 1 .. n - 1 : next'[v[x]] = v[x + 1] /\ prev'[v[x + 1]] = v[x]
    BY <1>5 DEF WalksKnown
  <2>2. /\ Hidden(other0)' \in 0 .. n /\ Len(o) = n - Hidden(other0)'
        /\ \A j \in 1 .. Len(o) : o[j] = v[a + j]
    BY <1>17, <1>20 DEF SeenKnown, o
  <2>3. a \in 0 .. Hidden(other0)'
    BY <1>7, <1>18
  <2> HIDE DEF v, a, n
  <2>4. \A x \in 1 .. n : v[x] \in Elems /\ list'[v[x]] = other0
    BY <2>1 DEF Contents
  <2>5. CASE front
    <3>0. Turn = i0 /\ Turn' = i0 - 1
      BY <1>19, <2>5
    <3>1. /\ i0 \in 1 .. Len(o) /\ i0 - 1 \in 1 .. Len(o)
          /\ a + i0 \in 1 .. n /\ a + (i0 - 1) \in 1 .. n - 1 /\ a + (i0 - 1) \in 1 .. n
          /\ (a + (i0 - 1)) + 1 = a + i0
      <4>1. i0 \in 1 .. Len(o) /\ i0 - 1 \in 1 .. Len(o)
        BY <1>7, <1>26
      <4>2. a \in Nat /\ n \in Nat /\ Len(o) \in Nat /\ Len(o) <= n - a
        BY <1>7, <2>1, <2>2, <2>3
      <4> QED
        BY <4>1, <4>2
    <3>2. e0 = v[a + i0] /\ o[i0 - 1] = v[a + (i0 - 1)]
      BY <1>22, <2>2, <3>0, <3>1
    <3>3. prev'[e0] = v[a + (i0 - 1)]
      BY <2>1, <3>1, <3>2
    <3>4. copying'.e = Step(list', prev', e0)
      BY <1>6, <2>5
    <3>5. list'[e0] = other0 /\ prev'[e0] \in Elems
      BY <2>4, <3>1, <3>2, <3>3
    <3>6. Step(list', prev', e0) = prev'[e0]
      BY <3>5, NodesDisjoint DEF Step
    <3> QED
      BY <3>0, <3>2, <3>3, <3>4, <3>6
  <2>6. CASE ~front
    <3>0. Turn = c0 + 1 /\ Turn' = c0 + 2
      BY <1>19, <2>6
    <3>1. /\ c0 + 1 \in 1 .. Len(o) /\ c0 + 2 \in 1 .. Len(o)
          /\ a + (c0 + 1) \in 1 .. n - 1 /\ a + (c0 + 1) \in 1 .. n /\ a + (c0 + 2) \in 1 .. n
          /\ (a + (c0 + 1)) + 1 = a + (c0 + 2)
      <4>1. c0 + 1 \in 1 .. Len(o) /\ c0 + 2 \in 1 .. Len(o)
        BY <1>7, <1>26
      <4>2. a \in Nat /\ n \in Nat /\ Len(o) \in Nat /\ Len(o) <= n - a
        BY <1>7, <2>1, <2>2, <2>3
      <4> QED
        BY <4>1, <4>2
    <3>2. e0 = v[a + (c0 + 1)] /\ o[c0 + 2] = v[a + (c0 + 2)]
      BY <1>22, <2>2, <3>0, <3>1
    <3>3. next'[e0] = v[a + (c0 + 2)]
      BY <2>1, <3>1, <3>2
    <3>4. copying'.e = Step(list', next', e0)
      BY <1>2, <1>6, <2>6
    <3>5. list'[e0] = other0 /\ next'[e0] \in Elems
      BY <2>4, <3>1, <3>2, <3>3
    <3>6. Step(list', next', e0) = next'[e0]
      BY <3>5, NodesDisjoint DEF Step
    <3> QED
      BY <3>0, <3>2, <3>3, <3>4, <3>6
  <2> QED
    BY <2>5, <2>6
<1>27. CopiesAre(l0, other0)'
  <2>1. Copied' + copying'.i = Len(ContentsSeen'[other0])
    BY <1>6, <1>7, <1>15, <1>20 DEF o
  <2> QED
    BY <1>6, <1>15, <1>20, <1>24, <1>25, <1>26, <2>1 DEF CopiesAre, w2, o
<1>28. CopiesKnown'
  BY <1>6, <1>16, <1>27, NodesDisjoint DEF CopiesKnown
<1> QED
  BY <1>6, <1>20, <1>21, <1>28

LEMMA IdleIsKnown == Idle => CopiesKnown
BY NodesDisjoint DEF Idle, NotCopying, CopiesKnown, CopiesFit

\* At its end the copies appear, all at once.
LEMMA ListEndsSeen ==
    ASSUME LinkInv, LinkInv', CopiesKnown, PushListEnds
    PROVE  (\E l, other \in Lists : Promise!PushList(l, other)) /\ CopiesKnown'
<1>1. copying.to # Nil /\ copying.i = 0 /\ Idle' /\ UNCHANGED <<next, len, value>>
  BY DEF PushListEnds, Idle, links
<1>2. /\ copying.op \in {"PushBackList", "PushFrontList"} /\ copying.to \in Lists
      /\ copying.other \in Lists /\ Copied \in 0 .. len[copying.to] /\ CopiesFit
  BY <1>1 DEF CopiesKnown, CopiesFit
<1>3. WalksKnown /\ WalksKnown' /\ SeenKnown
  BY <1>2, WalksAreKnown, SeenIsKnown, PTL
<1>a. PICK l \in Lists : l = copying.to
  BY <1>2
<1>b. PICK other \in Lists : other = copying.other
  BY <1>2
<1>c. PICK c \in Nat : c = Copied
  <2>1. len[l] \in Nat
    BY <1>3 DEF WalksKnown
  <2> QED
    BY <1>2, <1>a, <2>1
<1>4. CopiesAre(l, other)
  BY <1>a, <1>b DEF CopiesKnown
<1> DEFINE w == Walk(l)
           s == ContentsSeen[l]
           o == ContentsSeen[other]
           front == copying.op = "PushFrontList"
           copy == [j \in 1 .. c |-> w[Before1 + j]]
<1>5. /\ w \in Seq(Elems) /\ Len(w) = len[l] /\ len[l] \in Nat /\ Injective(w)
      /\ c \in 0 .. len[l] /\ o \in Seq(Elems) /\ Len(o) = c
  BY <1>1, <1>2, <1>3, <1>a, <1>c, <1>4 DEF WalksKnown, SeenKnown, CopiesAre
<1>6. /\ Before1 = (IF front THEN 0 ELSE len[l] - c) /\ Skipped = 0
  BY <1>1, <1>a, <1>c DEF Before1, Skipped
<1>7. \A j \in 1 .. c : Before1 + j \in 1 .. len[l] /\ Before1 \in Nat
  BY <1>5, <1>6
<1>8. /\ copying.made = {w[Before1 + j] : j \in 1 .. c}
      /\ \A j \in 1 .. c : value[w[Before1 + j]] = value[o[j]]
  <2>1. \A j \in 1 .. c : Skipped + j = j
    BY <1>6
  <2> QED
    BY <1>c, <1>4, <2>1 DEF CopiesAre
<1>9. /\ copying.made \subseteq Made
      /\ \A j \in 1 .. c : o[j] \in Made \ copying.made
  BY <1>2, <1>3, <1>4, <1>5, <1>a, SeenNotCopies
<1> HIDE DEF w, o
<1>10. copy \in Seq(Elems) /\ Len(copy) = c /\ DOMAIN copy = 1 .. c
  BY <1>5, <1>7
<1>11. \A j \in 1 .. c : copy[j] = w[Before1 + j]
  OBVIOUS
<1>12. Injective(copy) /\ Promise!IsInjective(copy)
  <2>1. ASSUME NEW i \in 1 .. c, NEW j \in 1 .. c, copy[i] = copy[j] PROVE i = j
    <3>1. Before1 + i = Before1 + j
      BY <1>5, <1>7, <1>11, <2>1 DEF Injective
    <3> QED
      BY <1>7, <3>1
  <2> QED
    BY <1>10, <2>1 DEF Injective, Promise!IsInjective
<1> HIDE DEF copy
<1>13. Promise!ToSet(copy) = copying.made
  BY <1>8, <1>10, <1>11 DEF Promise!ToSet
<1>14. copy \in [DOMAIN o -> Elems \ Promise!Made]
  <2>1. DOMAIN o = 1 .. c
    BY <1>5
  <2>2. \A j \in 1 .. c : copy[j] \in copying.made
    BY <1>8, <1>11
  <2>3. \A e \in Elems : e \in copying.made => ValueSeen[e] = Nil
    BY DEF ValueSeen
  <2>4. \A j \in 1 .. c : copy[j] \in Elems
    BY <1>10
  <2>5. copy = [j \in 1 .. c |-> copy[j]]
    BY <1>10
  <2> QED
    BY <2>1, <2>2, <2>3, <2>4, <2>5 DEF Promise!Made
<1>15. SeenAll'
  BY <1>1, SeenWhenIdle, PTL
<1>16. \A m \in Lists : ContentsSeen'[m] = Walk(m)
  BY <1>1, <1>15 DEF SeenAll, Walks, Walk
<1>17. \A m \in Lists \ {l} : ContentsSeen[m] = Walk(m)
  <2> SUFFICES ASSUME NEW m \in Lists \ {l} PROVE ContentsSeen[m] = Walk(m)
    OBVIOUS
  <2>1. Hidden(m) = 0 /\ Ahead(m) = 0
    BY <1>a DEF Hidden, Ahead
  <2>2. /\ ContentsSeen[m] \in Seq(Elems) /\ Len(ContentsSeen[m]) = len[m]
        /\ \A j \in 1 .. len[m] : ContentsSeen[m][j] = Walk(m)[j]
        /\ Walk(m) \in Seq(Elems) /\ Len(Walk(m)) = len[m]
    BY <1>3, <2>1 DEF SeenKnown, WalksKnown
  <2> QED
    BY <2>2, SeqEqual
<1>18. w = IF front THEN copy \o s ELSE s \o copy
  <2>1. /\ s \in Seq(Elems) /\ Len(s) = len[l] - c
        /\ \A j \in 1 .. len[l] - c : s[j] = w[(IF front THEN c ELSE 0) + j]
    BY <1>3, <1>a, <1>c DEF SeenKnown, Hidden, Ahead, w
  <2> HIDE DEF s
  <2>2. CASE front
    <3>1. /\ copy \o s \in Seq(Elems) /\ Len(copy \o s) = c + (len[l] - c)
          /\ \A i \in 1 .. c + (len[l] - c) : (copy \o s)[i] = IF i <= c THEN copy[i] ELSE s[i - c]
      <4>1. /\ copy \o s \in Seq(Elems) /\ Len(copy \o s) = Len(copy) + Len(s)
            /\ \A i \in 1 .. Len(copy) + Len(s) :
                  (copy \o s)[i] = IF i <= Len(copy) THEN copy[i] ELSE s[i - Len(copy)]
        BY <1>10, <2>1, ConcatProperties
      <4>2. Len(copy) = c /\ Len(s) = len[l] - c
        BY <1>10, <2>1
      <4> QED
        BY <4>1, <4>2
    <3>2. Len(w) = Len(copy \o s) /\ c + (len[l] - c) = len[l]
      BY <1>5, <3>1
    <3>3. ASSUME NEW i \in 1 .. len[l] PROVE w[i] = (copy \o s)[i]
      <4>1. CASE i <= c
        <5>1. i \in 1 .. c /\ 0 + i = i
          BY <4>1
        <5> QED
          BY <1>6, <1>11, <2>2, <3>1, <3>2, <4>1, <5>1
      <4>2. CASE i > c
        <5>1. i - c \in 1 .. len[l] - c /\ c + (i - c) = i /\ ~(i <= c)
          BY <1>5, <4>2
        <5> QED
          BY <2>1, <2>2, <3>1, <3>2, <5>1
      <4>3. i \in Int /\ c \in Int
        BY <1>5
      <4>4. i <= c \/ i > c
        BY <4>3
      <4> QED
        BY <4>1, <4>2, <4>4
    <3> QED
      BY <1>5, <2>2, <3>1, <3>2, <3>3, SeqEqual
  <2>3. CASE ~front
    <3>1. /\ s \o copy \in Seq(Elems) /\ Len(s \o copy) = (len[l] - c) + c
          /\ \A i \in 1 .. (len[l] - c) + c :
                (s \o copy)[i] = IF i <= len[l] - c THEN s[i] ELSE copy[i - (len[l] - c)]
      <4>1. /\ s \o copy \in Seq(Elems) /\ Len(s \o copy) = Len(s) + Len(copy)
            /\ \A i \in 1 .. Len(s) + Len(copy) :
                  (s \o copy)[i] = IF i <= Len(s) THEN s[i] ELSE copy[i - Len(s)]
        BY <1>10, <2>1, ConcatProperties
      <4>2. Len(copy) = c /\ Len(s) = len[l] - c
        BY <1>10, <2>1
      <4> QED
        BY <4>1, <4>2
    <3>2. Len(w) = Len(s \o copy) /\ (len[l] - c) + c = len[l]
      BY <1>5, <3>1
    <3>3. ASSUME NEW i \in 1 .. len[l] PROVE w[i] = (s \o copy)[i]
      <4>1. CASE i <= len[l] - c
        <5>1. i \in 1 .. len[l] - c /\ 0 + i = i
          BY <1>5, <4>1
        <5> QED
          BY <2>1, <2>3, <3>1, <3>2, <4>1, <5>1
      <4>2. CASE i > len[l] - c
        <5>1. /\ i - (len[l] - c) \in 1 .. c /\ ~(i <= len[l] - c)
              /\ (len[l] - c) + (i - (len[l] - c)) = i
          BY <1>5, <4>2
        <5> QED
          BY <1>6, <1>11, <2>3, <3>1, <3>2, <5>1
      <4>3. i \in Int /\ len[l] - c \in Int
        BY <1>5
      <4>4. i <= len[l] - c \/ i > len[l] - c
        BY <4>3
      <4> QED
        BY <4>1, <4>2, <4>4
    <3> QED
      BY <1>5, <2>3, <3>1, <3>2, <3>3, SeqEqual
  <2> QED
    BY <2>2, <2>3
<1>19. ContentsSeen' = [ContentsSeen EXCEPT ![l] = w]
  <2>1. /\ ContentsSeen = [m \in Lists |-> ContentsSeen[m]]
        /\ ContentsSeen' = [m \in Lists |-> ContentsSeen'[m]]
    BY DEF ContentsSeen
  <2>2. ContentsSeen'[l] = w
    BY <1>16 DEF w
  <2>3. \A m \in Lists \ {l} : ContentsSeen'[m] = ContentsSeen[m]
    BY <1>16, <1>17
  <2> QED
    BY <2>1, <2>2, <2>3
<1>20. ValueSeen' = [e \in Elems |-> IF e \in Promise!ToSet(copy)
                                    THEN ValueSeen[o[Promise!Pos(copy, e)]]
                                    ELSE ValueSeen[e]]
  <2>1. ValueSeen' = value /\ value = [e \in Elems |-> value[e]]
    BY <1>1, <1>15 DEF SeenAll, LinkInv, LinkTypes
  <2>2. ASSUME NEW e \in Elems, e \in copying.made
        PROVE  value[e] = ValueSeen[o[Promise!Pos(copy, e)]]
    <3>1. PICK j \in 1 .. c : e = copy[j]
      BY <1>8, <1>11, <2>2
    <3>2. Promise!Pos(copy, e) = j
      BY <1>10, <1>12, <3>1, PosIs
    <3>3. o[j] \in Elems /\ o[j] \notin copying.made
      BY <1>9, <3>1 DEF Made
    <3>4. ValueSeen[o[j]] = value[o[j]]
      BY <3>3 DEF ValueSeen
    <3> QED
      BY <1>8, <1>11, <3>1, <3>2, <3>4
  <2>3. ASSUME NEW e \in Elems, e \notin copying.made
        PROVE  value[e] = ValueSeen[e]
    BY <2>3 DEF ValueSeen
  <2> QED
    BY <1>13, <2>1, <2>2, <2>3
<1>21. call' = [op |-> copying.op, list |-> l, elem |-> Nil, mark |-> other]
  BY <1>a, <1>b DEF PushListEnds
<1> HIDE DEF s
<1>22. Promise!Copies(l, other, copy)
  <2>1. CASE front
    BY <1>18, <1>19, <1>20, <1>21, <2>1 DEF Promise!Copies, Promise!Called, Promise!Becomes, s, o
  <2>2. CASE ~front
    BY <1>2, <1>18, <1>19, <1>20, <1>21, <2>2 DEF Promise!Copies, Promise!Called, Promise!Becomes, s, o
  <2> QED
    BY <2>1, <2>2
<1>23. Promise!PushList(l, other)
  BY <1>2, <1>12, <1>14, <1>21, <1>22 DEF Promise!PushList, Promise!Called, o
<1>24. CopiesKnown'
  BY <1>1, IdleIsKnown, PTL
<1> QED
  BY <1>23, <1>24

\* A call that is no loop is one step.
LEMMA CallSeen ==
    ASSUME LinkInv, LinkInv', Idle, NEW l \in Lists, UNCHANGED copying,
           \/ InitList(l)
           \/ \E v \in Values : \/ PushFront(l, v) \/ PushBack(l, v)
                                \/ \E mark \in Usable : \/ InsertBefore(l, v, mark)
                                                        \/ InsertAfter(l, v, mark)
           \/ \E e \in Usable : \/ Remove(l, e) \/ MoveToFront(l, e) \/ MoveToBack(l, e)
                                \/ \E mark \in Usable : \/ MoveBefore(l, e, mark)
                                                        \/ MoveAfter(l, e, mark)
    PROVE  Promise!Next /\ CopiesKnown'
<1>1. Idle'
  BY DEF Idle
<1>2. CopiesKnown'
  BY <1>1, IdleIsKnown, PTL
<1>3. \A e \in Usable : e \in Elems /\ e \in Promise!Made
  BY UsableIs, SeenInList
<1>4. CASE InitList(l)
  <2>1. Promise!Clear(l)
    BY <1>1, <1>4, ClearSeen
  <2>2. Promise!Next
    BY <2>1 DEF Promise!Next
  <2> QED
    BY <1>2, <2>2
<1>5. ASSUME NEW v \in Values, PushFront(l, v) \/ PushBack(l, v)
      PROVE  Promise!Next
  BY <1>1, <1>5, PushSeen DEF Promise!Next
<1>6. ASSUME NEW v \in Values, NEW mark \in Usable, InsertBefore(l, v, mark) \/ InsertAfter(l, v, mark)
      PROVE  Promise!Next
  <2>1. \/ Promise!InsertNothing(l, mark)
        \/ New \in Elems \ Promise!Made /\ Promise!Insert(l, New, v, mark)
    BY <1>1, <1>6, InsertBySeen
  <2> QED
    BY <1>3, <2>1 DEF Promise!Next
<1>7. ASSUME NEW e \in Usable, Remove(l, e)
      PROVE  Promise!Next
  BY <1>1, <1>3, <1>7, TakeOutSeen DEF Promise!Next
<1>8. ASSUME NEW e \in Usable, MoveToFront(l, e) \/ MoveToBack(l, e)
      PROVE  Promise!Next
  BY <1>1, <1>3, <1>8, MoveToSeen DEF Promise!Next
<1>9. ASSUME NEW e \in Usable, NEW mark \in Usable, MoveBefore(l, e, mark) \/ MoveAfter(l, e, mark)
      PROVE  Promise!Next
  BY <1>1, <1>3, <1>9, MoveNextToSeen DEF Promise!Next
<1> QED
  BY <1>2, <1>4, <1>5, <1>6, <1>7, <1>8, <1>9

SeenInv == IInv /\ CopiesKnown

LEMMA StepSeen ==
    ASSUME SeenInv, [Next]_vars
    PROVE  [Promise!Next]_(Promise!vars) /\ SeenInv'
<1>1. IInv' /\ LinkInv /\ LinkInv' /\ CopyInv
  BY NextInv, InvParts, PTL DEF SeenInv
<1>2. CASE copying.to = Nil /\ Operation
  <2>1. Idle
    BY <1>2 DEF SeenInv, CopiesKnown
  <2>2. PICK l \in Lists :
           \/ InitList(l)
           \/ \E v \in Values : \/ PushFront(l, v) \/ PushBack(l, v)
                                \/ \E mark \in Usable : \/ InsertBefore(l, v, mark)
                                                        \/ InsertAfter(l, v, mark)
           \/ \E e \in Usable : \/ Remove(l, e) \/ MoveToFront(l, e) \/ MoveToBack(l, e)
                                \/ \E mark \in Usable : \/ MoveBefore(l, e, mark)
                                                        \/ MoveAfter(l, e, mark)
           \/ \E other \in Lists : PushListBegins(l, other)
    BY <1>2 DEF Operation
  <2>3. ASSUME NEW other \in Lists, PushListBegins(l, other)
        PROVE  UNCHANGED Promise!vars /\ CopiesKnown'
    BY <1>1, <2>1, <2>3, ListBeginsSeen DEF Promise!vars
  <2>4. ASSUME ~ \E other \in Lists : PushListBegins(l, other)
        PROVE  Promise!Next /\ CopiesKnown'
    <3>1. \/ InitList(l)
          \/ \E v \in Values : \/ PushFront(l, v) \/ PushBack(l, v)
                               \/ \E mark \in Usable : \/ InsertBefore(l, v, mark)
                                                       \/ InsertAfter(l, v, mark)
          \/ \E e \in Usable : \/ Remove(l, e) \/ MoveToFront(l, e) \/ MoveToBack(l, e)
                               \/ \E mark \in Usable : \/ MoveBefore(l, e, mark)
                                                       \/ MoveAfter(l, e, mark)
      BY <2>2, <2>4
    <3>2. UNCHANGED copying
      BY <3>1 DEF InitList, PushFront, PushBack, InsertBefore, InsertAfter, Remove,
                  MoveToFront, MoveToBack, MoveBefore, MoveAfter, Done
    <3> QED
      BY <1>1, <2>1, <3>1, <3>2, CallSeen
  <2> QED
    BY <1>1, <2>3, <2>4 DEF SeenInv
<1>3. CASE CopyOne
  <2>1. UNCHANGED <<ContentsSeen, ValueSeen, call>> /\ CopiesKnown'
    BY <1>1, <1>3, CopyOneSeen DEF SeenInv
  <2> QED
    BY <1>1, <2>1 DEF SeenInv, Promise!vars
<1>4. CASE PushListEnds
  <2>1. (\E l, other \in Lists : Promise!PushList(l, other)) /\ CopiesKnown'
    BY <1>1, <1>4, ListEndsSeen DEF SeenInv
  <2> QED
    BY <1>1, <2>1 DEF SeenInv, Promise!Next
<1>5. CASE UNCHANGED vars
  <2>1. UNCHANGED <<ContentsSeen, ValueSeen, call>>
    BY <1>5 DEF vars, links, ContentsSeen, Walk, ValueSeen
  <2>2. CopiesKnown'
    <3>1. /\ next' = next /\ len' = len /\ value' = value /\ copying' = copying
          /\ ContentsSeen' = ContentsSeen
      BY <1>5, <2>1 DEF vars, links
    <3>2. Copied' = Copied /\ Before1' = Before1 /\ Skipped' = Skipped /\ Turn' = Turn
      BY <3>1 DEF Copied, Before1, Skipped, Turn
    <3>3. \A m \in Lists : Walk(m)' = Walk(m)
      BY <3>1 DEF Walk
    <3>4. \A l, other \in Lists : CopiesAre(l, other) => CopiesAre(l, other)'
      BY <3>1, <3>2, <3>3 DEF CopiesAre
    <3>5. (Idle => Idle') /\ (CopiesFit => CopiesFit')
      BY <3>1, <3>2 DEF Idle, CopiesFit
    <3> QED
      BY <3>1, <3>4, <3>5 DEF SeenInv, CopiesKnown
  <2> QED
    BY <1>1, <2>1, <2>2 DEF SeenInv, Promise!vars
<1> QED
  BY <1>2, <1>3, <1>4, <1>5 DEF Next

LEMMA InitSeen == Init => Promise!Init /\ SeenInv
<1> SUFFICES ASSUME Init PROVE Promise!Init /\ SeenInv
  OBVIOUS
<1>1. IInv /\ LinkInv
  BY InitInv, InvParts
<1>2. Idle /\ CopiesKnown
  BY IdleIsKnown DEF Init, Idle
<1>3. ContentsSeen = Walks /\ ValueSeen = value
  BY <1>1, <1>2, SeenWhenIdle DEF SeenAll
<1>4. \A l \in Lists : Walk(l) = <<>>
  BY <1>1, WalkOf DEF Init, Nodes
<1> QED
  BY <1>1, <1>2, <1>3, <1>4 DEF Init, Promise!Init, SeenInv, Walks

\* Whatever is called, and with whichever elements, the sequences that the
\* users of the lists see change as the comments of the calls say.
THEOREM ListContentsImplemented == Spec => ImplementsListContents
<1>1. SeenInv /\ [Next]_vars => [Promise!Next]_(Promise!vars) /\ SeenInv'
  BY StepSeen
<1> QED
  BY InitSeen, <1>1, PTL DEF Spec, ImplementsListContents, Promise!Spec
=============================================================================
