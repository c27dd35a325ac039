--------------------------- MODULE CSRGraph_proofs ---------------------------
(***************************************************************************)
(* What finalize() builds, for any number of vertices and any staged       *)
(* edges, and the invariants of CSRGraph for any calls.                    *)
(*                                                                         *)
(* A place of a sort is a count: the elements that come before or are the  *)
(* one itself.  Of an order of m elements the places are 1 .. m, each once *)
(* (PlacesAreAll).  That serves twice, for the pass that scatters the      *)
(* edges by their source and for the sort of a row.  So a scattered row    *)
(* has the cells of the edges from its vertex, a sorted row ascends, a row *)
(* without repetitions has the lightest cell of each id, and the built     *)
(* rows, put one behind the other, hold LeastEdges of what was staged      *)
(* (BuiltArraysServe).                                                     *)
(*                                                                         *)
(* The inductive invariant IInv adds what the calls keep: idMap and        *)
(* reverseIdMap are inverse, staged edges join registered vertices, and    *)
(* arrays that are served were built for as many vertices as there are; an *)
(* undirected graph has both directions of each edge.                      *)
(***************************************************************************)
EXTENDS CSRGraph, SequenceTheorems, FiniteSetTheorems, FunctionTheorems,
        WellFoundedInduction, TLAPS

-----------------------------------------------------------------------------
(* Induction over the numbers, and functions defined by recursion.         *)

\* A set of numbers has a least one.
LEMMA LeastNatural ==
  ASSUME NEW T \in SUBSET Nat, NEW x \in T
  PROVE  \E m \in T : \A n \in T : m <= n
<1> DEFINE Less == {p \in Nat \X Nat : p[1] < p[2]}
<1>1. IsWellFoundedOn(Less, Nat)
  BY NatLessThanWellFounded DEF OpToRel
<1> HIDE DEF Less
<1>2. PICK m \in T : \A n \in T : <<n, m>> \notin Less
  BY <1>1, WFMin
<1>3. \A n \in T : ~(n < m)
  BY <1>2 DEF Less
<1> QED BY <1>2, <1>3

\* A set with 0 and the successor of every number in it has all numbers.
LEMMA SetInduction ==
  ASSUME NEW S, 0 \in S, \A n \in Nat : n \in S => n + 1 \in S
  PROVE  Nat \subseteq S
<1> SUFFICES ASSUME NEW x \in Nat, x \notin S PROVE FALSE
  OBVIOUS
<1> DEFINE T == {n \in Nat : n \notin S}
<1>1. PICK m \in T : \A n \in T : m <= n
  BY LeastNatural
<1>2. m # 0
  BY <1>1
<1>3. m - 1 \in Nat /\ m - 1 \notin T
  BY <1>1, <1>2
<1>4. m - 1 \in S
  BY <1>3
<1> QED BY <1>1, <1>3, <1>4

\* The same within 0 .. N.
LEMMA BoundedInduction ==
  ASSUME NEW N \in Nat, NEW S, 0 \in S,
         \A n \in 1 .. N : n - 1 \in S => n \in S
  PROVE  0 .. N \subseteq S
<1> DEFINE T == {n \in Nat : n \in 0 .. N => n \in S}
<1>1. 0 \in T
  OBVIOUS
<1>2. \A n \in Nat : n \in T => n + 1 \in T
  <2> SUFFICES ASSUME NEW n \in Nat, n \in T, n + 1 \in 0 .. N
               PROVE  n + 1 \in S
    OBVIOUS
  <2>1. n \in S /\ n + 1 \in 1 .. N /\ (n + 1) - 1 = n
    OBVIOUS
  <2> QED BY <2>1
<1>3. Nat \subseteq T
  <2> HIDE DEF T
  <2> QED BY <1>1, <1>2, SetInduction
<1> QED BY <1>3

\* g starts at a and goes on by the steps, up to N.
Iterates(g, N, a, step) ==
  \A k \in 0 .. N : g[k] = IF k = 0 THEN a ELSE step[k][g[k - 1]]

\* There is such a function: what a recursive definition chooses.
LEMMA RecursiveFunction ==
  ASSUME NEW N \in Nat, NEW V, NEW a \in V, NEW step \in [1 .. N -> [V -> V]]
  PROVE  \E g \in [0 .. N -> V] : Iterates(g, N, a, step)
<1> DEFINE Reached(n, g) == Iterates(g, n, a, step)
           S == {n \in 0 .. N : \E g \in [0 .. n -> V] : Reached(n, g)}
<1>1. 0 \in S
  <2>1. [k \in 0 .. 0 |-> a] \in [0 .. 0 -> V] /\ Reached(0, [k \in 0 .. 0 |-> a])
    BY DEF Iterates
  <2> QED BY <2>1
<1>2. ASSUME NEW n \in 1 .. N, n - 1 \in S PROVE n \in S
  <2>1. PICK g \in [0 .. n - 1 -> V] : Reached(n - 1, g)
    BY <1>2
  <2> DEFINE h == [k \in 0 .. n |-> IF k = n THEN step[n][g[n - 1]] ELSE g[k]]
  <2>2. \A k \in 0 .. n : k = n \/ k \in 0 .. n - 1
    OBVIOUS
  <2>3. step[n][g[n - 1]] \in V
    <3>1. n - 1 \in 0 .. n - 1
      OBVIOUS
    <3>2. g[n - 1] \in V /\ step[n] \in [V -> V]
      BY <2>1, <3>1
    <3> QED BY <3>2
  <2>4. h \in [0 .. n -> V]
    BY <2>1, <2>2, <2>3
  <2>5. ASSUME NEW k \in 0 .. n
        PROVE  h[k] = IF k = 0 THEN a ELSE step[k][h[k - 1]]
    <3>1. CASE k = n
      BY <3>1
    <3>2. CASE k \in 0 .. n - 1
      <4>1. h[k] = g[k] /\ (k # 0 => k - 1 \in 0 .. n - 1 /\ h[k - 1] = g[k - 1])
        BY <3>2
      <4> QED BY <2>1, <3>2, <4>1 DEF Iterates
    <3> QED BY <2>2, <3>1, <3>2
  <2> HIDE DEF h
  <2>6. \E f \in [0 .. n -> V] : Reached(n, f)
    <3>1. Reached(n, h)
      BY <2>5 DEF Iterates
    <3> HIDE DEF Reached
    <3> QED BY <2>4, <3>1
  <2> QED BY <2>6
<1>3. 0 .. N \subseteq S
  <2> HIDE DEF S
  <2> QED BY <1>1, <1>2, BoundedInduction
<1>4. N \in 0 .. N
  OBVIOUS
<1> QED BY <1>3, <1>4

-----------------------------------------------------------------------------
(* Orders and places.                                                      *)

\* P orders 1 .. m: <<j, k>> is in P if j is k or comes before it.
Orders(P, m) ==
  /\ P \subseteq (1 .. m) \X (1 .. m)
  /\ \A k \in 1 .. m : <<k, k>> \in P
  /\ \A j, k \in 1 .. m : <<j, k>> \in P \/ <<k, j>> \in P
  /\ \A j, k \in 1 .. m : <<j, k>> \in P /\ <<k, j>> \in P => j = k
  /\ \A j, k, l \in 1 .. m : <<j, k>> \in P /\ <<k, l>> \in P => <<j, l>> \in P

Upto(P, m, k) == {j \in 1 .. m : <<j, k>> \in P}
Place(P, m, k) == Cardinality(Upto(P, m, k))

\* Every element has a place in 1 .. m, later ones a greater one.
LEMMA PlaceProperties ==
  ASSUME NEW m \in Nat, NEW P, Orders(P, m), NEW k \in 1 .. m
  PROVE  /\ Place(P, m, k) \in 1 .. m
         /\ \A j \in 1 .. m : j # k /\ <<j, k>> \in P => Place(P, m, j) < Place(P, m, k)
<1>1. IsFiniteSet(1 .. m) /\ Cardinality(1 .. m) = m
  BY FS_Interval
<1>2. \A j \in 1 .. m : /\ IsFiniteSet(Upto(P, m, j))
                        /\ Place(P, m, j) \in Nat /\ Place(P, m, j) <= m
  <2> SUFFICES ASSUME NEW j \in 1 .. m
               PROVE  /\ IsFiniteSet(Upto(P, m, j))
                      /\ Place(P, m, j) \in Nat /\ Place(P, m, j) <= m
    OBVIOUS
  <2>1. Upto(P, m, j) \in SUBSET (1 .. m)
    BY DEF Upto
  <2>2. IsFiniteSet(Upto(P, m, j)) /\ Cardinality(Upto(P, m, j)) <= Cardinality(1 .. m)
    BY <1>1, <2>1, FS_Subset
  <2> QED BY <1>1, <2>2, FS_CardinalityType DEF Place
<1>3. Place(P, m, k) # 0
  <2>1. k \in Upto(P, m, k)
    BY DEF Orders, Upto
  <2> QED BY <1>2, <2>1, FS_EmptySet DEF Place
<1>4. ASSUME NEW j \in 1 .. m, j # k, <<j, k>> \in P
      PROVE  Place(P, m, j) < Place(P, m, k)
  <2>1. Upto(P, m, j) \subseteq Upto(P, m, k)
    BY <1>4 DEF Orders, Upto
  <2>2. k \in Upto(P, m, k) /\ k \notin Upto(P, m, j)
    BY <1>4 DEF Orders, Upto
  <2>3. Upto(P, m, j) # Upto(P, m, k)
    BY <2>2
  <2>4. /\ Cardinality(Upto(P, m, j)) <= Cardinality(Upto(P, m, k))
        /\ Cardinality(Upto(P, m, j)) # Cardinality(Upto(P, m, k))
    BY <1>2, <2>1, <2>3, FS_Subset
  <2> QED BY <1>2, <2>4 DEF Place
<1> QED BY <1>2, <1>3, <1>4

\* No two elements have the same place, and every place is taken.
LEMMA PlacesAreAll ==
  ASSUME NEW m \in Nat, NEW P, Orders(P, m)
  PROVE  /\ \A j, k \in 1 .. m : Place(P, m, j) = Place(P, m, k) => j = k
         /\ \A p \in 1 .. m : \E k \in 1 .. m : Place(P, m, k) = p
         /\ \A j, k \in 1 .. m : Place(P, m, j) <= Place(P, m, k) => <<j, k>> \in P
<1>1. \A j \in 1 .. m : Place(P, m, j) \in 1 .. m
  BY PlaceProperties
<1>2. ASSUME NEW j \in 1 .. m, NEW k \in 1 .. m, j # k, <<j, k>> \in P
      PROVE  Place(P, m, j) < Place(P, m, k)
  BY <1>2, PlaceProperties
<1>3. \A j, k \in 1 .. m : <<j, k>> \in P \/ <<k, j>> \in P
  BY DEF Orders
<1>4. ASSUME NEW j \in 1 .. m, NEW k \in 1 .. m, Place(P, m, j) = Place(P, m, k)
      PROVE  j = k
  <2>1. ~(Place(P, m, j) < Place(P, m, k)) /\ ~(Place(P, m, k) < Place(P, m, j))
    BY <1>1, <1>4
  <2> QED BY <1>2, <1>3, <2>1
<1>5. ASSUME NEW j \in 1 .. m, NEW k \in 1 .. m, Place(P, m, j) <= Place(P, m, k)
      PROVE  <<j, k>> \in P
  <2>1. ~(Place(P, m, k) < Place(P, m, j))
    BY <1>1, <1>5
  <2>2. CASE j = k
    BY <1>3, <2>2
  <2>3. CASE j # k
    BY <1>2, <1>3, <2>1, <2>3
  <2> QED BY <2>2, <2>3
<1> DEFINE f == [k \in 1 .. m |-> Place(P, m, k)]
<1>6. IsFiniteSet(1 .. m)
  BY FS_Interval
<1>7. f \in Injection(1 .. m, 1 .. m)
  BY <1>1, <1>4 DEF Injection, IsInjective
<1>8. f \in Surjection(1 .. m, 1 .. m)
  <2> HIDE DEF f
  <2> QED BY <1>6, <1>7, FS_Injection
<1>9. \A p \in 1 .. m : \E k \in 1 .. m : f[k] = p
  <2> HIDE DEF f
  <2> QED BY <1>8 DEF Surjection
<1> QED BY <1>4, <1>5, <1>9

-----------------------------------------------------------------------------
(* The pass that scatters the edges.                                       *)

Cell == [dst : Nat, weight : Nat]
StagedEdge(n) == [src : 1 .. n, dst : 1 .. n, weight : Nat]
CellOf(e) == [dst |-> e.dst, weight |-> e.weight]

FromUpto(edges, i) == {k \in DOMAIN edges : edges[k].src <= i}
From(edges, i) == {k \in DOMAIN edges : edges[k].src = i}

\* The offset of vertex i counts the edges of the vertices up to i.
LEMMA OffsetsCount ==
  ASSUME NEW n \in Nat, NEW edges \in Seq(StagedEdge(n))
  PROVE  /\ DOMAIN CountOffsets(n, edges) = 0 .. n
         /\ \A i \in 0 .. n : CountOffsets(n, edges)[i] = Cardinality(FromUpto(edges, i))
<1> DEFINE m == Len(edges)
           o == CountOffsets(n, edges)
           g == [i \in 0 .. n |-> Cardinality(FromUpto(edges, i))]
           Turn(f) == [i \in 0 .. n |->
                         IF i = 0 THEN 0 ELSE f[i - 1] + Cardinality(From(edges, i))]
<1>1. /\ m \in Nat /\ DOMAIN edges = 1 .. m
      /\ \A k \in 1 .. m : edges[k].src \in 1 .. n
  <2>1. m \in Nat /\ DOMAIN edges = 1 .. m
    BY LenProperties
  <2>2. \A k \in 1 .. m : edges[k] \in StagedEdge(n)
    BY ElementOfSeq
  <2> HIDE DEF m
  <2>3. \A k \in 1 .. m : edges[k].src \in 1 .. n
    BY <2>2 DEF StagedEdge
  <2> QED BY <2>1, <2>3
<1> HIDE DEF m
<1>2. IsFiniteSet(1 .. m)
  BY <1>1, FS_Interval
<1>3. \A i \in 0 .. n : /\ IsFiniteSet(FromUpto(edges, i)) /\ IsFiniteSet(From(edges, i))
                        /\ Cardinality(FromUpto(edges, i)) \in Nat
                        /\ Cardinality(From(edges, i)) \in Nat
  <2> SUFFICES ASSUME NEW i \in 0 .. n
               PROVE  /\ IsFiniteSet(FromUpto(edges, i)) /\ IsFiniteSet(From(edges, i))
                      /\ Cardinality(FromUpto(edges, i)) \in Nat
                      /\ Cardinality(From(edges, i)) \in Nat
    OBVIOUS
  <2>1. FromUpto(edges, i) \in SUBSET (1 .. m) /\ From(edges, i) \in SUBSET (1 .. m)
    BY <1>1 DEF FromUpto, From
  <2>2. IsFiniteSet(FromUpto(edges, i)) /\ IsFiniteSet(From(edges, i))
    BY <1>2, <2>1, FS_Subset
  <2> QED BY <2>2, FS_CardinalityType
<1>4. Cardinality(FromUpto(edges, 0)) = 0
  <2>1. FromUpto(edges, 0) = {}
    BY <1>1 DEF FromUpto
  <2> QED BY <2>1, FS_EmptySet
<1>5. ASSUME NEW i \in 1 .. n
      PROVE  Cardinality(FromUpto(edges, i))
               = Cardinality(FromUpto(edges, i - 1)) + Cardinality(From(edges, i))
  <2>1. i \in 0 .. n /\ i - 1 \in 0 .. n
    OBVIOUS
  <2>2. /\ FromUpto(edges, i) = FromUpto(edges, i - 1) \cup From(edges, i)
        /\ FromUpto(edges, i - 1) \cap From(edges, i) = {}
    BY <1>1 DEF FromUpto, From
  <2>3. Cardinality(FromUpto(edges, i - 1) \cap From(edges, i)) = 0
    BY <2>2, FS_EmptySet
  <2>4. Cardinality(FromUpto(edges, i - 1) \cup From(edges, i))
          = Cardinality(FromUpto(edges, i - 1)) + Cardinality(From(edges, i))
              - Cardinality(FromUpto(edges, i - 1) \cap From(edges, i))
    BY <1>3, <2>1, FS_Union
  <2> QED BY <1>3, <2>1, <2>2, <2>3, <2>4
<1>6. g = Turn(g)
  <2>1. ASSUME NEW i \in 0 .. n
        PROVE  g[i] = IF i = 0 THEN 0 ELSE g[i - 1] + Cardinality(From(edges, i))
    <3>1. CASE i = 0
      BY <1>4, <3>1
    <3>2. CASE i # 0
      <4>1. i \in 1 .. n /\ i - 1 \in 0 .. n
        BY <3>2
      <4> QED BY <1>5, <3>2, <4>1
    <3> QED BY <3>1, <3>2
  <2> QED BY <2>1
<1>7. o = CHOOSE f : f = Turn(f)
  BY DEF CountOffsets, From
<1>8. o = Turn(o)
  <2> HIDE DEF Turn, g
  <2> QED BY <1>6, <1>7
<1> HIDE DEF o
<1>9. DOMAIN o = 0 .. n /\ o[0] = 0
      /\ \A i \in 1 .. n : o[i] = o[i - 1] + Cardinality(From(edges, i))
  BY <1>8
<1> DEFINE S == {i \in 0 .. n : o[i] = Cardinality(FromUpto(edges, i))}
<1>10. 0 \in S /\ \A i \in 1 .. n : i - 1 \in S => i \in S
  BY <1>4, <1>5, <1>9
<1>11. 0 .. n \subseteq S
  <2> HIDE DEF S
  <2> QED BY <1>10, BoundedInduction
<1> QED BY <1>9, <1>11 DEF o

-----------------------------------------------------------------------------
(* Where an edge is written.                                               *)

LEMMA StagedEdges ==
  ASSUME NEW n \in Nat, NEW edges \in Seq(StagedEdge(n))
  PROVE  /\ Len(edges) \in Nat /\ DOMAIN edges = 1 .. Len(edges)
         /\ \A k \in 1 .. Len(edges) : /\ edges[k].src \in 1 .. n
                                       /\ edges[k].dst \in 1 .. n
                                       /\ edges[k].weight \in Nat
<1>1. Len(edges) \in Nat /\ DOMAIN edges = 1 .. Len(edges)
  BY LenProperties
<1>2. \A k \in 1 .. Len(edges) : edges[k] \in StagedEdge(n)
  BY ElementOfSeq
<1> QED BY <1>1, <1>2 DEF StagedEdge

\* The offsets start at 0, never fall and end at the number of edges.
LEMMA OffsetsGrow ==
  ASSUME NEW n \in Nat, NEW edges \in Seq(StagedEdge(n))
  PROVE  LET o == CountOffsets(n, edges)
         IN  /\ o[0] = 0 /\ o[n] = Len(edges)
             /\ \A i \in 0 .. n : o[i] \in Nat
             /\ \A i, j \in 0 .. n : i <= j => o[i] <= o[j]
<1> DEFINE m == Len(edges)
           o == CountOffsets(n, edges)
<1>1. /\ m \in Nat /\ DOMAIN edges = 1 .. m
      /\ \A k \in 1 .. m : edges[k].src \in 1 .. n
  BY StagedEdges
<1>2. \A i \in 0 .. n : o[i] = Cardinality(FromUpto(edges, i))
  BY OffsetsCount
<1> HIDE DEF o, m
<1>3. IsFiniteSet(1 .. m) /\ Cardinality(1 .. m) = m
  BY <1>1, FS_Interval
<1>4. \A i \in 0 .. n : IsFiniteSet(FromUpto(edges, i)) /\ o[i] \in Nat
  <2> SUFFICES ASSUME NEW i \in 0 .. n
               PROVE  IsFiniteSet(FromUpto(edges, i)) /\ o[i] \in Nat
    OBVIOUS
  <2>1. FromUpto(edges, i) \in SUBSET (1 .. m)
    BY <1>1 DEF FromUpto
  <2>2. IsFiniteSet(FromUpto(edges, i))
    BY <1>3, <2>1, FS_Subset
  <2> QED BY <1>2, <2>2, FS_CardinalityType
<1>5. ASSUME NEW i \in 0 .. n, NEW j \in 0 .. n, i <= j
      PROVE  o[i] <= o[j]
  <2>1. FromUpto(edges, i) \in SUBSET FromUpto(edges, j)
    BY <1>1, <1>5 DEF FromUpto
  <2>2. Cardinality(FromUpto(edges, i)) <= Cardinality(FromUpto(edges, j))
    BY <1>4, <2>1, FS_Subset
  <2> QED BY <1>2, <2>2
<1>6. FromUpto(edges, 0) = {} /\ FromUpto(edges, n) = 1 .. m
  BY <1>1 DEF FromUpto
<1>7. o[0] = 0 /\ o[n] = m
  <2>1. 0 \in 0 .. n /\ n \in 0 .. n
    OBVIOUS
  <2> QED BY <1>2, <1>3, <1>6, <2>1, FS_EmptySet
<1> QED BY <1>4, <1>5, <1>7 DEF o, m

\* The order in which the edges are written: by source, then by position.
SrcOrder(edges) ==
  {p \in (DOMAIN edges) \X (DOMAIN edges) :
     \/ edges[p[1]].src < edges[p[2]].src
     \/ (edges[p[1]].src = edges[p[2]].src /\ p[1] <= p[2])}

LEMMA SrcOrderAt ==
  ASSUME NEW edges, NEW j \in DOMAIN edges, NEW k \in DOMAIN edges
  PROVE  <<j, k>> \in SrcOrder(edges) <=> \/ edges[j].src < edges[k].src
                                          \/ (edges[j].src = edges[k].src /\ j <= k)
<1>1. <<j, k>> \in (DOMAIN edges) \X (DOMAIN edges)
  OBVIOUS
<1> QED BY <1>1 DEF SrcOrder

LEMMA SrcOrders ==
  ASSUME NEW n \in Nat, NEW edges \in Seq(StagedEdge(n))
  PROVE  Orders(SrcOrder(edges), Len(edges))
<1> DEFINE m == Len(edges)
           src == [k \in 1 .. m |-> edges[k].src]
<1>1. /\ m \in Nat /\ DOMAIN edges = 1 .. m
      /\ \A k \in 1 .. m : edges[k].src \in 1 .. n
  BY StagedEdges
<1> HIDE DEF m
<1>2. \A k \in 1 .. m : src[k] \in Nat
  BY <1>1
<1>3. \A j, k \in 1 .. m :
        <<j, k>> \in SrcOrder(edges) <=> \/ src[j] < src[k]
                                         \/ (src[j] = src[k] /\ j <= k)
  <2> SUFFICES ASSUME NEW j \in 1 .. m, NEW k \in 1 .. m
               PROVE  <<j, k>> \in SrcOrder(edges) <=> \/ src[j] < src[k]
                                                       \/ (src[j] = src[k] /\ j <= k)
    OBVIOUS
  <2>1. src[j] = edges[j].src /\ src[k] = edges[k].src
    OBVIOUS
  <2>2. j \in DOMAIN edges /\ k \in DOMAIN edges
    BY <1>1
  <2> HIDE DEF src
  <2> QED BY <2>1, <2>2, SrcOrderAt
<1>4. SrcOrder(edges) \subseteq (1 .. m) \X (1 .. m)
  <2>1. SrcOrder(edges) \subseteq (DOMAIN edges) \X (DOMAIN edges)
    BY DEF SrcOrder
  <2> QED BY <1>1, <2>1
<1> HIDE DEF src
<1> DEFINE P == SrcOrder(edges)
<1> HIDE DEF P
<1>5. \A j, k \in 1 .. m : <<j, k>> \in P <=> \/ src[j] < src[k]
                                                \/ (src[j] = src[k] /\ j <= k)
  BY <1>3 DEF P
<1>6. \A j \in 1 .. m : j \in Nat
  BY <1>1
<1>7. \A k \in 1 .. m : <<k, k>> \in P
  BY <1>5, <1>6
<1>8. \A j, k \in 1 .. m : <<j, k>> \in P \/ <<k, j>> \in P
  <2> SUFFICES ASSUME NEW j \in 1 .. m, NEW k \in 1 .. m
               PROVE  <<j, k>> \in P \/ <<k, j>> \in P
    OBVIOUS
  <2>1. src[j] \in Nat /\ src[k] \in Nat
    BY <1>2
  <2> QED BY <1>5, <1>6, <2>1
<1>9. ASSUME NEW j \in 1 .. m, NEW k \in 1 .. m, <<j, k>> \in P, <<k, j>> \in P
      PROVE  j = k
  <2>1. src[j] \in Nat /\ src[k] \in Nat
    BY <1>2
  <2> QED BY <1>5, <1>6, <1>9, <2>1
<1>10. ASSUME NEW j \in 1 .. m, NEW k \in 1 .. m, NEW l \in 1 .. m,
              <<j, k>> \in P, <<k, l>> \in P
       PROVE  <<j, l>> \in P
  <2>1. src[j] \in Nat /\ src[k] \in Nat /\ src[l] \in Nat
    BY <1>2
  <2>2. /\ src[j] < src[k] \/ (src[j] = src[k] /\ j <= k)
        /\ src[k] < src[l] \/ (src[k] = src[l] /\ k <= l)
    BY <1>5, <1>10
  <2>3. src[j] < src[l] \/ (src[j] = src[l] /\ j <= l)
    BY <1>6, <2>1, <2>2
  <2> QED BY <1>5, <2>3
<1>11. P \subseteq (1 .. m) \X (1 .. m)
  BY <1>4 DEF P
<1>12. Orders(P, m)
  BY <1>7, <1>8, <1>9, <1>10, <1>11 DEF Orders
<1> QED BY <1>12 DEF P, m

\* The slot of an edge is its place in that order, and lies in the part of
\* columnIndices that belongs to its source.
LEMMA SlotIsPlace ==
  ASSUME NEW n \in Nat, NEW edges \in Seq(StagedEdge(n)), NEW k \in 1 .. Len(edges)
  PROVE  LET o == CountOffsets(n, edges)
             i == edges[k].src
         IN  /\ Slot(o, edges, k) = Place(SrcOrder(edges), Len(edges), k)
             /\ o[i - 1] < Slot(o, edges, k) /\ Slot(o, edges, k) <= o[i]
<1> DEFINE m == Len(edges)
           o == CountOffsets(n, edges)
           i == edges[k].src
           P == SrcOrder(edges)
           Earlier == {j \in 1 .. k : edges[j].src = edges[k].src}
<1>1. /\ m \in Nat /\ DOMAIN edges = 1 .. m
      /\ \A j \in 1 .. m : edges[j].src \in 1 .. n
  BY StagedEdges
<1>2. \A j \in 0 .. n : o[j] = Cardinality(FromUpto(edges, j))
  BY OffsetsCount
<1>3. Slot(o, edges, k) = o[i - 1] + Cardinality(Earlier)
  BY DEF Slot
<1> HIDE DEF o, m
<1>4. k \in 1 .. m /\ i \in 1 .. n /\ i - 1 \in 0 .. n /\ i \in 0 .. n
  BY <1>1 DEF m
<1>5. \A j \in 1 .. k : j \in 1 .. m
  BY <1>1, <1>4
<1>6. Earlier \in SUBSET (1 .. m) /\ k \in Earlier
  BY <1>4, <1>5
<1>7. /\ Upto(P, m, k) = FromUpto(edges, i - 1) \cup Earlier
      /\ FromUpto(edges, i - 1) \cap Earlier = {}
      /\ Upto(P, m, k) \in SUBSET FromUpto(edges, i)
  <2>1. \A j \in 1 .. m : j \in Upto(P, m, k) <=> \/ edges[j].src < i
                                                  \/ (edges[j].src = i /\ j <= k)
    BY <1>1, <1>4, SrcOrderAt DEF Upto
  <2>2. \A j \in 1 .. m : /\ j \in FromUpto(edges, i - 1) <=> edges[j].src < i
                          /\ j \in FromUpto(edges, i) <=> edges[j].src <= i
    BY <1>1, <1>4 DEF FromUpto
  <2>3. \A j \in 1 .. m : j \in Earlier <=> edges[j].src = i /\ j <= k
    BY <1>4
  <2>4. /\ Upto(P, m, k) \subseteq 1 .. m /\ FromUpto(edges, i - 1) \subseteq 1 .. m
        /\ Earlier \subseteq 1 .. m
    BY <1>1, <1>6 DEF Upto, FromUpto
  <2> HIDE DEF i, P, Earlier
  <2>5. \A j \in 1 .. m : edges[j].src \in Nat
    BY <1>1
  <2>6. Upto(P, m, k) = FromUpto(edges, i - 1) \cup Earlier
    BY <1>4, <2>1, <2>2, <2>3, <2>4
  <2>7. FromUpto(edges, i - 1) \cap Earlier = {}
    BY <1>4, <2>2, <2>3, <2>4, <2>5
  <2>8. Upto(P, m, k) \in SUBSET FromUpto(edges, i)
    BY <1>4, <2>1, <2>2, <2>4, <2>5
  <2> QED BY <2>6, <2>7, <2>8
<1>8. IsFiniteSet(1 .. m)
  BY <1>1, FS_Interval
<1>9. /\ IsFiniteSet(FromUpto(edges, i - 1)) /\ IsFiniteSet(FromUpto(edges, i))
      /\ IsFiniteSet(Earlier)
  <2>1. FromUpto(edges, i - 1) \in SUBSET (1 .. m) /\ FromUpto(edges, i) \in SUBSET (1 .. m)
    BY <1>1 DEF FromUpto
  <2> HIDE DEF i, Earlier
  <2> QED BY <1>6, <1>8, <2>1, FS_Subset
<1> HIDE DEF i, Earlier, P
<1>10. /\ Cardinality(FromUpto(edges, i - 1)) \in Nat /\ Cardinality(Earlier) \in Nat
       /\ Cardinality(Earlier) # 0 /\ Cardinality(FromUpto(edges, i)) \in Nat
  BY <1>6, <1>9, FS_CardinalityType, FS_EmptySet
<1>11. Cardinality(Upto(P, m, k)) = Cardinality(FromUpto(edges, i - 1)) + Cardinality(Earlier)
  <2>1. Cardinality(FromUpto(edges, i - 1) \cap Earlier) = 0
    BY <1>7, FS_EmptySet
  <2>2. Cardinality(FromUpto(edges, i - 1) \cup Earlier)
          = Cardinality(FromUpto(edges, i - 1)) + Cardinality(Earlier)
              - Cardinality(FromUpto(edges, i - 1) \cap Earlier)
    BY <1>9, FS_Union
  <2> QED BY <1>7, <1>10, <2>1, <2>2
<1>12. Cardinality(Upto(P, m, k)) <= Cardinality(FromUpto(edges, i))
  BY <1>7, <1>9, FS_Subset
<1>13. Slot(o, edges, k) = Place(P, m, k)
  BY <1>2, <1>3, <1>4, <1>11 DEF Place
<1>14. o[i - 1] < Slot(o, edges, k) /\ Slot(o, edges, k) <= o[i]
  BY <1>2, <1>3, <1>4, <1>10, <1>11, <1>12
<1> QED BY <1>13, <1>14 DEF o, i, P, m

\* The cells between two offsets.
LEMMA Slice ==
  ASSUME NEW S, NEW s, NEW lo \in Nat, NEW hi \in Nat, lo <= hi,
         \A idx \in lo + 1 .. hi : s[idx] \in S
  PROVE  LET row == SubSeq(s, lo + 1, hi)
         IN  /\ row \in Seq(S) /\ Len(row) = hi - lo
             /\ \A q \in 1 .. Len(row) : row[q] = s[lo + q]
<1> DEFINE row == SubSeq(s, lo + 1, hi)
<1>1. /\ row \in Seq(S)
      /\ Len(row) = IF lo + 1 <= hi THEN hi - (lo + 1) + 1 ELSE 0
      /\ \A q \in 1 .. (hi - (lo + 1)) + 1 : row[q] = s[(lo + 1) + q - 1]
  BY SubSeqProperties
<1> HIDE DEF row
<1>2. Len(row) = hi - lo
  <2>1. CASE lo = hi
    BY <1>1, <2>1
  <2>2. CASE lo # hi
    <3>1. lo + 1 <= hi /\ hi - (lo + 1) + 1 = hi - lo
      BY <2>2
    <3> QED BY <1>1, <3>1
  <2> QED BY <2>1, <2>2
<1>3. ASSUME NEW q \in 1 .. Len(row) PROVE row[q] = s[lo + q]
  <2>1. q \in 1 .. (hi - (lo + 1)) + 1 /\ (lo + 1) + q - 1 = lo + q
    BY <1>2
  <2> QED BY <1>1, <2>1
<1> QED BY <1>1, <1>2, <1>3 DEF row

\* The part of columnIndices that belongs to a source holds its edges.
LEMMA ScatteredRow ==
  ASSUME NEW n \in Nat, NEW edges \in Seq(StagedEdge(n)), NEW i \in 1 .. n
  PROVE  LET row == Row(ScatterEdges(n, edges), i)
         IN  /\ row \in Seq(Cell)
             /\ ToSet(row) = {CellOf(edges[k]) : k \in From(edges, i)}
<1> DEFINE m == Len(edges)
           o == CountOffsets(n, edges)
           P == SrcOrder(edges)
           at(idx) == CHOOSE k \in 1 .. m : Slot(o, edges, k) = idx
           cells == [idx \in 1 .. m |-> CellOf(edges[at(idx)])]
           row == Row(ScatterEdges(n, edges), i)
<1>1. /\ m \in Nat /\ DOMAIN edges = 1 .. m
      /\ \A j \in 1 .. m : /\ edges[j].src \in 1 .. n /\ edges[j].dst \in 1 .. n
                           /\ edges[j].weight \in Nat
  BY StagedEdges
<1>2. /\ o[0] = 0 /\ o[n] = m /\ \A j \in 0 .. n : o[j] \in Nat
      /\ \A j, k \in 0 .. n : j <= k => o[j] <= o[k]
  BY OffsetsGrow
<1>3. ScatterEdges(n, edges) = Arrays(o, cells)
  BY <1>1 DEF ScatterEdges, CellOf
<1>4. \A k \in 1 .. m :
        /\ Slot(o, edges, k) = Place(P, m, k)
        /\ o[edges[k].src - 1] < Slot(o, edges, k)
        /\ Slot(o, edges, k) <= o[edges[k].src]
  BY SlotIsPlace
<1>5. Orders(P, m)
  BY SrcOrders
<1> HIDE DEF m, o, P
<1>6. /\ \A j, k \in 1 .. m : Slot(o, edges, j) = Slot(o, edges, k) => j = k
      /\ \A idx \in 1 .. m : \E k \in 1 .. m : Slot(o, edges, k) = idx
      /\ \A k \in 1 .. m : Slot(o, edges, k) \in 1 .. m
  BY <1>1, <1>4, <1>5, PlaceProperties, PlacesAreAll
<1>7. \A idx \in 1 .. m : at(idx) \in 1 .. m /\ Slot(o, edges, at(idx)) = idx
  BY <1>6
<1>8. \A k \in 1 .. m : at(Slot(o, edges, k)) = k
  BY <1>6, <1>7
<1> HIDE DEF at
<1>9. \A idx \in 1 .. m : cells[idx] = CellOf(edges[at(idx)])
  OBVIOUS
<1>10. \A idx \in 1 .. m : cells[idx] \in Cell
  <2> SUFFICES ASSUME NEW idx \in 1 .. m PROVE CellOf(edges[at(idx)]) \in Cell
    BY <1>9
  <2>1. edges[at(idx)].dst \in Nat /\ edges[at(idx)].weight \in Nat
    BY <1>1, <1>7
  <2> QED BY <2>1 DEF Cell, CellOf
<1>11. row = SubSeq(cells, o[i - 1] + 1, o[i])
  <2> DEFINE arrays == ScatterEdges(n, edges)
  <2> HIDE DEF cells
  <2>1. arrays.offsets = o /\ arrays.cells = cells
    BY <1>3 DEF Arrays
  <2> HIDE DEF arrays
  <2>2. Row(arrays, i) = SubSeq(cells, o[i - 1] + 1, o[i])
    BY <2>1 DEF Row
  <2> QED BY <2>2 DEF arrays
<1> HIDE DEF cells, row
<1>12. i - 1 \in 0 .. n /\ i \in 0 .. n
  OBVIOUS
<1>13. PICK lo \in Nat, hi \in Nat : lo = o[i - 1] /\ hi = o[i] /\ lo <= hi /\ hi <= m
  <2>1. o[i - 1] \in Nat /\ o[i] \in Nat /\ o[i - 1] <= o[i] /\ o[i] <= o[n]
    BY <1>2, <1>12
  <2> QED BY <1>2, <2>1
<1>14. row = SubSeq(cells, lo + 1, hi)
  BY <1>11, <1>13
<1>15. \A idx \in lo + 1 .. hi : idx \in 1 .. m
  BY <1>1, <1>13
<1>16. /\ row \in Seq(Cell) /\ Len(row) = hi - lo
       /\ \A q \in 1 .. Len(row) : row[q] = cells[lo + q]
  <2>1. \A idx \in lo + 1 .. hi : cells[idx] \in Cell
    BY <1>10, <1>15
  <2>2. lo <= hi
    BY <1>13
  <2>3. /\ SubSeq(cells, lo + 1, hi) \in Seq(Cell)
        /\ Len(SubSeq(cells, lo + 1, hi)) = hi - lo
        /\ \A q \in 1 .. Len(SubSeq(cells, lo + 1, hi)) :
              SubSeq(cells, lo + 1, hi)[q] = cells[lo + q]
    BY <2>1, <2>2, Slice
  <2> QED BY <1>14, <2>3
<1>17. ASSUME NEW k \in 1 .. m
       PROVE  Slot(o, edges, k) \in lo + 1 .. hi <=> edges[k].src = i
  <2>1. PICK s \in 1 .. n : s = edges[k].src
    BY <1>1
  <2>2. PICK p \in 1 .. m : p = Slot(o, edges, k)
    BY <1>6
  <2>3. s - 1 \in 0 .. n /\ s \in 0 .. n
    OBVIOUS
  <2>4. PICK a \in Nat, b \in Nat : a = o[s - 1] /\ b = o[s]
    BY <1>2, <2>3
  <2>5. a < p /\ p <= b
    BY <1>4, <2>1, <2>2, <2>4
  <2>6. CASE s < i
    <3>1. s <= i - 1
      BY <2>6
    <3>2. b <= lo
      BY <1>2, <1>12, <1>13, <2>3, <2>4, <3>1
    <3>3. p \notin lo + 1 .. hi
      BY <1>1, <2>5, <3>2
    <3> QED BY <2>1, <2>2, <2>6, <3>3
  <2>7. CASE i < s
    <3>1. i <= s - 1
      BY <2>7
    <3>2. hi <= a
      BY <1>2, <1>12, <1>13, <2>3, <2>4, <3>1
    <3>3. p \notin lo + 1 .. hi
      BY <1>1, <2>5, <3>2
    <3> QED BY <2>1, <2>2, <2>7, <3>3
  <2>8. CASE s = i
    <3>1. p \in lo + 1 .. hi
      BY <1>1, <1>13, <2>4, <2>5, <2>8
    <3> QED BY <2>1, <2>2, <2>8, <3>1
  <2> QED BY <2>6, <2>7, <2>8
<1>18. DOMAIN row = 1 .. Len(row) /\ Len(row) \in Nat
  BY <1>16, LenProperties
<1>19. ASSUME NEW q \in 1 .. Len(row)
       PROVE  \E k \in From(edges, i) : row[q] = CellOf(edges[k])
  <2>1. lo + q \in lo + 1 .. hi
    BY <1>13, <1>16
  <2>2. lo + q \in 1 .. m
    BY <1>15, <2>1
  <2>3. at(lo + q) \in From(edges, i)
    BY <1>1, <1>7, <1>17, <2>1, <2>2 DEF From
  <2> QED BY <1>9, <1>16, <2>2, <2>3
<1>20. ASSUME NEW k \in From(edges, i)
       PROVE  \E q \in 1 .. Len(row) : row[q] = CellOf(edges[k])
  <2>1. k \in 1 .. m /\ edges[k].src = i
    BY <1>1 DEF From
  <2>2. PICK idx \in 1 .. m : idx = Slot(o, edges, k)
    BY <1>6, <2>1
  <2>3. idx \in lo + 1 .. hi /\ at(idx) = k
    BY <1>8, <1>17, <2>1, <2>2
  <2>4. PICK q \in 1 .. hi - lo : lo + q = idx
    <3>1. idx - lo \in 1 .. (hi - lo) /\ lo + (idx - lo) = idx
      BY <1>13, <2>3
    <3> QED BY <3>1
  <2>5. row[q] = cells[idx] /\ cells[idx] = CellOf(edges[k])
    BY <1>9, <1>16, <2>3, <2>4
  <2> QED BY <1>16, <2>5
<1>21. ToSet(row) = {CellOf(edges[k]) : k \in From(edges, i)}
  <2>1. ToSet(row) = {row[q] : q \in 1 .. Len(row)}
    BY <1>18 DEF ToSet
  <2>2. ToSet(row) \subseteq {CellOf(edges[k]) : k \in From(edges, i)}
    BY <1>19, <2>1
  <2>3. {CellOf(edges[k]) : k \in From(edges, i)} \subseteq ToSet(row)
    BY <1>20, <2>1
  <2> QED BY <2>2, <2>3
<1> QED BY <1>16, <1>21 DEF row

-----------------------------------------------------------------------------
(* The sort of a row.                                                      *)

\* The order of the sort: a cell less, or not greater and not later.
CellOrder(row) ==
  {p \in (DOMAIN row) \X (DOMAIN row) :
     \/ CellLess(row[p[1]], row[p[2]])
     \/ (p[1] <= p[2] /\ ~CellLess(row[p[2]], row[p[1]]))}

LEMMA CellOrderAt ==
  ASSUME NEW row, NEW j \in DOMAIN row, NEW k \in DOMAIN row
  PROVE  <<j, k>> \in CellOrder(row) <=> \/ CellLess(row[j], row[k])
                                         \/ (j <= k /\ ~CellLess(row[k], row[j]))
<1>1. <<j, k>> \in (DOMAIN row) \X (DOMAIN row)
  OBVIOUS
<1> QED BY <1>1 DEF CellOrder

LEMMA CellOrders ==
  ASSUME NEW row \in Seq(Cell)
  PROVE  Orders(CellOrder(row), Len(row))
<1> DEFINE m == Len(row)
           P == CellOrder(row)
<1>1. m \in Nat /\ DOMAIN row = 1 .. m
  BY LenProperties
<1>2. \A k \in 1 .. m : row[k] \in Cell
  BY ElementOfSeq
<1>3. \A j, k \in 1 .. m : <<j, k>> \in P <=> \/ CellLess(row[j], row[k])
                                              \/ (j <= k /\ ~CellLess(row[k], row[j]))
  BY <1>1, CellOrderAt
<1>4. P \subseteq (1 .. m) \X (1 .. m)
  <2>1. P \subseteq (DOMAIN row) \X (DOMAIN row)
    BY DEF CellOrder
  <2> QED BY <1>1, <2>1
<1> HIDE DEF P, m
<1>5. \A a, b, c \in Cell :
        /\ ~CellLess(a, a)
        /\ CellLess(a, b) => ~CellLess(b, a)
        /\ CellLess(a, b) /\ CellLess(b, c) => CellLess(a, c)
        /\ CellLess(a, c) => CellLess(a, b) \/ CellLess(b, c)
  BY DEF Cell, CellLess
<1>6. \A j \in 1 .. m : j \in Nat
  BY <1>1
<1>7. \A k \in 1 .. m : <<k, k>> \in P
  BY <1>2, <1>3, <1>5, <1>6
<1>8. \A j, k \in 1 .. m : <<j, k>> \in P \/ <<k, j>> \in P
  <2> SUFFICES ASSUME NEW j \in 1 .. m, NEW k \in 1 .. m
               PROVE  <<j, k>> \in P \/ <<k, j>> \in P
    OBVIOUS
  <2>1. (j <= k \/ k <= j) /\ row[j] \in Cell /\ row[k] \in Cell
    BY <1>2, <1>6
  <2>2. \/ CellLess(row[j], row[k]) \/ (j <= k /\ ~CellLess(row[k], row[j]))
        \/ CellLess(row[k], row[j]) \/ (k <= j /\ ~CellLess(row[j], row[k]))
    BY <2>1
  <2> QED BY <1>3, <2>2
<1>9. \A j, k \in 1 .. m : <<j, k>> \in P /\ <<k, j>> \in P => j = k
  BY <1>2, <1>3, <1>5, <1>6
<1>10. \A j, k, l \in 1 .. m : <<j, k>> \in P /\ <<k, l>> \in P => <<j, l>> \in P
  <2> SUFFICES ASSUME NEW j \in 1 .. m, NEW k \in 1 .. m, NEW l \in 1 .. m,
                      <<j, k>> \in P, <<k, l>> \in P
               PROVE  <<j, l>> \in P
    OBVIOUS
  <2>1. row[j] \in Cell /\ row[k] \in Cell /\ row[l] \in Cell
    BY <1>2
  <2>2. /\ CellLess(row[j], row[k]) \/ (j <= k /\ ~CellLess(row[k], row[j]))
        /\ CellLess(row[k], row[l]) \/ (k <= l /\ ~CellLess(row[l], row[k]))
    BY <1>3
  <2>3. CellLess(row[j], row[l]) \/ (j <= l /\ ~CellLess(row[l], row[j]))
    BY <1>5, <1>6, <2>1, <2>2
  <2> QED BY <1>3, <2>3
<1> QED BY <1>4, <1>7, <1>8, <1>9, <1>10 DEF Orders, P, m

LEMMA SortedPlaceIsPlace ==
  ASSUME NEW row \in Seq(Cell), NEW k \in 1 .. Len(row)
  PROVE  SortedPlace(row, k) = Place(CellOrder(row), Len(row), k)
<1>1. DOMAIN row = 1 .. Len(row)
  BY LenProperties
<1>2. \A j \in DOMAIN row :
        j \in Upto(CellOrder(row), Len(row), k)
          <=> CellLess(row[j], row[k]) \/ (j <= k /\ ~CellLess(row[k], row[j]))
  BY <1>1, CellOrderAt DEF Upto
<1>3. Upto(CellOrder(row), Len(row), k) \subseteq DOMAIN row
  BY <1>1 DEF Upto
<1>4. Upto(CellOrder(row), Len(row), k)
        = {j \in DOMAIN row : CellLess(row[j], row[k])
                                \/ (j <= k /\ ~CellLess(row[k], row[j]))}
  BY <1>2, <1>3
<1> QED BY <1>4 DEF SortedPlace, Place

\* No cell is before a lesser one.
Sorted(row) == \A p, q \in 1 .. Len(row) : p <= q => ~CellLess(row[q], row[p])

\* The sort keeps the cells and puts them in order.
LEMMA SortedRowSorts ==
  ASSUME NEW row \in Seq(Cell)
  PROVE  /\ SortedRow(row) \in Seq(Cell)
         /\ Sorted(SortedRow(row))
         /\ ToSet(SortedRow(row)) = ToSet(row)
<1> DEFINE m == Len(row)
           P == CellOrder(row)
           place == [k \in 1 .. m |-> SortedPlace(row, k)]
           at == [p \in 1 .. m |-> CHOOSE k \in 1 .. m : place[k] = p]
           s == SortedRow(row)
<1>1. m \in Nat /\ DOMAIN row = 1 .. m
  BY LenProperties
<1>2. \A k \in 1 .. m : row[k] \in Cell
  BY ElementOfSeq
<1>3. s = [p \in 1 .. m |-> row[CHOOSE k \in 1 .. m : place[k] = p]]
  <2> HIDE DEF m
  <2> QED BY <1>1 DEF SortedRow
<1>4. \A k \in 1 .. m : place[k] = Place(P, m, k)
  BY SortedPlaceIsPlace
<1>5. Orders(P, m)
  BY CellOrders
<1> HIDE DEF m, P, place, s
<1>6. /\ \A j, k \in 1 .. m : place[j] = place[k] => j = k
      /\ \A p \in 1 .. m : \E k \in 1 .. m : place[k] = p
      /\ \A k \in 1 .. m : place[k] \in 1 .. m
      /\ \A j, k \in 1 .. m : place[j] <= place[k] => <<j, k>> \in P
  <2>1. /\ \A j, k \in 1 .. m : Place(P, m, j) = Place(P, m, k) => j = k
        /\ \A p \in 1 .. m : \E k \in 1 .. m : Place(P, m, k) = p
        /\ \A j, k \in 1 .. m : Place(P, m, j) <= Place(P, m, k) => <<j, k>> \in P
    BY <1>1, <1>5, PlacesAreAll
  <2>2. \A k \in 1 .. m : Place(P, m, k) \in 1 .. m
    BY <1>1, <1>5, PlaceProperties
  <2>3. \A j, k \in 1 .. m : place[j] = place[k] => j = k
    BY <1>4, <2>1
  <2>4. \A p \in 1 .. m : \E k \in 1 .. m : place[k] = p
    BY <1>4, <2>1
  <2>5. \A k \in 1 .. m : place[k] \in 1 .. m
    BY <1>4, <2>2
  <2>6. ASSUME NEW j \in 1 .. m, NEW k \in 1 .. m, place[j] <= place[k]
        PROVE  <<j, k>> \in P
    <3>1. place[j] = Place(P, m, j) /\ place[k] = Place(P, m, k)
      BY <1>4
    <3>2. Place(P, m, j) <= Place(P, m, k)
      BY <2>6, <3>1
    <3> QED BY <2>1, <3>2
  <2> QED BY <2>3, <2>4, <2>5, <2>6
<1>7. \A p \in 1 .. m : at[p] \in 1 .. m /\ place[at[p]] = p
  BY <1>6
<1>8. \A k \in 1 .. m : at[place[k]] = k
  BY <1>6, <1>7
<1>9. DOMAIN s = 1 .. m /\ \A p \in 1 .. m : s[p] = row[at[p]]
  BY <1>3
<1> HIDE DEF at
<1>10. \A p \in 1 .. m : s[p] \in Cell
  BY <1>2, <1>7, <1>9
<1>11. s \in Seq(Cell) /\ Len(s) = m
  <2>1. s = [p \in 1 .. m |-> s[p]]
    BY <1>3
  <2>2. s \in [1 .. m -> Cell]
    BY <1>10, <2>1
  <2> QED BY <1>1, <2>2
<1>12. Sorted(s)
  <2> SUFFICES ASSUME NEW p \in 1 .. m, NEW q \in 1 .. m, p <= q
               PROVE  ~CellLess(s[q], s[p])
    BY <1>11 DEF Sorted
  <2>1. at[p] \in 1 .. m /\ at[q] \in 1 .. m /\ <<at[p], at[q]>> \in P
    <3>1. at[p] \in 1 .. m /\ at[q] \in 1 .. m
      BY <1>7
    <3>2. place[at[p]] <= place[at[q]]
      BY <1>7
    <3> QED BY <1>6, <3>1, <3>2
  <2>2. \/ CellLess(row[at[p]], row[at[q]])
        \/ ~CellLess(row[at[q]], row[at[p]])
    BY <1>1, <2>1, CellOrderAt DEF P
  <2>3. row[at[p]] \in Cell /\ row[at[q]] \in Cell
    BY <1>2, <2>1
  <2>4. ~CellLess(row[at[q]], row[at[p]])
    <3>1. \A a, b \in Cell : CellLess(a, b) => ~CellLess(b, a)
      BY DEF Cell, CellLess
    <3> QED BY <2>2, <2>3, <3>1
  <2> QED BY <1>9, <2>4
<1>13. ToSet(s) = ToSet(row)
  <2>1. /\ \A x : x \in ToSet(s) <=> \E p \in 1 .. m : x = s[p]
        /\ \A x : x \in ToSet(row) <=> \E k \in 1 .. m : x = row[k]
    BY <1>1, <1>9 DEF ToSet
  <2>2. \A p \in 1 .. m : \E k \in 1 .. m : s[p] = row[k]
    BY <1>7, <1>9
  <2>3. \A k \in 1 .. m : \E p \in 1 .. m : row[k] = s[p]
    BY <1>6, <1>8, <1>9
  <2>4. \A x : x \in ToSet(s) => x \in ToSet(row)
    BY <2>1, <2>2
  <2>5. \A x : x \in ToSet(row) => x \in ToSet(s)
    BY <2>1, <2>3
  <2> QED BY <2>4, <2>5
<1> QED BY <1>11, <1>12, <1>13 DEF s

-----------------------------------------------------------------------------
(* The removal of repetitions.                                             *)

Ascending(row) == \A p, q \in 1 .. Len(row) : p < q => row[p].dst < row[q].dst

\* Of each id the cell with the least weight.
LeastCells(cells) ==
  {c \in cells : \A d \in cells : d.dst = c.dst => c.weight <= d.weight}

\* The next cell of a row after kept.
Kept(row, kept, k) ==
  IF kept # << >> /\ Last(kept).dst = row[k].dst THEN kept ELSE Append(kept, row[k])

\* kept[k] is what is left of the first k cells.
LEMMA KeptFunction ==
  ASSUME NEW row \in Seq(Cell)
  PROVE  \E kept \in [0 .. Len(row) -> Seq(Cell)] :
           /\ kept[0] = << >>
           /\ \A k \in 1 .. Len(row) : kept[k] = Kept(row, kept[k - 1], k)
           /\ FirstPerDst(row) = kept[Len(row)]
<1> DEFINE m == Len(row)
           Turn(f) == [k \in 0 .. m |-> IF k = 0 THEN << >> ELSE Kept(row, f[k - 1], k)]
           o == CHOOSE f : f = Turn(f)
           step == [k \in 1 .. m |-> [s \in Seq(Cell) |-> Kept(row, s, k)]]
<1>1. m \in Nat /\ \A k \in 1 .. m : row[k] \in Cell
  BY LenProperties, ElementOfSeq
<1>2. \A k \in 1 .. m, s \in Seq(Cell) : Kept(row, s, k) \in Seq(Cell)
  <2> SUFFICES ASSUME NEW k \in 1 .. m, NEW s \in Seq(Cell)
               PROVE  Kept(row, s, k) \in Seq(Cell)
    OBVIOUS
  <2>1. Append(s, row[k]) \in Seq(Cell)
    BY <1>1, AppendProperties
  <2> QED BY <2>1 DEF Kept
<1> HIDE DEF m
<1>3. step \in [1 .. m -> [Seq(Cell) -> Seq(Cell)]]
  BY <1>2
<1>4. << >> \in Seq(Cell)
  BY EmptySeq
<1>5. PICK g \in [0 .. m -> Seq(Cell)] : Iterates(g, m, << >>, step)
  <2> HIDE DEF step
  <2> QED BY <1>1, <1>3, <1>4, RecursiveFunction
<1>6. g = Turn(g)
  <2>1. ASSUME NEW k \in 0 .. m
        PROVE  g[k] = IF k = 0 THEN << >> ELSE Kept(row, g[k - 1], k)
    <3>1. CASE k = 0
      BY <1>5, <3>1 DEF Iterates
    <3>2. CASE k # 0
      <4>1. k \in 1 .. m /\ k - 1 \in 0 .. m /\ g[k - 1] \in Seq(Cell)
        BY <1>1, <1>5, <3>2
      <4>2. g[k] = step[k][g[k - 1]]
        BY <1>5, <3>2 DEF Iterates
      <4> QED BY <3>2, <4>1, <4>2
    <3> QED BY <3>1, <3>2
  <2> QED BY <1>5, <2>1
<1>7. o = Turn(o)
  <2> HIDE DEF Turn
  <2> QED BY <1>6
<1>8. FirstPerDst(row) = o[m]
  BY DEF FirstPerDst, Kept, m
<1> HIDE DEF o
<1>9. /\ DOMAIN o = 0 .. m /\ o[0] = << >>
      /\ \A k \in 1 .. m : o[k] = Kept(row, o[k - 1], k)
  BY <1>1, <1>7
<1> DEFINE S == {k \in 0 .. m : o[k] \in Seq(Cell)}
<1>10. 0 \in S /\ \A k \in 1 .. m : k - 1 \in S => k \in S
  <2>1. 0 \in S
    <3>1. 0 \in 0 .. m /\ o[0] \in Seq(Cell)
      BY <1>1, <1>4, <1>9
    <3> QED BY <3>1
  <2>2. ASSUME NEW k \in 1 .. m, k - 1 \in S PROVE k \in S
    <3>1. o[k - 1] \in Seq(Cell) /\ k \in 0 .. m
      BY <1>1, <2>2
    <3>2. o[k] = Kept(row, o[k - 1], k)
      BY <1>9
    <3>3. o[k] \in Seq(Cell)
      BY <1>2, <3>1, <3>2
    <3> QED BY <3>1, <3>3
  <2> QED BY <2>1, <2>2
<1>11. 0 .. m \subseteq S
  <2> HIDE DEF S
  <2> QED BY <1>1, <1>10, BoundedInduction
<1>12. o \in [0 .. m -> Seq(Cell)]
  <2>1. o = [k \in 0 .. m |-> o[k]]
    BY <1>7
  <2> QED BY <1>11, <2>1
<1> QED BY <1>8, <1>9, <1>12 DEF m

\* What kept is of the first k cells of a sorted row.
KeepsOf(row, kept, k) ==
  /\ Ascending(kept)
  /\ k > 0 => kept # << >> /\ Last(kept).dst = row[k].dst
  /\ \A p \in 1 .. Len(kept) : \E j \in 1 .. k : kept[p] = row[j]
  /\ \A j \in 1 .. k : \E p \in 1 .. Len(kept) :
        kept[p].dst = row[j].dst /\ kept[p].weight <= row[j].weight

LEMMA KeptStep ==
  ASSUME NEW row \in Seq(Cell), Sorted(row), NEW k \in 1 .. Len(row),
         NEW kept \in Seq(Cell), KeepsOf(row, kept, k - 1), k = 1 => kept = << >>
  PROVE  KeepsOf(row, Kept(row, kept, k), k)
<1>1. /\ Len(row) \in Nat /\ \A j \in 1 .. Len(row) : row[j] \in Cell
      /\ Len(kept) \in Nat /\ \A p \in 1 .. Len(kept) : kept[p] \in Cell
  BY LenProperties, ElementOfSeq
<1>2. \A j \in 1 .. k : j = k \/ j \in 1 .. k - 1
  OBVIOUS
<1>3. \A j \in 1 .. k : /\ row[j].dst \in Nat /\ row[j].weight \in Nat
                        /\ row[j].dst <= row[k].dst
                        /\ row[j].dst = row[k].dst => row[j].weight <= row[k].weight
  <2> SUFFICES ASSUME NEW j \in 1 .. k
               PROVE  /\ row[j].dst \in Nat /\ row[j].weight \in Nat
                      /\ row[j].dst <= row[k].dst
                      /\ row[j].dst = row[k].dst => row[j].weight <= row[k].weight
    OBVIOUS
  <2>1. ~CellLess(row[k], row[j])
    BY <1>1 DEF Sorted
  <2>2. row[j] \in Cell /\ row[k] \in Cell
    BY <1>1
  <2>3. /\ row[j].dst \in Nat /\ row[j].weight \in Nat
        /\ row[k].dst \in Nat /\ row[k].weight \in Nat
    BY <2>2 DEF Cell
  <2> QED BY <2>1, <2>3 DEF CellLess
<1>4. /\ \A p \in 1 .. Len(kept) : \E j \in 1 .. k - 1 : kept[p] = row[j]
      /\ \A j \in 1 .. k - 1 : \E p \in 1 .. Len(kept) :
            kept[p].dst = row[j].dst /\ kept[p].weight <= row[j].weight
      /\ Ascending(kept)
      /\ k - 1 > 0 => kept # << >> /\ Last(kept).dst = row[k - 1].dst
  BY DEF KeepsOf
<1>5. CASE kept # << >> /\ Last(kept).dst = row[k].dst
  <2>1. Kept(row, kept, k) = kept
    BY <1>5 DEF Kept
  <2>2. Len(kept) \in 1 .. Len(kept) /\ Last(kept) = kept[Len(kept)]
    <3>1. Len(kept) # 0
      BY <1>5, EmptySeq
    <3> QED BY <1>1, <3>1 DEF Last
  <2>3. PICK j \in 1 .. k - 1 : kept[Len(kept)] = row[j]
    BY <1>4, <2>2
  <2>4. kept[Len(kept)].dst = row[k].dst /\ kept[Len(kept)].weight <= row[k].weight
    <3>1. j \in 1 .. k /\ row[j].dst = row[k].dst
      BY <1>5, <2>2, <2>3
    <3> QED BY <1>3, <2>3, <3>1
  <2>5. \A i \in 1 .. k : \E p \in 1 .. Len(kept) :
            kept[p].dst = row[i].dst /\ kept[p].weight <= row[i].weight
    BY <1>2, <1>4, <2>2, <2>4
  <2>6. \A p \in 1 .. Len(kept) : \E i \in 1 .. k : kept[p] = row[i]
    BY <1>4
  <2>7. KeepsOf(row, kept, k)
    BY <1>4, <1>5, <2>5, <2>6 DEF KeepsOf
  <2> QED BY <2>1, <2>7
<1>6. CASE ~(kept # << >> /\ Last(kept).dst = row[k].dst)
  <2> DEFINE s == Append(kept, row[k])
             l == Len(kept)
  <2>1. Kept(row, kept, k) = s
    BY <1>6 DEF Kept
  <2>2. /\ s \in Seq(Cell) /\ s # << >> /\ Len(s) = l + 1
        /\ \A p \in 1 .. l : s[p] = kept[p]
        /\ s[l + 1] = row[k]
    BY <1>1, AppendProperties
  <2>3. l \in Nat /\ l + 1 \in 1 .. l + 1 /\ \A p \in 1 .. l + 1 : p \in 1 .. l \/ p = l + 1
    BY <1>1
  <2>4. Last(s) = row[k]
    BY <2>2 DEF Last
  <2> HIDE DEF s
  <2>5. \A p \in 1 .. l : kept[p].dst < row[k].dst
    <3> SUFFICES ASSUME NEW p \in 1 .. l PROVE kept[p].dst < row[k].dst
      OBVIOUS
    <3>1. l \in 1 .. l /\ kept # << >>
      BY <1>1, EmptySeq
    <3>2. PICK j \in 1 .. k - 1 : kept[l] = row[j]
      BY <1>4, <3>1
    <3>3. PICK i \in 1 .. k - 1 : kept[p] = row[i]
      BY <1>4
    <3>4. kept[l].dst <= row[k].dst /\ kept[l].dst \in Nat /\ row[k].dst \in Nat
      BY <1>3, <3>2
    <3>5. kept[l].dst # row[k].dst
      BY <1>6, <3>1 DEF Last
    <3>6. kept[p].dst \in Nat
      BY <1>3, <3>3
    <3>7. p = l \/ kept[p].dst < kept[l].dst
      BY <1>1, <1>4, <3>1 DEF Ascending
    <3> QED BY <3>4, <3>5, <3>6, <3>7
  <2>6. Ascending(s)
    <3> SUFFICES ASSUME NEW p \in 1 .. l + 1, NEW q \in 1 .. l + 1, p < q
                 PROVE  s[p].dst < s[q].dst
      BY <2>2 DEF Ascending
    <3>1. p \in 1 .. l
      BY <2>3
    <3>2. CASE q = l + 1
      BY <2>2, <2>5, <3>1, <3>2
    <3>3. CASE q \in 1 .. l
      BY <1>4, <2>2, <3>1, <3>3 DEF Ascending
    <3> QED BY <2>3, <3>2, <3>3
  <2>7. \A p \in 1 .. l + 1 : \E j \in 1 .. k : s[p] = row[j]
    <3> SUFFICES ASSUME NEW p \in 1 .. l + 1 PROVE \E j \in 1 .. k : s[p] = row[j]
      OBVIOUS
    <3>1. CASE p = l + 1
      BY <2>2, <3>1
    <3>2. CASE p \in 1 .. l
      <4>1. PICK j \in 1 .. k - 1 : kept[p] = row[j]
        BY <1>4, <3>2
      <4>2. j \in 1 .. k /\ s[p] = row[j]
        BY <2>2, <3>2, <4>1
      <4> QED BY <4>2
    <3> QED BY <2>3, <3>1, <3>2
  <2>8. \A j \in 1 .. k : \E p \in 1 .. l + 1 :
            s[p].dst = row[j].dst /\ s[p].weight <= row[j].weight
    <3> SUFFICES ASSUME NEW j \in 1 .. k
                 PROVE  \E p \in 1 .. l + 1 :
                          s[p].dst = row[j].dst /\ s[p].weight <= row[j].weight
      OBVIOUS
    <3>1. CASE j = k
      <4>1. s[l + 1].dst = row[j].dst /\ s[l + 1].weight <= row[j].weight
        BY <1>3, <2>2, <3>1
      <4> QED BY <2>3, <4>1
    <3>2. CASE j \in 1 .. k - 1
      <4>1. PICK p \in 1 .. l : kept[p].dst = row[j].dst /\ kept[p].weight <= row[j].weight
        BY <1>4, <3>2
      <4>2. p \in 1 .. l + 1 /\ s[p] = kept[p]
        BY <1>1, <2>2
      <4> QED BY <4>1, <4>2
    <3> QED BY <1>2, <3>1, <3>2
  <2> QED BY <2>1, <2>2, <2>4, <2>6, <2>7, <2>8 DEF KeepsOf
<1> QED BY <1>5, <1>6

\* Of a sorted row the removal leaves the least cell of each id, ascending.
LEMMA FirstPerDstKeepsLeast ==
  ASSUME NEW row \in Seq(Cell), Sorted(row)
  PROVE  /\ FirstPerDst(row) \in Seq(Cell)
         /\ Ascending(FirstPerDst(row))
         /\ ToSet(FirstPerDst(row)) = LeastCells(ToSet(row))
<1> DEFINE m == Len(row)
           s == FirstPerDst(row)
<1>1. m \in Nat /\ DOMAIN row = 1 .. m /\ \A k \in 1 .. m : row[k] \in Cell
  BY LenProperties, ElementOfSeq
<1>2. PICK kept \in [0 .. m -> Seq(Cell)] :
        /\ kept[0] = << >>
        /\ \A k \in 1 .. m : kept[k] = Kept(row, kept[k - 1], k)
        /\ s = kept[m]
  BY KeptFunction
<1> HIDE DEF m, s
<1> DEFINE S == {k \in 0 .. m : KeepsOf(row, kept[k], k)}
<1>3. 0 \in S
  <2>1. Len(<< >>) = 0
    OBVIOUS
  <2>2. KeepsOf(row, << >>, 0)
    BY <2>1 DEF KeepsOf, Ascending
  <2> QED BY <1>1, <1>2, <2>2
<1>4. ASSUME NEW k \in 1 .. m, k - 1 \in S PROVE k \in S
  <2>1. k - 1 \in 0 .. m /\ k \in 0 .. m /\ k \in 1 .. Len(row)
    BY <1>1 DEF m
  <2>2. kept[k - 1] \in Seq(Cell) /\ KeepsOf(row, kept[k - 1], k - 1)
    BY <1>4, <2>1
  <2>3. k = 1 => kept[k - 1] = << >>
    BY <1>2
  <2>4. KeepsOf(row, Kept(row, kept[k - 1], k), k)
    BY <2>1, <2>2, <2>3, KeptStep
  <2> QED BY <1>2, <2>1, <2>4
<1>5. 0 .. m \subseteq S
  <2> HIDE DEF S
  <2> QED BY <1>1, <1>3, <1>4, BoundedInduction
<1>6. s \in Seq(Cell) /\ KeepsOf(row, s, m)
  <2>1. m \in 0 .. m
    BY <1>1
  <2> QED BY <1>2, <1>5, <2>1
<1>7. /\ Len(s) \in Nat /\ DOMAIN s = 1 .. Len(s)
      /\ \A p \in 1 .. Len(s) : s[p] \in Cell
  BY <1>6, LenProperties, ElementOfSeq
<1>8. \A c \in Cell : c.dst \in Nat /\ c.weight \in Nat
  BY DEF Cell
<1>9. \A c, d \in Cell : c.dst = d.dst /\ c.weight = d.weight => c = d
  BY DEF Cell
<1>10. ToSet(s) = {s[p] : p \in 1 .. Len(s)} /\ ToSet(row) = {row[k] : k \in 1 .. m}
  BY <1>1, <1>7 DEF ToSet
<1>11. ASSUME NEW p \in 1 .. Len(s) PROVE s[p] \in LeastCells(ToSet(row))
  <2>1. s[p] \in ToSet(row)
    BY <1>6, <1>10 DEF KeepsOf
  <2>2. ASSUME NEW d \in ToSet(row), d.dst = s[p].dst PROVE s[p].weight <= d.weight
    <3>1. PICK q \in 1 .. Len(s) : s[q].dst = d.dst /\ s[q].weight <= d.weight
      <4>1. PICK j \in 1 .. m : d = row[j]
        BY <1>10
      <4> QED BY <1>6, <4>1 DEF KeepsOf
    <3>2. s[p].dst \in Nat
      BY <1>7, <1>8
    <3>3. s[q].dst = s[p].dst
      BY <2>2, <3>1
    <3>4. /\ p < q => s[p].dst < s[q].dst
          /\ q < p => s[q].dst < s[p].dst
      BY <1>6 DEF KeepsOf, Ascending
    <3>5. ~(p < q) /\ ~(q < p)
      BY <3>2, <3>3, <3>4
    <3>6. p \in Nat /\ q \in Nat
      BY <1>7
    <3>7. q = p
      BY <3>5, <3>6
    <3> QED BY <3>1, <3>7
  <2> QED BY <2>1, <2>2 DEF LeastCells
<1>12. ASSUME NEW c \in LeastCells(ToSet(row)) PROVE c \in ToSet(s)
  <2>1. c \in ToSet(row) /\ \A d \in ToSet(row) : d.dst = c.dst => c.weight <= d.weight
    BY DEF LeastCells
  <2>2. PICK q \in 1 .. Len(s) : s[q].dst = c.dst /\ s[q].weight <= c.weight
    <3>1. PICK j \in 1 .. m : c = row[j]
      BY <1>10, <2>1
    <3> QED BY <1>6, <3>1 DEF KeepsOf
  <2>3. s[q] \in ToSet(row)
    BY <1>6, <1>10 DEF KeepsOf
  <2>4. c.weight <= s[q].weight
    BY <2>1, <2>2, <2>3
  <2>5. c \in Cell /\ s[q] \in Cell
    BY <1>1, <1>7, <1>10, <2>1
  <2>6. c.weight = s[q].weight
    BY <1>8, <2>2, <2>4, <2>5
  <2> QED BY <1>9, <1>10, <2>2, <2>5, <2>6
<1>13. ToSet(s) = LeastCells(ToSet(row))
  BY <1>10, <1>11, <1>12
<1> QED BY <1>6, <1>13 DEF s, KeepsOf

\* std::sort and std::unique together.
LEMMA SortedUniqueRowKeepsLeast ==
  ASSUME NEW row \in Seq(Cell)
  PROVE  /\ SortedUniqueRow(row) \in Seq(Cell)
         /\ Ascending(SortedUniqueRow(row))
         /\ ToSet(SortedUniqueRow(row)) = LeastCells(ToSet(row))
<1> DEFINE s == SortedRow(row)
<1>1. s \in Seq(Cell) /\ Sorted(s) /\ ToSet(s) = ToSet(row)
  BY SortedRowSorts
<1>2. SortedUniqueRow(row) = FirstPerDst(s)
  BY DEF SortedUniqueRow
<1> HIDE DEF s
<1> QED BY <1>1, <1>2, FirstPerDstKeepsLeast

-----------------------------------------------------------------------------
(* The rows one after the other.                                           *)

Grown(before, row) ==
  LET cells == before.cells \o row
  IN  Arrays(Append(before.offsets, Len(cells)), cells)

Rows == [offsets : Seq(Nat), cells : Seq(Cell)]

\* The row that is built for vertex i.
BuiltRow(n, edges, i) == SortedUniqueRow(Row(ScatterEdges(n, edges), i))

LEMMA BuiltRowIs ==
  ASSUME NEW n \in Nat, NEW edges \in Seq(StagedEdge(n)), NEW i \in 1 .. n
  PROVE  /\ BuiltRow(n, edges, i) \in Seq(Cell)
         /\ Ascending(BuiltRow(n, edges, i))
         /\ ToSet(BuiltRow(n, edges, i))
              = LeastCells({CellOf(edges[k]) : k \in From(edges, i)})
<1> DEFINE row == Row(ScatterEdges(n, edges), i)
<1>1. row \in Seq(Cell) /\ ToSet(row) = {CellOf(edges[k]) : k \in From(edges, i)}
  BY ScatteredRow
<1>2. BuiltRow(n, edges, i) = SortedUniqueRow(row)
  BY DEF BuiltRow
<1> HIDE DEF row
<1> QED BY <1>1, <1>2, SortedUniqueRowKeepsLeast

LEMMA GrownRows ==
  ASSUME NEW b \in Rows, NEW row \in Seq(Cell)
  PROVE  /\ Grown(b, row) \in Rows
         /\ Grown(b, row).offsets = Append(b.offsets, Len(b.cells) + Len(row))
         /\ Grown(b, row).cells = b.cells \o row
<1>1. b.offsets \in Seq(Nat) /\ b.cells \in Seq(Cell)
  BY DEF Rows
<1>2. b.cells \o row \in Seq(Cell) /\ Len(b.cells \o row) = Len(b.cells) + Len(row)
  BY <1>1, ConcatProperties
<1>3. Len(b.cells) + Len(row) \in Nat
  BY <1>1, LenProperties
<1>4. Append(b.offsets, Len(b.cells) + Len(row)) \in Seq(Nat)
  BY <1>1, <1>3, AppendProperties
<1>5. Grown(b, row) = [offsets |-> Append(b.offsets, Len(b.cells) + Len(row)),
                       cells |-> b.cells \o row]
  BY <1>2 DEF Grown, Arrays
<1> QED BY <1>2, <1>4, <1>5 DEF Rows

\* built[i] holds the rows of the first i vertices.
LEMMA BuiltFunction ==
  ASSUME NEW n \in Nat, NEW edges \in Seq(StagedEdge(n))
  PROVE  \E built \in [0 .. n -> Rows] :
           /\ built[0] = Arrays(<<0>>, << >>)
           /\ \A i \in 1 .. n : built[i] = Grown(built[i - 1], BuiltRow(n, edges, i))
           /\ BuildCSR(n, edges)
                = Arrays([i \in 0 .. n |-> built[n].offsets[i + 1]], built[n].cells)
<1> DEFINE a == Arrays(<<0>>, << >>)
           Turn(f) == [i \in 0 .. n |->
                         IF i = 0 THEN a ELSE Grown(f[i - 1], BuiltRow(n, edges, i))]
           o == CHOOSE f : f = Turn(f)
           step == [i \in 1 .. n |-> [b \in Rows |-> Grown(b, BuiltRow(n, edges, i))]]
<1>1. a \in Rows
  <2>1. <<0>> \in Seq(Nat) /\ << >> \in Seq(Cell)
    BY EmptySeq
  <2> QED BY <2>1 DEF Rows, Arrays
<1>2. \A i \in 1 .. n : BuiltRow(n, edges, i) \in Seq(Cell)
  BY BuiltRowIs
<1>3. \A i \in 1 .. n, b \in Rows : Grown(b, BuiltRow(n, edges, i)) \in Rows
  BY <1>2, GrownRows
<1>4. step \in [1 .. n -> [Rows -> Rows]]
  BY <1>3
<1> HIDE DEF a
<1>5. PICK g \in [0 .. n -> Rows] : Iterates(g, n, a, step)
  <2> HIDE DEF step
  <2> QED BY <1>1, <1>4, RecursiveFunction
<1>6. g = Turn(g)
  <2>1. ASSUME NEW i \in 0 .. n
        PROVE  g[i] = IF i = 0 THEN a ELSE Grown(g[i - 1], BuiltRow(n, edges, i))
    <3>1. CASE i = 0
      BY <1>5, <3>1 DEF Iterates
    <3>2. CASE i # 0
      <4>1. i \in 1 .. n /\ i - 1 \in 0 .. n /\ g[i - 1] \in Rows
        BY <1>5, <3>2
      <4>2. g[i] = step[i][g[i - 1]]
        BY <1>5, <3>2 DEF Iterates
      <4> QED BY <3>2, <4>1, <4>2
    <3> QED BY <3>1, <3>2
  <2> QED BY <1>5, <2>1
<1>7. o = Turn(o)
  <2> HIDE DEF Turn
  <2> QED BY <1>6
<1>8. BuildCSR(n, edges) = Arrays([i \in 0 .. n |-> o[n].offsets[i + 1]], o[n].cells)
  BY DEF BuildCSR, Grown, BuiltRow, a
<1> HIDE DEF o
<1>9. /\ DOMAIN o = 0 .. n /\ o[0] = a
      /\ \A i \in 1 .. n : o[i] = Grown(o[i - 1], BuiltRow(n, edges, i))
  BY <1>7
<1> DEFINE S == {i \in 0 .. n : o[i] \in Rows}
<1>10. 0 \in S
  <2>1. 0 \in 0 .. n /\ o[0] \in Rows
    BY <1>1, <1>9
  <2> QED BY <2>1
<1>11. ASSUME NEW i \in 1 .. n, i - 1 \in S PROVE i \in S
  <2>1. o[i - 1] \in Rows /\ i \in 0 .. n
    BY <1>11
  <2>2. o[i] \in Rows
    BY <1>3, <1>9, <2>1
  <2> QED BY <2>1, <2>2
<1>12. 0 .. n \subseteq S
  <2> HIDE DEF S
  <2> QED BY <1>10, <1>11, BoundedInduction
<1>13. o \in [0 .. n -> Rows]
  <2>1. o = [i \in 0 .. n |-> o[i]]
    BY <1>7
  <2> QED BY <1>12, <2>1
<1> QED BY <1>8, <1>9, <1>13 DEF a

\* The offsets of b frame the first i rows, and b holds nothing else.
Frames(b, rows, i) ==
  /\ Len(b.offsets) = i + 1
  /\ b.offsets[1] = 0
  /\ b.offsets[i + 1] = Len(b.cells)
  /\ \A j \in 1 .. i : /\ b.offsets[j + 1] = b.offsets[j] + Len(rows[j])
                       /\ b.offsets[j + 1] <= Len(b.cells)
                       /\ \A q \in 1 .. Len(rows[j]) : b.cells[b.offsets[j] + q] = rows[j][q]
  /\ \A k \in 1 .. Len(b.cells) : \E j \in 1 .. i : \E q \in 1 .. Len(rows[j]) :
        b.cells[k] = rows[j][q]

LEMMA FramesStep ==
  ASSUME NEW n \in Nat, NEW rows \in [1 .. n -> Seq(Cell)], NEW i \in 1 .. n,
         NEW b \in Rows, Frames(b, rows, i - 1)
  PROVE  Frames(Grown(b, rows[i]), rows, i)
<1> DEFINE c == Grown(b, rows[i])
           h == Len(b.cells)
           w == Len(rows[i])
<1>1. rows[i] \in Seq(Cell) /\ w \in Nat
  BY LenProperties
<1>2. b.offsets \in Seq(Nat) /\ b.cells \in Seq(Cell) /\ h \in Nat
  BY LenProperties DEF Rows
<1>3. c \in Rows /\ c.offsets = Append(b.offsets, h + w) /\ c.cells = b.cells \o rows[i]
  BY <1>1, GrownRows
<1>4. /\ Len(b.offsets) = i /\ b.offsets[1] = 0 /\ b.offsets[i] = h
      /\ \A j \in 1 .. i - 1 :
            /\ b.offsets[j + 1] = b.offsets[j] + Len(rows[j])
            /\ b.offsets[j + 1] <= h
            /\ \A q \in 1 .. Len(rows[j]) : b.cells[b.offsets[j] + q] = rows[j][q]
      /\ \A k \in 1 .. h : \E j \in 1 .. i - 1 : \E q \in 1 .. Len(rows[j]) :
            b.cells[k] = rows[j][q]
  BY DEF Frames
<1>5. /\ Len(c.offsets) = i + 1
      /\ \A j \in 1 .. i : c.offsets[j] = b.offsets[j]
      /\ c.offsets[i + 1] = h + w
  <2>1. PICK z \in Nat : z = h + w
    BY <1>1, <1>2
  <2>2. /\ Len(Append(b.offsets, z)) = Len(b.offsets) + 1
        /\ Append(b.offsets, z)[Len(b.offsets) + 1] = z
        /\ \A j \in 1 .. Len(b.offsets) : Append(b.offsets, z)[j] = b.offsets[j]
    BY <1>2, AppendProperties
  <2>3. c.offsets = Append(b.offsets, z) /\ Len(b.offsets) = i
    BY <1>3, <1>4, <2>1
  <2> HIDE DEF c
  <2> QED BY <2>1, <2>2, <2>3
<1>6. /\ Len(c.cells) = h + w
      /\ \A k \in 1 .. h : c.cells[k] = b.cells[k]
      /\ \A q \in 1 .. w : c.cells[h + q] = rows[i][q]
  <2>1. /\ Len(c.cells) = h + w
        /\ \A k \in 1 .. h + w : c.cells[k] = IF k <= h THEN b.cells[k] ELSE rows[i][k - h]
    BY <1>1, <1>2, <1>3, ConcatProperties
  <2>2. ASSUME NEW k \in 1 .. h PROVE c.cells[k] = b.cells[k]
    <3>1. k \in 1 .. h + w /\ k <= h
      BY <1>1, <1>2
    <3> QED BY <2>1, <3>1
  <2>3. ASSUME NEW q \in 1 .. w PROVE c.cells[h + q] = rows[i][q]
    <3>1. h + q \in 1 .. h + w /\ ~(h + q <= h) /\ (h + q) - h = q
      BY <1>1, <1>2
    <3> QED BY <2>1, <3>1
  <2> QED BY <2>1, <2>2, <2>3
<1> HIDE DEF c, h, w
<1>7. \A j \in 1 .. i : j = i \/ j \in 1 .. i - 1
  OBVIOUS
<1>8. ASSUME NEW j \in 1 .. i
      PROVE  /\ c.offsets[j + 1] = c.offsets[j] + Len(rows[j])
             /\ c.offsets[j + 1] <= Len(c.cells)
             /\ \A q \in 1 .. Len(rows[j]) : c.cells[c.offsets[j] + q] = rows[j][q]
  <2>1. CASE j = i
    <3>1. c.offsets[j] = h /\ c.offsets[j + 1] = h + w
      BY <1>4, <1>5, <2>1
    <3>2. Len(rows[j]) = w /\ h + w <= h + w
      BY <1>1, <1>2, <2>1 DEF w
    <3> QED BY <1>6, <2>1, <3>1, <3>2
  <2>2. CASE j \in 1 .. i - 1
    <3>1. j + 1 \in 1 .. i /\ j \in 1 .. i
      BY <2>2
    <3>2. c.offsets[j + 1] = b.offsets[j + 1] /\ c.offsets[j] = b.offsets[j]
      BY <1>5, <3>1
    <3>3. rows[j] \in Seq(Cell)
      BY <3>1
    <3>4. PICK x \in Nat, y \in Nat, l \in Nat :
            x = b.offsets[j] /\ y = b.offsets[j + 1] /\ l = Len(rows[j])
      <4>1. b.offsets[j] \in Nat /\ b.offsets[j + 1] \in Nat
        BY <1>2, <1>4, <3>1, ElementOfSeq
      <4> QED BY <3>3, <4>1, LenProperties
    <3>5. y = x + l /\ y <= h
      BY <1>4, <2>2, <3>4
    <3>6. y <= h + w
      BY <1>1, <1>2, <3>5
    <3>7. ASSUME NEW q \in 1 .. l PROVE c.cells[x + q] = rows[j][q]
      <4>1. x + q \in 1 .. h
        BY <1>2, <3>5
      <4>2. b.cells[x + q] = rows[j][q]
        BY <1>4, <2>2, <3>4
      <4> QED BY <1>6, <4>1, <4>2
    <3> QED BY <1>6, <3>2, <3>4, <3>5, <3>6, <3>7
  <2> QED BY <1>7, <2>1, <2>2
<1>9. ASSUME NEW k \in 1 .. h + w
      PROVE  \E j \in 1 .. i : \E q \in 1 .. Len(rows[j]) : c.cells[k] = rows[j][q]
  <2>1. CASE k <= h
    <3>1. k \in 1 .. h
      BY <1>1, <1>2, <2>1
    <3>2. PICK j \in 1 .. i - 1 : \E q \in 1 .. Len(rows[j]) : b.cells[k] = rows[j][q]
      BY <1>4, <3>1
    <3>3. j \in 1 .. i /\ c.cells[k] = b.cells[k]
      BY <1>6, <3>1
    <3> QED BY <3>2, <3>3
  <2>2. CASE ~(k <= h)
    <3>1. k - h \in 1 .. w /\ h + (k - h) = k
      BY <1>1, <1>2, <2>2
    <3>2. PICK q \in 1 .. w : h + q = k
      BY <3>1
    <3>3. c.cells[k] = rows[i][q] /\ i \in 1 .. i
      BY <1>6, <3>2
    <3> QED BY <3>3 DEF w
  <2> QED BY <2>1, <2>2
<1>10. c.offsets[1] = 0
  BY <1>4, <1>5
<1>11. Frames(c, rows, i)
  BY <1>5, <1>6, <1>8, <1>9, <1>10 DEF Frames
<1> QED BY <1>11 DEF c


\* What finalize() builds: offsets that frame the built rows.
LEMMA BuiltArrays ==
  ASSUME NEW n \in Nat, NEW edges \in Seq(StagedEdge(n))
  PROVE  LET arrays == BuildCSR(n, edges)
         IN  /\ arrays.cells \in Seq(Cell)
             /\ arrays.offsets \in [0 .. n -> Nat]
             /\ arrays.offsets[0] = 0 /\ arrays.offsets[n] = Len(arrays.cells)
             /\ \A i \in 1 .. n :
                   /\ arrays.offsets[i - 1] <= arrays.offsets[i]
                   /\ arrays.offsets[i] <= Len(arrays.cells)
                   /\ Row(arrays, i) = BuiltRow(n, edges, i)
             /\ \A k \in 1 .. Len(arrays.cells) :
                   \E i \in 1 .. n : arrays.cells[k] \in ToSet(BuiltRow(n, edges, i))
<1> DEFINE arrays == BuildCSR(n, edges)
           rows == [i \in 1 .. n |-> BuiltRow(n, edges, i)]
<1>1. PICK built \in [0 .. n -> Rows] :
           /\ built[0] = Arrays(<<0>>, << >>)
           /\ \A i \in 1 .. n : built[i] = Grown(built[i - 1], BuiltRow(n, edges, i))
           /\ arrays = Arrays([i \in 0 .. n |-> built[n].offsets[i + 1]], built[n].cells)
  BY BuiltFunction
<1>2. rows \in [1 .. n -> Seq(Cell)] /\ \A i \in 1 .. n : rows[i] = BuiltRow(n, edges, i)
  BY BuiltRowIs
<1> HIDE DEF arrays, rows
<1> DEFINE S == {i \in 0 .. n : Frames(built[i], rows, i)}
<1>3. 0 \in S
  <2>1. built[0].offsets = <<0>> /\ built[0].cells = << >>
    BY <1>1 DEF Arrays
  <2>2. Frames(built[0], rows, 0)
    BY <2>1 DEF Frames
  <2> QED BY <2>2
<1>4. ASSUME NEW i \in 1 .. n, i - 1 \in S PROVE i \in S
  <2>1. i \in 0 .. n /\ i - 1 \in 0 .. n /\ Frames(built[i - 1], rows, i - 1)
    BY <1>4
  <2>2. built[i - 1] \in Rows
    BY <1>1, <2>1
  <2>3. Frames(Grown(built[i - 1], rows[i]), rows, i)
    BY <1>2, <2>1, <2>2, FramesStep
  <2> QED BY <1>1, <1>2, <2>1, <2>3
<1>5. 0 .. n \subseteq S
  <2> HIDE DEF S
  <2> QED BY <1>3, <1>4, BoundedInduction
<1>6. PICK b \in Rows : b = built[n]
  <2>1. n \in 0 .. n
    OBVIOUS
  <2> QED BY <1>1, <2>1
<1>7. Frames(b, rows, n)
  <2>1. n \in 0 .. n
    OBVIOUS
  <2> QED BY <1>5, <1>6, <2>1
<1>8. arrays.offsets = [i \in 0 .. n |-> b.offsets[i + 1]] /\ arrays.cells = b.cells
  BY <1>1, <1>6 DEF Arrays
<1>9. b.offsets \in Seq(Nat) /\ b.cells \in Seq(Cell) /\ Len(b.cells) \in Nat
  BY LenProperties DEF Rows
<1>10. /\ Len(b.offsets) = n + 1 /\ b.offsets[1] = 0 /\ b.offsets[n + 1] = Len(b.cells)
       /\ \A j \in 1 .. n : /\ b.offsets[j + 1] = b.offsets[j] + Len(rows[j])
                            /\ b.offsets[j + 1] <= Len(b.cells)
                            /\ \A q \in 1 .. Len(rows[j]) :
                                  b.cells[b.offsets[j] + q] = rows[j][q]
       /\ \A k \in 1 .. Len(b.cells) : \E j \in 1 .. n : \E q \in 1 .. Len(rows[j]) :
             b.cells[k] = rows[j][q]
  BY <1>7 DEF Frames
<1>11. \A i \in 0 .. n : b.offsets[i + 1] \in Nat
  <2> SUFFICES ASSUME NEW i \in 0 .. n PROVE b.offsets[i + 1] \in Nat
    OBVIOUS
  <2>1. i + 1 \in 1 .. Len(b.offsets)
    BY <1>10
  <2> QED BY <1>9, <2>1, ElementOfSeq
<1>12. arrays.offsets \in [0 .. n -> Nat]
  BY <1>8, <1>11
<1>13. \A i \in 1 .. n : arrays.offsets[i] = b.offsets[i + 1] /\ arrays.offsets[i - 1] = b.offsets[i]
  BY <1>8
<1>14. arrays.offsets[0] = 0 /\ arrays.offsets[n] = Len(arrays.cells)
  BY <1>8, <1>10
<1>15. ASSUME NEW i \in 1 .. n
       PROVE  /\ arrays.offsets[i - 1] <= arrays.offsets[i]
              /\ arrays.offsets[i] <= Len(arrays.cells)
              /\ Row(arrays, i) = rows[i]
  <2>1. rows[i] \in Seq(Cell) /\ Len(rows[i]) \in Nat
    BY <1>2, LenProperties
  <2>2. i \in 0 .. n /\ i - 1 \in 0 .. n /\ (i - 1) + 1 = i
    OBVIOUS
  <2>3. PICK lo \in Nat, hi \in Nat : lo = b.offsets[i] /\ hi = b.offsets[i + 1]
    BY <1>11, <2>2
  <2>4. hi = lo + Len(rows[i]) /\ hi <= Len(b.cells)
    BY <1>10, <2>3
  <2>5. \A idx \in lo + 1 .. hi : b.cells[idx] \in Cell
    <3> SUFFICES ASSUME NEW idx \in lo + 1 .. hi PROVE b.cells[idx] \in Cell
      OBVIOUS
    <3>1. idx \in 1 .. Len(b.cells)
      BY <1>9, <2>4
    <3> QED BY <1>9, <3>1, ElementOfSeq
  <2>6. lo <= hi
    BY <2>1, <2>4
  <2> DEFINE row == SubSeq(b.cells, lo + 1, hi)
  <2>7. /\ row \in Seq(Cell) /\ Len(row) = hi - lo
        /\ \A q \in 1 .. Len(row) : row[q] = b.cells[lo + q]
    <3>1. PICK s \in Seq(Cell) : s = b.cells
      BY <1>9
    <3>2. \A idx \in lo + 1 .. hi : s[idx] \in Cell
      BY <2>5, <3>1
    <3>3. /\ SubSeq(s, lo + 1, hi) \in Seq(Cell)
          /\ Len(SubSeq(s, lo + 1, hi)) = hi - lo
          /\ \A q \in 1 .. Len(SubSeq(s, lo + 1, hi)) :
                SubSeq(s, lo + 1, hi)[q] = s[lo + q]
      BY <2>6, <3>2, Slice
    <3> QED BY <3>1, <3>3
  <2>8. Row(arrays, i) = row
    BY <1>8, <1>13, <2>3 DEF Row
  <2> HIDE DEF row
  <2>9. Len(row) = Len(rows[i])
    BY <2>1, <2>4, <2>7
  <2>10. \A q \in 1 .. Len(row) : row[q] = rows[i][q]
    BY <1>10, <2>3, <2>7, <2>9
  <2>11. row = rows[i]
    BY <2>1, <2>7, <2>9, <2>10, SeqEqual
  <2> QED BY <1>8, <1>13, <2>3, <2>4, <2>6, <2>8, <2>11
<1>16. ASSUME NEW k \in 1 .. Len(arrays.cells)
       PROVE  \E i \in 1 .. n : arrays.cells[k] \in ToSet(rows[i])
  <2>1. PICK j \in 1 .. n : \E q \in 1 .. Len(rows[j]) : b.cells[k] = rows[j][q]
    BY <1>8, <1>10
  <2>2. DOMAIN rows[j] = 1 .. Len(rows[j])
    BY <1>2, LenProperties
  <2> QED BY <1>8, <2>1, <2>2 DEF ToSet
<1> QED BY <1>2, <1>8, <1>9, <1>12, <1>14, <1>15, <1>16 DEF arrays

\* finalize() builds arrays that fit the vertices.
LEMMA BuiltArraysFit ==
  ASSUME NEW n \in Nat, NEW edges \in Seq(StagedEdge(n))
  PROVE  /\ WellFormedArrays(n, BuildCSR(n, edges))
         /\ \A k \in 1 .. Len(BuildCSR(n, edges).cells) :
               BuildCSR(n, edges).cells[k].dst \in 1 .. n
<1> DEFINE arrays == BuildCSR(n, edges)
<1>1. /\ arrays.cells \in Seq(Cell)
      /\ arrays.offsets \in [0 .. n -> Nat]
      /\ arrays.offsets[0] = 0 /\ arrays.offsets[n] = Len(arrays.cells)
      /\ \A i \in 1 .. n : /\ arrays.offsets[i - 1] <= arrays.offsets[i]
                           /\ Row(arrays, i) = BuiltRow(n, edges, i)
      /\ \A k \in 1 .. Len(arrays.cells) :
            \E i \in 1 .. n : arrays.cells[k] \in ToSet(BuiltRow(n, edges, i))
  BY BuiltArrays
<1> HIDE DEF arrays
<1>2. \A i \in 1 .. n : /\ BuiltRow(n, edges, i) \in Seq(Cell)
                        /\ Ascending(BuiltRow(n, edges, i))
                        /\ ToSet(BuiltRow(n, edges, i))
                             = LeastCells({CellOf(edges[k]) : k \in From(edges, i)})
  BY BuiltRowIs
<1>3. \A i \in 1 .. n : \A j, k \in DOMAIN Row(arrays, i) :
        j < k => Row(arrays, i)[j].dst < Row(arrays, i)[k].dst
  <2> SUFFICES ASSUME NEW i \in 1 .. n
               PROVE  \A j, k \in DOMAIN Row(arrays, i) :
                        j < k => Row(arrays, i)[j].dst < Row(arrays, i)[k].dst
    OBVIOUS
  <2>1. DOMAIN Row(arrays, i) = 1 .. Len(Row(arrays, i)) /\ Ascending(Row(arrays, i))
    BY <1>1, <1>2, LenProperties
  <2> QED BY <2>1 DEF Ascending
<1>4. WellFormedArrays(n, arrays)
  BY <1>1, <1>3 DEF WellFormedArrays
<1>5. ASSUME NEW k \in 1 .. Len(arrays.cells) PROVE arrays.cells[k].dst \in 1 .. n
  <2>1. PICK i \in 1 .. n : arrays.cells[k] \in ToSet(BuiltRow(n, edges, i))
    BY <1>1
  <2>2. arrays.cells[k] \in {CellOf(edges[e]) : e \in From(edges, i)}
    BY <1>2, <2>1 DEF LeastCells
  <2>3. PICK e \in 1 .. Len(edges) : arrays.cells[k] = CellOf(edges[e])
    BY <2>2, StagedEdges DEF From
  <2> QED BY <2>3, StagedEdges DEF CellOf
<1> QED BY <1>4, <1>5 DEF arrays

\* Of each pair of ids it serves the staged edge with the least weight.
LEMMA BuiltArraysServe ==
  ASSUME NEW n \in Nat, NEW edges \in Seq(StagedEdge(n))
  PROVE  EdgesOf(n, BuildCSR(n, edges)) = LeastEdges(ToSet(edges))
<1> DEFINE arrays == BuildCSR(n, edges)
           EdgeOf(i, c) == [src |-> i, dst |-> c.dst, weight |-> c.weight]
           All == ToSet(edges)
           CellsFrom(i) == {CellOf(edges[k]) : k \in From(edges, i)}
<1>1. \A i \in 1 .. n : Row(arrays, i) = BuiltRow(n, edges, i)
  BY BuiltArrays
<1>2. \A i \in 1 .. n : ToSet(BuiltRow(n, edges, i)) = LeastCells(CellsFrom(i))
  BY BuiltRowIs
<1>3. EdgesOf(n, arrays) = UNION {{EdgeOf(i, c) : c \in ToSet(Row(arrays, i))} : i \in 1 .. n}
  BY DEF EdgesOf
<1>4. DOMAIN edges = 1 .. Len(edges) /\ \A k \in DOMAIN edges : edges[k] \in StagedEdge(n)
  BY LenProperties, ElementOfSeq
<1>5. \A e \in All : e \in StagedEdge(n)
  BY <1>4 DEF ToSet
<1>6. \A i : \A c \in CellsFrom(i) : EdgeOf(i, c) \in All
  <2> SUFFICES ASSUME NEW i, NEW k \in From(edges, i)
               PROVE  EdgeOf(i, CellOf(edges[k])) \in All
    OBVIOUS
  <2>1. k \in DOMAIN edges /\ edges[k].src = i /\ edges[k] \in StagedEdge(n)
    BY <1>4 DEF From
  <2>2. EdgeOf(i, CellOf(edges[k])) = edges[k]
    BY <2>1 DEF CellOf, StagedEdge
  <2> QED BY <2>1, <2>2 DEF ToSet
<1>7. \A e \in All : CellOf(e) \in CellsFrom(e.src) /\ e = EdgeOf(e.src, CellOf(e))
  <2> SUFFICES ASSUME NEW e \in All
               PROVE  CellOf(e) \in CellsFrom(e.src) /\ e = EdgeOf(e.src, CellOf(e))
    OBVIOUS
  <2>1. PICK k \in DOMAIN edges : e = edges[k]
    BY DEF ToSet
  <2>2. k \in From(edges, e.src)
    BY <2>1 DEF From
  <2>3. e = EdgeOf(e.src, CellOf(e))
    BY <1>5 DEF CellOf, StagedEdge
  <2> QED BY <2>1, <2>2, <2>3
<1> HIDE DEF arrays, All, CellsFrom
<1>8. ASSUME NEW e \in EdgesOf(n, arrays) PROVE e \in LeastEdges(All)
  <2>1. PICK i \in 1 .. n : \E c \in ToSet(Row(arrays, i)) : e = EdgeOf(i, c)
    BY <1>3
  <2>2. PICK c \in LeastCells(CellsFrom(i)) : e = EdgeOf(i, c)
    BY <1>1, <1>2, <2>1
  <2>3. c \in CellsFrom(i) /\ \A d \in CellsFrom(i) : d.dst = c.dst => c.weight <= d.weight
    BY DEF LeastCells
  <2>4. e \in All /\ e.src = i /\ e.dst = c.dst /\ e.weight = c.weight
    BY <1>6, <2>2, <2>3
  <2>5. ASSUME NEW f \in All, f.src = e.src, f.dst = e.dst PROVE e.weight <= f.weight
    <3>1. CellOf(f) \in CellsFrom(i)
      BY <1>7, <2>4, <2>5
    <3>2. CellOf(f).dst = f.dst /\ CellOf(f).weight = f.weight
      BY DEF CellOf
    <3> QED BY <2>3, <2>4, <2>5, <3>1, <3>2
  <2> QED BY <2>4, <2>5 DEF LeastEdges
<1>9. ASSUME NEW e \in LeastEdges(All) PROVE e \in EdgesOf(n, arrays)
  <2>1. e \in All /\ \A f \in All : f.src = e.src /\ f.dst = e.dst => e.weight <= f.weight
    BY DEF LeastEdges
  <2>2. e.src \in 1 .. n
    BY <1>5, <2>1 DEF StagedEdge
  <2>3. CellOf(e) \in CellsFrom(e.src) /\ e = EdgeOf(e.src, CellOf(e))
    BY <1>7, <2>1
  <2>4. ASSUME NEW d \in CellsFrom(e.src), d.dst = CellOf(e).dst
        PROVE  CellOf(e).weight <= d.weight
    <3>1. EdgeOf(e.src, d) \in All
      BY <1>6
    <3>2. CellOf(e).dst = e.dst /\ CellOf(e).weight = e.weight
      BY DEF CellOf
    <3>3. e.weight <= EdgeOf(e.src, d).weight
      BY <2>1, <2>4, <3>1, <3>2
    <3> QED BY <3>2, <3>3
  <2>5. CellOf(e) \in LeastCells(CellsFrom(e.src))
    BY <2>3, <2>4 DEF LeastCells
  <2>6. CellOf(e) \in ToSet(Row(arrays, e.src))
    BY <1>1, <1>2, <2>2, <2>5
  <2> QED BY <1>3, <2>2, <2>3, <2>6
<1> QED BY <1>8, <1>9 DEF arrays, All

-----------------------------------------------------------------------------
(* The binary search.                                                      *)

\* Of an ascending row the cells before d come first.
LEMMA CellsBefore ==
  ASSUME NEW row \in Seq(Cell), Ascending(row), NEW d \in Nat
  PROVE  \E l \in 0 .. Len(row) : \A p \in 1 .. Len(row) : row[p].dst < d <=> p <= l
<1> DEFINE m == Len(row)
           T == {l \in 0 .. m : \A p \in 1 .. m : row[p].dst < d => p <= l}
<1>1. m \in Nat /\ \A p \in 1 .. m : row[p].dst \in Nat
  <2>1. m \in Nat /\ \A p \in 1 .. m : row[p] \in Cell
    BY LenProperties, ElementOfSeq
  <2> QED BY <2>1 DEF Cell
<1>2. \A p, q \in 1 .. m : p < q => row[p].dst < row[q].dst
  BY DEF Ascending
<1> HIDE DEF m
<1>3. m \in T /\ T \subseteq Nat
  BY <1>1
<1>4. PICK l \in T : \A k \in T : l <= k
  <2> HIDE DEF T
  <2> QED BY <1>3, LeastNatural
<1>5. ASSUME NEW p \in 1 .. m, p <= l PROVE row[p].dst < d
  <2>1. l \in 1 .. m /\ l - 1 \notin T
    BY <1>1, <1>4, <1>5
  <2>2. PICK q \in 1 .. m : row[q].dst < d /\ ~(q <= l - 1)
    BY <1>1, <2>1
  <2>3. q = l
    BY <1>4, <2>1, <2>2
  <2>4. CASE p = l
    BY <2>2, <2>3, <2>4
  <2>5. CASE p # l
    <3>1. row[p].dst < row[l].dst
      BY <1>2, <1>5, <2>1, <2>5
    <3> QED BY <1>1, <2>1, <2>2, <2>3, <3>1
  <2> QED BY <2>4, <2>5
<1> QED BY <1>4, <1>5 DEF m

\* l, moved into first .. first + count.
Clamp(l, first, count) ==
  IF l < first THEN first ELSE IF l > first + count THEN first + count ELSE l

\* search holds, for parts of less than count cells, where l falls in them.
Solved(row, l, count, search) ==
  \A c \in 0 .. count - 1 : \A f \in 0 .. Len(row) - c : search[c][f] = Clamp(l, f, c)

\* One halving.
Halved(row, d, search, count, first) ==
  IF count = 0 THEN first
  ELSE IF row[first + (count \div 2) + 1].dst < d
         THEN search[count - (count \div 2) - 1][first + (count \div 2) + 1]
         ELSE search[count \div 2][first]

LEMMA Halves ==
  ASSUME NEW m \in Nat, NEW count \in 1 .. m, NEW first \in 0 .. m - count
  PROVE  /\ count \div 2 \in 0 .. count - 1
         /\ count - (count \div 2) - 1 \in 0 .. count - 1
         /\ first + (count \div 2) + 1 \in 1 .. m
         /\ first + (count \div 2) + 1 \in 0 .. m - (count - (count \div 2) - 1)
         /\ first \in 0 .. m - (count \div 2)
<1>1. PICK h \in Int : h = count \div 2 /\ 0 <= h /\ h < count
  OBVIOUS
<1> QED BY <1>1

\* Halving moves the number of cells before d into the part searched.
LEMMA HalvingClamps ==
  ASSUME NEW row \in Seq(Cell), NEW d \in Nat, NEW l \in 0 .. Len(row),
         \A p \in 1 .. Len(row) : row[p].dst < d <=> p <= l,
         NEW count \in 0 .. Len(row), NEW first \in 0 .. Len(row) - count,
         NEW search, Solved(row, l, count, search)
  PROVE  Halved(row, d, search, count, first) = Clamp(l, first, count)
<1>1. PICK m \in Nat : m = Len(row)
  BY LenProperties
<1>2. CASE count = 0
  BY <1>1, <1>2 DEF Halved, Clamp
<1>3. CASE count # 0
  <2>1. count \in 1 .. m /\ first \in 0 .. m - count
    BY <1>1, <1>3
  <2>2. PICK h \in Nat : h = count \div 2
    BY <2>1, Halves
  <2>3. /\ h \in 0 .. count - 1 /\ count - h - 1 \in 0 .. count - 1
        /\ first + h + 1 \in 1 .. m /\ first + h + 1 \in 0 .. m - (count - h - 1)
        /\ first \in 0 .. m - h
    BY <2>1, <2>2, Halves
  <2>4. Halved(row, d, search, count, first)
          = IF row[first + h + 1].dst < d
              THEN search[count - h - 1][first + h + 1]
              ELSE search[h][first]
    BY <1>3, <2>2 DEF Halved
  <2>5. row[first + h + 1].dst < d <=> first + h + 1 <= l
    BY <1>1, <2>3
  <2>6. /\ search[count - h - 1][first + h + 1] = Clamp(l, first + h + 1, count - h - 1)
        /\ search[h][first] = Clamp(l, first, h)
    BY <1>1, <2>3 DEF Solved
  <2>7. first + h + 1 <= l => Clamp(l, first + h + 1, count - h - 1) = Clamp(l, first, count)
    BY <1>1, <2>1, <2>3 DEF Clamp
  <2>8. ~(first + h + 1 <= l) => Clamp(l, first, h) = Clamp(l, first, count)
    BY <1>1, <2>1, <2>3 DEF Clamp
  <2> QED BY <2>4, <2>5, <2>6, <2>7, <2>8
<1> QED BY <1>2, <1>3

LEMMA LowerBoundCounts ==
  ASSUME NEW row \in Seq(Cell), NEW d \in Nat, NEW l \in 0 .. Len(row),
         \A p \in 1 .. Len(row) : row[p].dst < d <=> p <= l
  PROVE  LowerBoundInRow(row, d) = l
<1> DEFINE m == Len(row)
           Turn(f) == [count \in 0 .. m |-> [first \in 0 .. m - count |->
                         Halved(row, d, f, count, first)]]
           o == CHOOSE f : f = Turn(f)
           g == [count \in 0 .. m |-> [first \in 0 .. m - count |-> Clamp(l, first, count)]]
<1>1. m \in Nat
  BY LenProperties
<1>2. LowerBoundInRow(row, d) = o[m][0]
  BY DEF LowerBoundInRow, Halved
<1>3. g = Turn(g)
  <2>1. \A c \in 0 .. m : \A f \in 0 .. m - c : g[c][f] = Clamp(l, f, c)
    OBVIOUS
  <2> HIDE DEF g
  <2>2. ASSUME NEW count \in 0 .. m, NEW first \in 0 .. m - count
        PROVE  Halved(row, d, g, count, first) = Clamp(l, first, count)
    <3>1. \A c \in 0 .. count - 1 : c \in 0 .. m
      BY <1>1
    <3>2. Solved(row, l, count, g)
      BY <2>1, <3>1 DEF Solved
    <3> HIDE DEF Turn
    <3> QED BY <3>2, HalvingClamps
  <2>3. g = [count \in 0 .. m |-> [first \in 0 .. m - count |-> Clamp(l, first, count)]]
    BY DEF g
  <2> QED BY <2>2, <2>3
<1>4. o = Turn(o)
  <2> HIDE DEF Turn, g
  <2> QED BY <1>3
<1> HIDE DEF o
<1>5. ASSUME NEW c \in 0 .. m, NEW f \in 0 .. m - c
      PROVE  o[c][f] = Halved(row, d, o, c, f)
  <2>1. o[c] = [first \in 0 .. m - c |-> Halved(row, d, o, c, first)]
    BY <1>4
  <2> QED BY <2>1
<1> DEFINE Known(c) == \A f \in 0 .. m - c : o[c][f] = Clamp(l, f, c)
           S == {c \in 0 .. m : \A b \in 0 .. c : Known(b)}
<1>6. ASSUME NEW c \in 0 .. m, \A b \in 0 .. c - 1 : Known(b) PROVE Known(c)
  <2> SUFFICES ASSUME NEW f \in 0 .. m - c PROVE o[c][f] = Clamp(l, f, c)
    OBVIOUS
  <2>1. Solved(row, l, c, o)
    BY <1>6 DEF Solved
  <2> HIDE DEF Turn, g, Known, S
  <2>2. Halved(row, d, o, c, f) = Clamp(l, f, c)
    BY <2>1, HalvingClamps
  <2> QED BY <1>5, <2>2
<1>7. 0 \in S
  <2>1. 0 \in 0 .. m /\ 0 .. 0 - 1 = {} /\ 0 .. 0 = {0}
    BY <1>1
  <2>2. Known(0)
    <3> HIDE DEF Known
    <3> QED BY <1>6, <2>1
  <2> HIDE DEF Known
  <2> QED BY <2>1, <2>2
<1>8. ASSUME NEW c \in 1 .. m, c - 1 \in S PROVE c \in S
  <2>1. c \in 0 .. m /\ \A b \in 0 .. c : b = c \/ b \in 0 .. c - 1
    BY <1>1
  <2> HIDE DEF Known
  <2>2. Known(c)
    BY <1>6, <1>8, <2>1
  <2> QED BY <1>8, <2>1, <2>2
<1>9. 0 .. m \subseteq S
  <2> HIDE DEF S
  <2> QED BY <1>1, <1>7, <1>8, BoundedInduction
<1>10. o[m][0] = Clamp(l, 0, m)
  <2>1. m \in 0 .. m /\ 0 \in 0 .. m - m
    BY <1>1
  <2>2. Known(m)
    BY <1>9, <2>1
  <2> QED BY <2>1, <2>2
<1> QED BY <1>1, <1>2, <1>10 DEF Clamp

\* On an ascending row the binary search finds what is there.
LEMMA BinarySearchFinds ==
  ASSUME NEW row \in Seq(Cell), Ascending(row), NEW d \in Nat
  PROVE  BinarySearch(row, d) <=> \E p \in 1 .. Len(row) : row[p].dst = d
<1> DEFINE m == Len(row)
<1>1. m \in Nat /\ \A p \in 1 .. m : row[p].dst \in Nat
  <2>1. m \in Nat /\ \A p \in 1 .. m : row[p] \in Cell
    BY LenProperties, ElementOfSeq
  <2> QED BY <2>1 DEF Cell
<1>2. PICK l \in 0 .. m : \A p \in 1 .. m : row[p].dst < d <=> p <= l
  BY CellsBefore
<1>3. LowerBoundInRow(row, d) = l
  BY <1>2, LowerBoundCounts
<1>4. BinarySearch(row, d) <=> l < m /\ row[l + 1].dst = d
  BY <1>3 DEF BinarySearch
<1>5. ASSUME NEW p \in 1 .. m, row[p].dst = d PROVE l < m /\ row[l + 1].dst = d
  <2>1. l < p
    BY <1>1, <1>2, <1>5
  <2>2. l + 1 \in 1 .. m
    BY <1>1, <1>2, <2>1
  <2>3. ~(row[l + 1].dst < d)
    BY <1>2, <2>2
  <2>4. l + 1 < p => row[l + 1].dst < row[p].dst
    BY <2>2 DEF Ascending
  <2>5. l + 1 = p
    BY <1>5, <2>1, <2>3, <2>4
  <2> QED BY <1>5, <2>2, <2>5
<1>6. l < m /\ row[l + 1].dst = d => \E p \in 1 .. m : row[p].dst = d
  <2> SUFFICES ASSUME l < m PROVE l + 1 \in 1 .. m
    OBVIOUS
  <2> QED BY <1>1, <1>2
<1> QED BY <1>4, <1>5, <1>6

-----------------------------------------------------------------------------
(* The inductive invariant.                                                *)

Reversed(e) == [src |-> e.dst, dst |-> e.src, weight |-> e.weight]
Symmetric(edges) == \A e \in edges : Reversed(e) \in edges

\* The two maps are inverse to each other.
MapsInverse(reg) ==
  /\ reg.reverseIdMap \in Seq(Vertex)
  /\ reg.idMap \in [DOMAIN reg.idMap -> 1 .. Len(reg.reverseIdMap)]
  /\ \A x \in DOMAIN reg.idMap : x \in Vertex /\ reg.reverseIdMap[reg.idMap[x]] = x
  /\ \A i \in 1 .. Len(reg.reverseIdMap) :
        reg.reverseIdMap[i] \in DOMAIN reg.idMap /\ reg.idMap[reg.reverseIdMap[i]] = i

\* Arrays on n vertices that finalize() may have built.
FitArrays(n, arrays) ==
  /\ WellFormedArrays(n, arrays)
  /\ arrays.offsets \in [0 .. n -> Nat]
  /\ arrays.cells \in Seq(Cell)
  /\ \A k \in 1 .. Len(arrays.cells) : arrays.cells[k].dst \in 1 .. n
  /\ \A i \in 1 .. n :
        /\ Row(arrays, i) \in Seq(Cell) /\ Ascending(Row(arrays, i))
        /\ arrays.offsets[i - 1] <= arrays.offsets[i]
        /\ arrays.offsets[i] <= Len(arrays.cells)
        /\ Len(Row(arrays, i)) = arrays.offsets[i] - arrays.offsets[i - 1]
        /\ \A q \in 1 .. Len(Row(arrays, i)) :
              Row(arrays, i)[q] = arrays.cells[arrays.offsets[i - 1] + q]

IInv ==
  /\ isDirected \in BOOLEAN /\ isFinalized \in BOOLEAN /\ buildOnce \in BOOLEAN
  /\ MapsInverse(Registry)
  /\ edgeBuffer \in Seq(StagedEdge(NumVertices))
  /\ ~isDirected => Symmetric(ToSet(edgeBuffer))
  /\ isFinalized => /\ edgeBuffer = << >>
                    /\ FitArrays(NumVertices, csr)
                    /\ ~isDirected => Symmetric(EdgesOf(NumVertices, csr))

\* A registration keeps the vertices there are and adds the new one.
LEMMA RegisteredVertex ==
  ASSUME NEW reg, MapsInverse(reg), NEW x \in Vertex
  PROVE  LET new == Registered(reg, x)
         IN  /\ MapsInverse(new)
             /\ DOMAIN new.idMap = DOMAIN reg.idMap \cup {x}
             /\ Len(reg.reverseIdMap) <= Len(new.reverseIdMap)
             /\ \A i \in 1 .. Len(reg.reverseIdMap) :
                   new.reverseIdMap[i] = reg.reverseIdMap[i]
             /\ \A y \in DOMAIN reg.idMap : new.idMap[y] = reg.idMap[y]
<1> DEFINE new == Registered(reg, x)
           ids == reg.idMap
           verts == reg.reverseIdMap
           m == Len(verts)
<1>1. /\ verts \in Seq(Vertex) /\ m \in Nat
      /\ ids \in [DOMAIN ids -> 1 .. m]
      /\ \A y \in DOMAIN ids : y \in Vertex /\ verts[ids[y]] = y
      /\ \A i \in 1 .. m : verts[i] \in DOMAIN ids /\ ids[verts[i]] = i
  BY LenProperties DEF MapsInverse
<1>2. CASE x \in DOMAIN ids
  <2>1. new = reg
    BY <1>2 DEF Registered
  <2> QED BY <1>1, <1>2, <2>1
<1>3. CASE x \notin DOMAIN ids
  <2> DEFINE newIds == [y \in DOMAIN ids \cup {x} |-> IF y = x THEN m + 1 ELSE ids[y]]
             newVerts == Append(verts, x)
  <2>1. new = [idMap |-> newIds, reverseIdMap |-> newVerts]
    BY <1>3 DEF Registered
  <2>2. new.idMap = newIds /\ new.reverseIdMap = newVerts
    BY <2>1
  <2> HIDE DEF ids, verts, m
  <2>3. /\ newVerts \in Seq(Vertex) /\ Len(newVerts) = m + 1
        /\ \A i \in 1 .. m : newVerts[i] = verts[i]
        /\ newVerts[m + 1] = x
    BY <1>1, AppendProperties DEF m
  <2>4. /\ DOMAIN newIds = DOMAIN ids \cup {x}
        /\ \A y \in DOMAIN ids : newIds[y] = ids[y]
        /\ newIds[x] = m + 1
        /\ newIds = [y \in DOMAIN newIds |-> newIds[y]]
    BY <1>3
  <2> HIDE DEF newIds, newVerts, new
  <2>5. \A y \in DOMAIN newIds : newIds[y] \in 1 .. m + 1
    BY <1>1, <2>4
  <2>6. newIds \in [DOMAIN newIds -> 1 .. Len(newVerts)]
    BY <2>3, <2>4, <2>5
  <2>7. \A y \in DOMAIN newIds : y \in Vertex /\ newVerts[newIds[y]] = y
    <3> SUFFICES ASSUME NEW y \in DOMAIN newIds
                 PROVE  y \in Vertex /\ newVerts[newIds[y]] = y
      OBVIOUS
    <3>1. CASE y = x
      BY <2>3, <2>4, <3>1
    <3>2. CASE y \in DOMAIN ids
      <4>1. ids[y] \in 1 .. m
        BY <1>1, <3>2
      <4> QED BY <1>1, <2>3, <2>4, <3>2, <4>1
    <3> QED BY <2>4, <3>1, <3>2
  <2>8. \A i \in 1 .. Len(newVerts) : newVerts[i] \in DOMAIN newIds /\ newIds[newVerts[i]] = i
    <3> SUFFICES ASSUME NEW i \in 1 .. m + 1
                 PROVE  newVerts[i] \in DOMAIN newIds /\ newIds[newVerts[i]] = i
      BY <2>3
    <3>1. CASE i = m + 1
      BY <2>3, <2>4, <3>1
    <3>2. CASE i \in 1 .. m
      BY <1>1, <2>3, <2>4, <3>2
    <3>3. i = m + 1 \/ i \in 1 .. m
      BY <1>1
    <3> QED BY <3>1, <3>2, <3>3
  <2>9. MapsInverse(new)
    BY <2>2, <2>3, <2>6, <2>7, <2>8 DEF MapsInverse
  <2>10. m <= Len(newVerts)
    BY <1>1, <2>3
  <2> QED BY <2>2, <2>3, <2>4, <2>9, <2>10 DEF ids, verts, m, new
<1> QED BY <1>2, <1>3

\* An edge between registered vertices is one after more were registered.
LEMMA StagedEdgesGrow ==
  ASSUME NEW m \in Nat, NEW n \in Nat, m <= n
  PROVE  StagedEdge(m) \subseteq StagedEdge(n) /\ Seq(StagedEdge(m)) \subseteq Seq(StagedEdge(n))
<1>1. 1 .. m \subseteq 1 .. n
  OBVIOUS
<1>2. StagedEdge(m) \subseteq StagedEdge(n)
  BY <1>1 DEF StagedEdge
<1> QED BY <1>2, SeqMonotonic

\* The staged edges of a call.
LEMMA StagedIs ==
  ASSUME NEW n \in Nat, NEW i \in 1 .. n, NEW j \in 1 .. n, NEW w \in Nat
  PROVE  LET forward == [src |-> i, dst |-> j, weight |-> w]
             staged == Staged(i, j, w)
         IN  /\ staged \in Seq(StagedEdge(n))
             /\ ToSet(staged) = {forward} \cup IF isDirected THEN {} ELSE {Reversed(forward)}
<1> DEFINE forward == [src |-> i, dst |-> j, weight |-> w]
           reverse == [src |-> j, dst |-> i, weight |-> w]
<1>1. forward \in StagedEdge(n) /\ reverse \in StagedEdge(n) /\ reverse = Reversed(forward)
  BY DEF StagedEdge, Reversed
<1>2. CASE isDirected \/ i = j
  <2>1. Staged(i, j, w) = <<forward>>
    BY <1>2 DEF Staged
  <2>2. i = j => reverse = forward
    OBVIOUS
  <2> HIDE DEF forward, reverse
  <2>3. <<forward>> \in Seq(StagedEdge(n)) /\ ToSet(<<forward>>) = {forward}
    BY <1>1 DEF ToSet
  <2> QED BY <1>1, <1>2, <2>1, <2>2, <2>3 DEF forward
<1>3. CASE ~(isDirected \/ i = j)
  <2>1. Staged(i, j, w) = <<forward, reverse>>
    BY <1>3 DEF Staged
  <2> HIDE DEF forward, reverse
  <2>2. /\ <<forward, reverse>> \in Seq(StagedEdge(n))
        /\ ToSet(<<forward, reverse>>) = {forward, reverse}
    BY <1>1 DEF ToSet
  <2> QED BY <1>1, <1>3, <2>1, <2>2 DEF forward
<1> QED BY <1>2, <1>3

LEMMA ConcatSet ==
  ASSUME NEW S, NEW s \in Seq(S), NEW t \in Seq(S)
  PROVE  s \o t \in Seq(S) /\ ToSet(s \o t) = ToSet(s) \cup ToSet(t)
<1>1. /\ Len(s) \in Nat /\ DOMAIN s = 1 .. Len(s)
      /\ Len(t) \in Nat /\ DOMAIN t = 1 .. Len(t)
  BY LenProperties
<1>2. /\ s \o t \in Seq(S) /\ Len(s \o t) = Len(s) + Len(t)
      /\ \A i \in 1 .. Len(s) + Len(t) : (s \o t)[i] = IF i <= Len(s) THEN s[i] ELSE t[i - Len(s)]
  BY ConcatProperties
<1>3. PICK u \in Seq(S) : u = s \o t
  BY <1>2
<1>4. DOMAIN u = 1 .. Len(s) + Len(t)
  BY <1>2, <1>3, LenProperties
<1>5. \A i \in 1 .. Len(s) : i \in DOMAIN u /\ u[i] = s[i]
  BY <1>1, <1>2, <1>3, <1>4
<1>6. \A i \in 1 .. Len(t) : Len(s) + i \in DOMAIN u /\ u[Len(s) + i] = t[i]
  <2> SUFFICES ASSUME NEW i \in 1 .. Len(t)
               PROVE  Len(s) + i \in DOMAIN u /\ u[Len(s) + i] = t[i]
    OBVIOUS
  <2>1. Len(s) + i \in 1 .. Len(s) + Len(t) /\ ~(Len(s) + i <= Len(s)) /\ (Len(s) + i) - Len(s) = i
    BY <1>1
  <2> QED BY <1>2, <1>3, <1>4, <2>1
<1>7. \A i \in DOMAIN u : u[i] \in ToSet(s) \cup ToSet(t)
  <2> SUFFICES ASSUME NEW i \in DOMAIN u PROVE u[i] \in ToSet(s) \cup ToSet(t)
    OBVIOUS
  <2>1. CASE i <= Len(s)
    <3>1. i \in DOMAIN s /\ u[i] = s[i]
      BY <1>1, <1>4, <1>5, <2>1
    <3> QED BY <3>1 DEF ToSet
  <2>2. CASE ~(i <= Len(s))
    <3>1. i - Len(s) \in DOMAIN t /\ u[i] = t[i - Len(s)]
      BY <1>1, <1>2, <1>3, <1>4, <2>2
    <3> QED BY <3>1 DEF ToSet
  <2> QED BY <2>1, <2>2
<1>8. ToSet(u) \subseteq ToSet(s) \cup ToSet(t)
  BY <1>7 DEF ToSet
<1>9. ToSet(s) \subseteq ToSet(u) /\ ToSet(t) \subseteq ToSet(u)
  BY <1>1, <1>5, <1>6 DEF ToSet
<1> QED BY <1>2, <1>3, <1>8, <1>9


LEMMA LeastEdgesSymmetric ==
  ASSUME NEW E, Symmetric(E), NEW n, E \subseteq StagedEdge(n)
  PROVE  Symmetric(LeastEdges(E))
<1> SUFFICES ASSUME NEW e \in LeastEdges(E) PROVE Reversed(e) \in LeastEdges(E)
  BY DEF Symmetric
<1>1. e \in E /\ \A f \in E : f.src = e.src /\ f.dst = e.dst => e.weight <= f.weight
  BY DEF LeastEdges
<1>2. Reversed(e) \in E
  BY <1>1 DEF Symmetric
<1>3. ASSUME NEW f \in E, f.src = Reversed(e).src, f.dst = Reversed(e).dst
      PROVE  Reversed(e).weight <= f.weight
  <2>1. Reversed(f) \in E
    BY DEF Symmetric
  <2>2. Reversed(f).src = e.src /\ Reversed(f).dst = e.dst /\ Reversed(f).weight = f.weight
    BY <1>3 DEF Reversed
  <2>3. Reversed(e).weight = e.weight
    BY DEF Reversed
  <2> QED BY <1>1, <2>1, <2>2, <2>3
<1> QED BY <1>2, <1>3 DEF LeastEdges

LEMMA BuiltFits ==
  ASSUME NEW n \in Nat, NEW edges \in Seq(StagedEdge(n))
  PROVE  FitArrays(n, BuildCSR(n, edges))
<1> DEFINE arrays == BuildCSR(n, edges)
<1>1. /\ WellFormedArrays(n, arrays)
      /\ \A k \in 1 .. Len(arrays.cells) : arrays.cells[k].dst \in 1 .. n
  BY BuiltArraysFit
<1>2. /\ arrays.cells \in Seq(Cell)
      /\ arrays.offsets \in [0 .. n -> Nat]
      /\ \A i \in 1 .. n : /\ arrays.offsets[i - 1] <= arrays.offsets[i]
                           /\ arrays.offsets[i] <= Len(arrays.cells)
                           /\ Row(arrays, i) = BuiltRow(n, edges, i)
  BY BuiltArrays
<1>3. \A i \in 1 .. n : BuiltRow(n, edges, i) \in Seq(Cell) /\ Ascending(BuiltRow(n, edges, i))
  BY BuiltRowIs
<1> HIDE DEF arrays
<1>4. ASSUME NEW i \in 1 .. n
      PROVE  /\ Len(Row(arrays, i)) = arrays.offsets[i] - arrays.offsets[i - 1]
             /\ \A q \in 1 .. Len(Row(arrays, i)) :
                   Row(arrays, i)[q] = arrays.cells[arrays.offsets[i - 1] + q]
  <2>1. i \in 0 .. n /\ i - 1 \in 0 .. n
    OBVIOUS
  <2>2. PICK lo \in Nat, hi \in Nat, s \in Seq(Cell) :
           lo = arrays.offsets[i - 1] /\ hi = arrays.offsets[i] /\ s = arrays.cells
    BY <1>2, <2>1
  <2>3. lo <= hi /\ hi <= Len(s) /\ Len(s) \in Nat
    BY <1>2, <2>2, LenProperties
  <2>4. \A idx \in lo + 1 .. hi : s[idx] \in Cell
    <3> SUFFICES ASSUME NEW idx \in lo + 1 .. hi PROVE s[idx] \in Cell
      OBVIOUS
    <3>1. idx \in 1 .. Len(s)
      BY <2>3
    <3> QED BY <3>1, ElementOfSeq
  <2>5. /\ Len(SubSeq(s, lo + 1, hi)) = hi - lo
        /\ \A q \in 1 .. Len(SubSeq(s, lo + 1, hi)) : SubSeq(s, lo + 1, hi)[q] = s[lo + q]
    BY <2>3, <2>4, Slice
  <2>6. Row(arrays, i) = SubSeq(s, lo + 1, hi)
    BY <2>2 DEF Row
  <2> QED BY <2>2, <2>5, <2>6
<1> QED BY <1>1, <1>2, <1>3, <1>4 DEF FitArrays, arrays

LEMMA InitIInv == Init => IInv
<1> SUFFICES ASSUME Init PROVE IInv
  OBVIOUS
<1>1. /\ isDirected \in BOOLEAN /\ isFinalized = FALSE /\ buildOnce \in BOOLEAN
      /\ idMap = << >> /\ reverseIdMap = << >> /\ edgeBuffer = << >>
  BY DEF Init
<1>2. MapsInverse(Registry)
  <2>1. Registry = [idMap |-> << >>, reverseIdMap |-> << >>]
    BY <1>1 DEF Registry
  <2>2. DOMAIN << >> = {} /\ Len(<< >>) = 0 /\ << >> \in Seq(Vertex)
    OBVIOUS
  <2>3. << >> \in [DOMAIN << >> -> 1 .. 0]
    OBVIOUS
  <2> QED BY <2>1, <2>2, <2>3 DEF MapsInverse
<1>3. edgeBuffer \in Seq(StagedEdge(NumVertices))
  BY <1>1, EmptySeq
<1>4. Symmetric(ToSet(edgeBuffer))
  <2>1. ToSet(edgeBuffer) = {}
    BY <1>1 DEF ToSet
  <2> QED BY <2>1 DEF Symmetric
<1> QED BY <1>1, <1>2, <1>3, <1>4 DEF IInv

LEMMA AddVertexIInv ==
  ASSUME IInv, NEW x \in Vertex, AddVertex(x)
  PROVE  IInv'
<1> DEFINE new == Registered(Registry, x)
<1>1. MapsInverse(Registry) /\ Registry.reverseIdMap = reverseIdMap /\ Registry.idMap = idMap
  BY DEF IInv, Registry
<1>2. MapsInverse(new) /\ Len(Registry.reverseIdMap) <= Len(new.reverseIdMap)
  BY <1>1, RegisteredVertex
<1>3. idMap' = new.idMap /\ reverseIdMap' = new.reverseIdMap
  BY DEF AddVertex, GetOrRegisterVertex
<1>4. /\ isDirected' = isDirected /\ isFinalized' = FALSE /\ buildOnce' = buildOnce
      /\ edgeBuffer' = edgeBuffer
  BY DEF AddVertex
<1> HIDE DEF new
<1>5. MapsInverse(Registry')
  BY <1>2, <1>3 DEF Registry, MapsInverse
<1>6. edgeBuffer' \in Seq(StagedEdge(NumVertices'))
  <2>1. NumVertices \in Nat /\ NumVertices' \in Nat /\ NumVertices <= NumVertices'
    BY <1>1, <1>2, <1>3, LenProperties DEF NumVertices, MapsInverse
  <2> QED BY <1>4, <2>1, StagedEdgesGrow DEF IInv
<1> QED BY <1>4, <1>5, <1>6 DEF IInv

LEMMA AddEdgeIInv ==
  ASSUME IInv, NEW u \in Vertex, NEW v \in Vertex, NEW w \in Nat, AddEdge(u, v, w)
  PROVE  IInv'
<1> DEFINE one == Registered(Registry, u)
           two == Registered(one, v)
           m == Len(reverseIdMap)
           n == Len(two.reverseIdMap)
           i == two.idMap[u]
           j == two.idMap[v]
           staged == Staged(i, j, w)
<1>1. MapsInverse(Registry) /\ Registry.reverseIdMap = reverseIdMap /\ Registry.idMap = idMap
  BY DEF IInv, Registry
<1>2. /\ MapsInverse(one) /\ DOMAIN one.idMap = DOMAIN idMap \cup {u}
      /\ m <= Len(one.reverseIdMap)
  BY <1>1, RegisteredVertex
<1> HIDE DEF one
<1>3. /\ MapsInverse(two) /\ DOMAIN two.idMap = DOMAIN idMap \cup {u, v}
      /\ Len(one.reverseIdMap) <= n
  <2>1. /\ MapsInverse(two) /\ DOMAIN two.idMap = DOMAIN one.idMap \cup {v}
        /\ Len(one.reverseIdMap) <= Len(two.reverseIdMap)
    BY <1>2, RegisteredVertex
  <2> HIDE DEF two
  <2>2. (DOMAIN idMap \cup {u}) \cup {v} = DOMAIN idMap \cup {u, v}
    OBVIOUS
  <2> QED BY <1>2, <2>1, <2>2
<1>4. /\ idMap' = two.idMap /\ reverseIdMap' = two.reverseIdMap
      /\ edgeBuffer' = edgeBuffer \o staged
      /\ isDirected' = isDirected /\ isFinalized' = FALSE /\ buildOnce' = buildOnce
  BY DEF AddEdge, GetOrRegisterVertex, one
<1> HIDE DEF two
<1>5. m \in Nat /\ n \in Nat /\ m <= n
  BY <1>1, <1>2, <1>3, LenProperties DEF MapsInverse
<1>6. i \in 1 .. n /\ j \in 1 .. n
  BY <1>3 DEF MapsInverse
<1> HIDE DEF i, j, n, m
<1>7. /\ staged \in Seq(StagedEdge(n))
      /\ ToSet(staged) = {[src |-> i, dst |-> j, weight |-> w]} \cup
                         IF isDirected THEN {}
                         ELSE {Reversed([src |-> i, dst |-> j, weight |-> w])}
  BY <1>5, <1>6, StagedIs
<1> HIDE DEF staged
<1>8. edgeBuffer \in Seq(StagedEdge(m)) /\ edgeBuffer \in Seq(StagedEdge(n))
  BY <1>5, StagedEdgesGrow DEF IInv, NumVertices, m
<1>9. /\ edgeBuffer \o staged \in Seq(StagedEdge(n))
      /\ ToSet(edgeBuffer \o staged) = ToSet(edgeBuffer) \cup ToSet(staged)
  BY <1>7, <1>8, ConcatSet
<1>10. MapsInverse(Registry')
  BY <1>3, <1>4 DEF Registry, MapsInverse
<1>11. edgeBuffer' \in Seq(StagedEdge(NumVertices'))
  BY <1>4, <1>9 DEF NumVertices, n
<1>12. ~isDirected => Symmetric(ToSet(edgeBuffer'))
  <2> SUFFICES ASSUME ~isDirected, NEW e \in ToSet(edgeBuffer')
               PROVE  Reversed(e) \in ToSet(edgeBuffer')
    BY DEF Symmetric
  <2>1. CASE e \in ToSet(edgeBuffer)
    BY <1>4, <1>9, <2>1 DEF IInv, Symmetric
  <2>2. CASE e \in ToSet(staged)
    <3>1. \E f \in ToSet(staged) : f = Reversed(e)
      <4>1. /\ Reversed(Reversed([src |-> i, dst |-> j, weight |-> w]))
                 = [src |-> i, dst |-> j, weight |-> w]
        BY DEF Reversed
      <4> QED BY <1>7, <2>2, <4>1
    <3> QED BY <1>4, <1>9, <3>1
  <2> QED BY <1>4, <1>9, <2>1, <2>2
<1> QED BY <1>4, <1>10, <1>11, <1>12 DEF IInv

LEMMA FinalizeIInv ==
  ASSUME IInv, Finalize
  PROVE  IInv'
<1>1. /\ isDirected' = isDirected /\ idMap' = idMap /\ reverseIdMap' = reverseIdMap
      /\ buildOnce' = buildOnce
  BY DEF Finalize
<1>2. CASE isFinalized
  <2>1. csr' = csr /\ edgeBuffer' = edgeBuffer /\ isFinalized' = isFinalized
    BY <1>2 DEF Finalize
  <2> QED BY <1>1, <2>1 DEF IInv, Registry, NumVertices
<1>3. CASE ~isFinalized
  <2>1. /\ csr' = BuildCSR(NumVertices, edgeBuffer)
        /\ edgeBuffer' = << >> /\ isFinalized' = TRUE
    BY <1>3 DEF Finalize, NumVertices
  <2>2. NumVertices \in Nat /\ edgeBuffer \in Seq(StagedEdge(NumVertices))
    BY LenProperties DEF IInv, NumVertices, Registry, MapsInverse
  <2>3. NumVertices' = NumVertices /\ Registry' = Registry
    BY <1>1 DEF NumVertices, Registry
  <2>4. FitArrays(NumVertices, csr')
    BY <2>1, <2>2, BuiltFits
  <2>5. EdgesOf(NumVertices, csr') = LeastEdges(ToSet(edgeBuffer))
    BY <2>1, <2>2, BuiltArraysServe
  <2>6. ToSet(edgeBuffer) \subseteq StagedEdge(NumVertices)
    BY <2>2, LenProperties, ElementOfSeq DEF ToSet
  <2>7. ~isDirected => Symmetric(EdgesOf(NumVertices, csr'))
    BY <2>5, <2>6, LeastEdgesSymmetric DEF IInv
  <2>8. edgeBuffer' \in Seq(StagedEdge(NumVertices)) /\ Symmetric(ToSet(edgeBuffer'))
    <3>1. ToSet(edgeBuffer') = {}
      BY <2>1 DEF ToSet
    <3> QED BY <2>1, <3>1, EmptySeq DEF Symmetric
  <2> QED BY <1>1, <2>1, <2>3, <2>4, <2>7, <2>8 DEF IInv
<1> QED BY <1>2, <1>3

LEMMA NextIInv == IInv /\ [Next]_vars => IInv'
<1> SUFFICES ASSUME IInv, [Next]_vars PROVE IInv'
  OBVIOUS
<1>1. CASE \E x \in VertexCalls : AddVertex(x)
  BY <1>1, AddVertexIInv, CSRCallsAssumption
<1>2. CASE \E c \in EdgeCalls : AddEdge(c[1], c[2], c[3])
  <2>1. PICK c \in EdgeCalls : AddEdge(c[1], c[2], c[3])
    BY <1>2
  <2>2. c[1] \in Vertex /\ c[2] \in Vertex /\ c[3] \in Nat
    BY CSRCallsAssumption
  <2> QED BY <2>1, <2>2, AddEdgeIInv
<1>3. CASE Finalize
  BY <1>3, FinalizeIInv
<1>4. CASE UNCHANGED vars
  BY <1>4 DEF vars, IInv, Registry, NumVertices
<1> QED BY <1>1, <1>2, <1>3, <1>4 DEF Next

LEMMA InductiveInvariant == Spec => []IInv
<1> QED BY InitIInv, NextIInv, PTL DEF Spec

\* Whenever the arrays are served they are those of all registered vertices,
\* however often vertices and edges were added and finalize() called.
THEOREM ArraysFitVertices == Spec => []ServedArraysFitVertices
<1>1. IInv => ServedArraysFitVertices
  <2> SUFFICES ASSUME IInv, isFinalized
               PROVE  /\ edgeBuffer = << >>
                      /\ WellFormedArrays(NumVertices, csr)
                      /\ \A k \in DOMAIN csr.cells : csr.cells[k].dst \in Ids
    BY DEF ServedArraysFitVertices
  <2>1. edgeBuffer = << >> /\ FitArrays(NumVertices, csr)
    BY DEF IInv
  <2>2. DOMAIN csr.cells = 1 .. Len(csr.cells)
    BY <2>1, LenProperties DEF FitArrays
  <2> QED BY <2>1, <2>2 DEF FitArrays, Ids
<1> QED BY <1>1, InductiveInvariant, PTL

\* finalize() serves of the staged edges the lightest of each pair.
THEOREM FinalizeServesLightest == Spec => FinalizeServesStaged
<1>1. ASSUME IInv, [Next]_vars, ~isFinalized, isFinalized'
      PROVE  Served' = LeastEdges(ToSet(edgeBuffer))
  <2>1. Finalize
    <3>1. \A x : AddVertex(x) => isFinalized' = FALSE
      BY DEF AddVertex
    <3>2. \A u, v, w : AddEdge(u, v, w) => isFinalized' = FALSE
      BY DEF AddEdge
    <3>3. UNCHANGED vars => isFinalized' = isFinalized
      BY DEF vars
    <3> QED BY <1>1, <3>1, <3>2, <3>3 DEF Next
  <2>2. /\ csr' = BuildCSR(NumVertices, edgeBuffer) /\ NumVertices' = NumVertices
    BY <1>1, <2>1 DEF Finalize, NumVertices
  <2>3. NumVertices \in Nat /\ edgeBuffer \in Seq(StagedEdge(NumVertices))
    BY <1>1, LenProperties DEF IInv, NumVertices, Registry, MapsInverse
  <2>4. EdgesOf(NumVertices, csr') = LeastEdges(ToSet(edgeBuffer))
    BY <2>2, <2>3, BuiltArraysServe
  <2> QED BY <1>1, <2>2, <2>4 DEF Served
<1>2. IInv /\ [Next]_vars =>
        [~isFinalized /\ isFinalized' => Served' = LeastEdges(ToSet(edgeBuffer))]_vars
  BY <1>1
<1> QED BY <1>2, InductiveInvariant, PTL DEF Spec, FinalizeServesStaged

-----------------------------------------------------------------------------
(* The queries.                                                            *)

\* The edge of position q in row i.
EdgeAt(arrays, i, q) ==
  [src |-> i, dst |-> Row(arrays, i)[q].dst, weight |-> Row(arrays, i)[q].weight]

LEMMA RowProperties ==
  ASSUME NEW n \in Nat, NEW arrays, FitArrays(n, arrays), NEW i \in 1 .. n
  PROVE  /\ Row(arrays, i) \in Seq(Cell) /\ Ascending(Row(arrays, i))
         /\ Len(Row(arrays, i)) \in Nat
         /\ DOMAIN Row(arrays, i) = 1 .. Len(Row(arrays, i))
         /\ \A q \in 1 .. Len(Row(arrays, i)) :
               /\ Row(arrays, i)[q] \in Cell
               /\ Row(arrays, i)[q].dst \in 1 .. n
               /\ arrays.offsets[i - 1] + q \in 1 .. Len(arrays.cells)
<1>1. /\ Row(arrays, i) \in Seq(Cell) /\ Ascending(Row(arrays, i))
      /\ arrays.offsets \in [0 .. n -> Nat] /\ arrays.cells \in Seq(Cell)
      /\ arrays.offsets[i] <= Len(arrays.cells)
      /\ Len(Row(arrays, i)) = arrays.offsets[i] - arrays.offsets[i - 1]
      /\ \A q \in 1 .. Len(Row(arrays, i)) :
            Row(arrays, i)[q] = arrays.cells[arrays.offsets[i - 1] + q]
      /\ \A k \in 1 .. Len(arrays.cells) : arrays.cells[k].dst \in 1 .. n
  BY DEF FitArrays
<1>2. Len(Row(arrays, i)) \in Nat /\ DOMAIN Row(arrays, i) = 1 .. Len(Row(arrays, i))
  BY <1>1, LenProperties
<1>3. PICK lo \in Nat, hi \in Nat, h \in Nat :
         lo = arrays.offsets[i - 1] /\ hi = arrays.offsets[i] /\ h = Len(arrays.cells)
  <2>1. i \in 0 .. n /\ i - 1 \in 0 .. n
    OBVIOUS
  <2> QED BY <1>1, <2>1, LenProperties
<1>4. ASSUME NEW q \in 1 .. Len(Row(arrays, i))
      PROVE  /\ Row(arrays, i)[q] \in Cell
             /\ Row(arrays, i)[q].dst \in 1 .. n
             /\ lo + q \in 1 .. h
  <2>1. Row(arrays, i)[q] \in Cell
    BY <1>1, ElementOfSeq
  <2>2. lo + q \in 1 .. h
    <3>1. PICK l \in Nat : l = Len(Row(arrays, i))
      BY <1>2
    <3>2. l = hi - lo /\ hi <= h
      BY <1>1, <1>3, <3>1
    <3> QED BY <3>1, <3>2
  <2> QED BY <1>1, <1>3, <2>1, <2>2
<1> QED BY <1>1, <1>2, <1>3, <1>4

\* The edges are those of the rows' positions.
LEMMA EdgesAreRows ==
  ASSUME NEW n \in Nat, NEW arrays, FitArrays(n, arrays)
  PROVE  /\ \A i \in 1 .. n : \A q \in 1 .. Len(Row(arrays, i)) :
               EdgeAt(arrays, i, q) \in EdgesOf(n, arrays)
         /\ \A e \in EdgesOf(n, arrays) :
               /\ e.src \in 1 .. n /\ e.dst \in 1 .. n /\ e \in StagedEdge(n)
               /\ \E q \in 1 .. Len(Row(arrays, e.src)) :
                     /\ e = EdgeAt(arrays, e.src, q)
                     /\ Row(arrays, e.src)[q] = [dst |-> e.dst, weight |-> e.weight]
<1>1. \A i \in 1 .. n : ToSet(Row(arrays, i))
                          = {Row(arrays, i)[q] : q \in 1 .. Len(Row(arrays, i))}
  BY RowProperties DEF ToSet
<1>2. ASSUME NEW i \in 1 .. n, NEW q \in 1 .. Len(Row(arrays, i))
      PROVE  EdgeAt(arrays, i, q) \in EdgesOf(n, arrays)
  <2>1. Row(arrays, i)[q] \in ToSet(Row(arrays, i))
    BY <1>1
  <2> QED BY <2>1 DEF EdgesOf, EdgeAt
<1>3. ASSUME NEW e \in EdgesOf(n, arrays)
      PROVE  /\ e.src \in 1 .. n /\ e.dst \in 1 .. n /\ e \in StagedEdge(n)
             /\ \E q \in 1 .. Len(Row(arrays, e.src)) :
                   /\ e = EdgeAt(arrays, e.src, q)
                   /\ Row(arrays, e.src)[q] = [dst |-> e.dst, weight |-> e.weight]
  <2>1. PICK i \in 1 .. n : \E c \in ToSet(Row(arrays, i)) :
           e = [src |-> i, dst |-> c.dst, weight |-> c.weight]
    BY DEF EdgesOf
  <2>2. PICK c \in ToSet(Row(arrays, i)) :
           e = [src |-> i, dst |-> c.dst, weight |-> c.weight]
    BY <2>1
  <2>3. PICK q \in 1 .. Len(Row(arrays, i)) : c = Row(arrays, i)[q]
    BY <1>1
  <2>4. c \in Cell /\ c.dst \in 1 .. n
    BY <2>3, RowProperties
  <2>5. e.src = i /\ e.dst = c.dst /\ e.weight = c.weight
    BY <2>2
  <2>6. c = [dst |-> e.dst, weight |-> e.weight]
    BY <2>4, <2>5 DEF Cell
  <2>7. c.weight \in Nat
    BY <2>4 DEF Cell
  <2>8. e = EdgeAt(arrays, i, q)
    BY <2>2, <2>3 DEF EdgeAt
  <2>9. e \in StagedEdge(n)
    BY <2>2, <2>4, <2>7 DEF StagedEdge
  <2> QED BY <2>3, <2>4, <2>5, <2>6, <2>8, <2>9
<1> QED BY <1>2, <1>3

\* There is one edge to a pair.
LEMMA OneEdgePerPair ==
  ASSUME NEW n \in Nat, NEW arrays, FitArrays(n, arrays),
         NEW e \in EdgesOf(n, arrays), NEW f \in EdgesOf(n, arrays),
         e.src = f.src, e.dst = f.dst
  PROVE  e = f
<1> DEFINE row == Row(arrays, e.src)
<1>1. e.src \in 1 .. n
  BY EdgesAreRows
<1>2. PICK p \in 1 .. Len(row) : e = EdgeAt(arrays, e.src, p) /\ row[p].dst = e.dst
  <2>1. PICK p \in 1 .. Len(row) : /\ e = EdgeAt(arrays, e.src, p)
                                   /\ row[p] = [dst |-> e.dst, weight |-> e.weight]
    BY EdgesAreRows
  <2>2. row[p].dst = e.dst
    BY <2>1
  <2> QED BY <2>1, <2>2
<1>3. PICK q \in 1 .. Len(row) : f = EdgeAt(arrays, e.src, q) /\ row[q].dst = f.dst
  <2>1. PICK q \in 1 .. Len(row) : /\ f = EdgeAt(arrays, e.src, q)
                                   /\ row[q] = [dst |-> f.dst, weight |-> f.weight]
    BY EdgesAreRows
  <2>2. row[q].dst = f.dst
    BY <2>1
  <2> QED BY <2>1, <2>2
<1>4. Ascending(row) /\ Len(row) \in Nat /\ row[p].dst \in Nat /\ row[q].dst \in Nat
  BY <1>1, RowProperties
<1> HIDE DEF row
<1>5. p = q
  BY <1>2, <1>3, <1>4 DEF Ascending
<1> QED BY <1>2, <1>3, <1>5

\* hasEdge finds the edges that are served.
LEMMA HasEdgeFindsServed ==
  ASSUME IInv, NEW i \in Ids, NEW j \in Ids
  PROVE  /\ HasEdge(i, j) <=> isFinalized /\ \E q \in 1 .. Len(Row(csr, i)) : Row(csr, i)[q].dst = j
         /\ HasEdge(i, j) <=> \E e \in Served : HasEdgeWithWeight(i, j, e.weight)
<1> DEFINE row == Row(csr, i)
           n == NumVertices
<1>1. CASE ~isFinalized
  BY <1>1 DEF HasEdge, HasEdgeWithWeight
<1>2. CASE isFinalized
  <2>1. n \in Nat /\ i \in 1 .. n /\ j \in 1 .. n /\ FitArrays(n, csr)
    BY <1>2, LenProperties DEF IInv, Registry, MapsInverse, NumVertices, Ids
  <2> HIDE DEF n
  <2>2. /\ row \in Seq(Cell) /\ Ascending(row) /\ DOMAIN row = 1 .. Len(row)
        /\ \A q \in 1 .. Len(row) : row[q] \in Cell
    BY <2>1, RowProperties
  <2> HIDE DEF row
  <2>3. HasEdge(i, j) <=> \E q \in 1 .. Len(row) : row[q].dst = j
    <3>1. j \in Nat
      BY <2>1
    <3>2. BinarySearch(row, j) <=> \E q \in 1 .. Len(row) : row[q].dst = j
      BY <2>2, <3>1, BinarySearchFinds
    <3> QED BY <1>2, <3>2 DEF HasEdge, row
  <2>4. ASSUME NEW q \in 1 .. Len(row), row[q].dst = j
        PROVE  \E e \in Served : HasEdgeWithWeight(i, j, e.weight)
    <3>1. EdgeAt(csr, i, q) \in EdgesOf(n, csr)
      BY <2>1, EdgesAreRows DEF row
    <3>2. EdgeAt(csr, i, q) \in Served
      BY <1>2, <3>1 DEF Served, n
    <3>3. EdgeAt(csr, i, q).weight = row[q].weight
      BY DEF EdgeAt, row
    <3>4. row[q] = [dst |-> j, weight |-> row[q].weight]
      BY <2>2, <2>4 DEF Cell
    <3>5. HasEdgeWithWeight(i, j, row[q].weight)
      BY <1>2, <2>2, <3>4 DEF HasEdgeWithWeight, row
    <3> QED BY <3>2, <3>3, <3>5
  <2>5. ASSUME NEW w, HasEdgeWithWeight(i, j, w)
        PROVE  \E q \in 1 .. Len(row) : row[q].dst = j
    <3>1. PICK q \in DOMAIN row : row[q] = [dst |-> j, weight |-> w]
      BY <2>5 DEF HasEdgeWithWeight, row
    <3> QED BY <2>2, <3>1
  <2> QED BY <1>2, <2>3, <2>4, <2>5 DEF row
<1> QED BY <1>1, <1>2

\* The degree counts the vertices that hasEdge finds.
LEMMA DegreeCounts ==
  ASSUME IInv, NEW i \in Ids
  PROVE  GetDegree(i) = Cardinality({j \in Ids : HasEdge(i, j)})
<1> DEFINE row == Row(csr, i)
           n == NumVertices
           Found == {j \in Ids : HasEdge(i, j)}
<1>1. CASE ~isFinalized
  <2>1. Found = {}
    BY <1>1 DEF HasEdge
  <2> QED BY <1>1, <2>1, FS_EmptySet DEF GetDegree
<1>2. CASE isFinalized
  <2>1. n \in Nat /\ i \in 1 .. n /\ FitArrays(n, csr) /\ Ids = 1 .. n
    BY <1>2, LenProperties DEF IInv, Registry, MapsInverse, NumVertices, Ids
  <2>2. \A j \in Ids : HasEdge(i, j) <=> \E q \in 1 .. Len(row) : row[q].dst = j
    BY <1>2, HasEdgeFindsServed
  <2> HIDE DEF n
  <2>3. /\ Len(row) \in Nat /\ Ascending(row)
        /\ \A q \in 1 .. Len(row) : row[q].dst \in 1 .. n
    BY <2>1, RowProperties
  <2>4. GetDegree(i) = Len(row)
    BY <1>2, <2>1 DEF GetDegree, FitArrays
  <2> HIDE DEF row
  <2> DEFINE f == [q \in 1 .. Len(row) |-> row[q].dst]
  <2>5. IsFiniteSet(1 .. Len(row)) /\ Cardinality(1 .. Len(row)) = Len(row)
    <3>1. \A m \in Nat : IsFiniteSet(1 .. m) /\ Cardinality(1 .. m) = m
      BY FS_Interval
    <3> QED BY <2>3, <3>1
  <2>6. \A q \in 1 .. Len(row) : f[q] \in Found
    BY <2>1, <2>2, <2>3
  <2>7. \A j \in Found : \E q \in 1 .. Len(row) : f[q] = j
    BY <2>2
  <2>8. \A p, q \in 1 .. Len(row) : f[p] = f[q] => p = q
    <3> SUFFICES ASSUME NEW p \in 1 .. Len(row), NEW q \in 1 .. Len(row), f[p] = f[q]
                 PROVE  p = q
      OBVIOUS
    <3>1. row[p].dst = row[q].dst /\ row[p].dst \in Nat
      BY <2>3
    <3> QED BY <2>3, <3>1 DEF Ascending
  <2> HIDE DEF Found
  <2>9. f \in [1 .. Len(row) -> Found]
    BY <2>6
  <2> HIDE DEF f
  <2>10. f \in Injection(1 .. Len(row), Found) /\ f \in Surjection(1 .. Len(row), Found)
    BY <2>7, <2>8, <2>9 DEF Injection, IsInjective, Surjection
  <2>11. Cardinality(Found) = Cardinality(1 .. Len(row))
    BY <2>5, <2>10, FS_Surjection
  <2> QED BY <2>4, <2>5, <2>11 DEF Found
<1> QED BY <1>1, <1>2


\* The rows hold as many edges as there are cells.
LEMMA EdgesFillCells ==
  ASSUME NEW n \in Nat, NEW arrays, FitArrays(n, arrays)
  PROVE  /\ IsFiniteSet(EdgesOf(n, arrays))
         /\ Cardinality(EdgesOf(n, arrays)) = Len(arrays.cells)
<1> DEFINE E == EdgesOf(n, arrays)
           off == arrays.offsets
           row == [i \in 1 .. n |-> Row(arrays, i)]
           place(e) == CHOOSE q \in 1 .. Len(row[e.src]) : e = EdgeAt(arrays, e.src, q)
           f == [e \in E |-> off[e.src - 1] + place(e)]
<1>1. PICK h \in Nat : h = Len(arrays.cells)
  BY LenProperties DEF FitArrays
<1>2. /\ \A i \in 0 .. n : off[i] \in Nat
      /\ off[0] = 0 /\ off[n] = h
      /\ \A i \in 1 .. n : off[i - 1] <= off[i] /\ Len(row[i]) = off[i] - off[i - 1]
  BY <1>1 DEF FitArrays, WellFormedArrays
<1>3. \A i \in 1 .. n : \A q \in 1 .. Len(row[i]) : off[i - 1] + q \in 1 .. h
  BY <1>1, RowProperties
<1>4. \A i \in 1 .. n : \A q \in 1 .. Len(row[i]) : EdgeAt(arrays, i, q) \in E
  BY EdgesAreRows
<1>5. \A e \in E : /\ e.src \in 1 .. n
                   /\ \E q \in 1 .. Len(row[e.src]) : e = EdgeAt(arrays, e.src, q)
  <2> SUFFICES ASSUME NEW e \in E
               PROVE  /\ e.src \in 1 .. n
                      /\ \E q \in 1 .. Len(row[e.src]) : e = EdgeAt(arrays, e.src, q)
    OBVIOUS
  <2>1. /\ e.src \in 1 .. n
        /\ \E q \in 1 .. Len(Row(arrays, e.src)) : e = EdgeAt(arrays, e.src, q)
    <3>1. e \in EdgesOf(n, arrays)
      OBVIOUS
    <3>2. PICK q \in 1 .. Len(Row(arrays, e.src)) :
             /\ e = EdgeAt(arrays, e.src, q)
             /\ Row(arrays, e.src)[q] = [dst |-> e.dst, weight |-> e.weight]
      BY <3>1, EdgesAreRows
    <3>3. e.src \in 1 .. n
      BY <3>1, EdgesAreRows
    <3> QED BY <3>2, <3>3
  <2>2. row[e.src] = Row(arrays, e.src)
    BY <2>1
  <2> QED BY <2>1, <2>2
<1>6. ASSUME NEW i \in 1 .. n, NEW p \in 1 .. Len(row[i]), NEW q \in 1 .. Len(row[i]),
             EdgeAt(arrays, i, p) = EdgeAt(arrays, i, q)
      PROVE  p = q
  <2>1. Ascending(row[i]) /\ Len(row[i]) \in Nat /\ \A k \in 1 .. Len(row[i]) : row[i][k].dst \in 1 .. n
    BY RowProperties
  <2>2. row[i][p].dst = row[i][q].dst
    BY <1>6 DEF EdgeAt
  <2>3. row[i][p].dst \in Nat /\ row[i][q].dst \in Nat
    BY <2>1
  <2> HIDE DEF row
  <2> QED BY <2>1, <2>2, <2>3 DEF Ascending
<1> HIDE DEF E, off, row
<1>7. \A e \in E : place(e) \in 1 .. Len(row[e.src]) /\ e = EdgeAt(arrays, e.src, place(e))
  BY <1>5
<1> HIDE DEF place
<1>8. \A e \in E : f[e] = off[e.src - 1] + place(e)
  OBVIOUS
<1>9. f \in [E -> 1 .. h]
  BY <1>3, <1>5, <1>7
<1> HIDE DEF f
<1> DEFINE S == {j \in 0 .. n : \A i \in 0 .. j : off[i] <= off[j]}
<1>10. 0 \in S
  BY <1>2
<1>11. ASSUME NEW j \in 1 .. n, j - 1 \in S PROVE j \in S
  <2>1. j \in 0 .. n /\ j - 1 \in 0 .. n
    OBVIOUS
  <2>2. ASSUME NEW i \in 0 .. j PROVE off[i] <= off[j]
    <3>1. CASE i = j
      BY <1>2, <2>1, <3>1
    <3>2. CASE i \in 0 .. j - 1
      <4>1. i \in 0 .. n
        BY <3>2
      <4>2. off[i] <= off[j - 1] /\ off[j - 1] <= off[j]
        BY <1>2, <1>11, <3>2
      <4> QED BY <1>2, <2>1, <4>1, <4>2
    <3> QED BY <3>1, <3>2
  <2> QED BY <2>1, <2>2
<1>12. \A i, j \in 0 .. n : i <= j => off[i] <= off[j]
  <2>1. 0 .. n \subseteq S
    <3> HIDE DEF S
    <3> QED BY <1>10, <1>11, BoundedInduction
  <2> QED BY <2>1
\* Edges of different rows, or places, go to different cells.
<1>13. ASSUME NEW i \in 1 .. n, NEW k \in 1 .. n,
              NEW p \in 1 .. Len(row[i]), NEW q \in 1 .. Len(row[k]),
              i < k
       PROVE  off[i - 1] + p < off[k - 1] + q
  <2>1. i \in 0 .. n /\ i - 1 \in 0 .. n /\ k - 1 \in 0 .. n /\ i <= k - 1
    BY <1>13
  <2>2. PICK x \in Nat, y \in Nat, z \in Nat :
           x = off[i - 1] /\ y = off[i] /\ z = off[k - 1]
    BY <1>2, <2>1
  <2>3. Len(row[i]) = y - x /\ x <= y /\ y <= z
    BY <1>2, <1>12, <2>1, <2>2
  <2>4. p \in Nat /\ q \in Nat /\ p <= y - x /\ q >= 1
    BY <2>3
  <2>5. x + p < z + q
    BY <2>3, <2>4
  <2> QED BY <2>2, <2>5
<1>14. ASSUME NEW d \in E, NEW e \in E, f[d] = f[e] PROVE d = e
  <2>1. d.src \in 1 .. n /\ e.src \in 1 .. n
    BY <1>5
  <2>2. /\ place(d) \in 1 .. Len(row[d.src]) /\ d = EdgeAt(arrays, d.src, place(d))
        /\ place(e) \in 1 .. Len(row[e.src]) /\ e = EdgeAt(arrays, e.src, place(e))
        /\ f[d] = off[d.src - 1] + place(d) /\ f[e] = off[e.src - 1] + place(e)
    BY <1>7, <1>8
  <2>3. f[d] \in Nat /\ f[e] \in Nat
    BY <1>9
  <2>4. ~(d.src < e.src) /\ ~(e.src < d.src)
    <3>1. d.src < e.src => f[d] < f[e]
      BY <1>13, <2>1, <2>2
    <3>2. e.src < d.src => f[e] < f[d]
      BY <1>13, <2>1, <2>2
    <3> QED BY <1>14, <2>3, <3>1, <3>2
  <2>5. d.src = e.src
    BY <2>1, <2>4
  <2>6. place(d) = place(e)
    <3>1. off[d.src - 1] \in Nat
      BY <1>2, <2>1
    <3>2. place(d) \in Int /\ place(e) \in Int
      BY <2>2
    <3>3. off[d.src - 1] + place(d) = off[d.src - 1] + place(e)
      BY <1>14, <2>2, <2>5
    <3>4. \A a \in Nat, b, c \in Int : a + b = a + c => b = c
      OBVIOUS
    <3> QED BY <3>1, <3>2, <3>3, <3>4
  <2> QED BY <2>2, <2>5, <2>6
<1>15. ASSUME NEW k \in 1 .. h PROVE \E e \in E : f[e] = k
  <2> DEFINE T == {i \in 0 .. n : k <= off[i]}
  <2>1. n \in T /\ T \subseteq Nat
    BY <1>2
  <2>2. PICK i \in T : \A j \in T : i <= j
    <3> HIDE DEF T
    <3> QED BY <2>1, LeastNatural
  <2>3. i \in 1 .. n /\ k <= off[i]
    BY <1>2, <2>2
  <2>4. i - 1 \in 0 .. n /\ i \in 0 .. n /\ i - 1 \notin T
    BY <2>2, <2>3
  <2>5. PICK x \in Nat, y \in Nat : x = off[i - 1] /\ y = off[i]
    BY <1>2, <2>4
  <2>6. x < k /\ k <= y /\ Len(row[i]) = y - x
    BY <1>2, <2>3, <2>4, <2>5
  <2>7. PICK q \in 1 .. Len(row[i]) : x + q = k
    <3>1. k - x \in 1 .. (y - x) /\ x + (k - x) = k
      BY <2>6
    <3> QED BY <2>6, <3>1
  <2>8. PICK e \in E : e = EdgeAt(arrays, i, q)
    BY <1>4, <2>3
  <2>9. e.src = i
    BY <2>8 DEF EdgeAt
  <2>10. place(e) = q
    BY <1>6, <1>7, <2>3, <2>8, <2>9
  <2> QED BY <1>8, <2>5, <2>7, <2>9, <2>10
<1>16. f \in Injection(E, 1 .. h) /\ f \in Surjection(E, 1 .. h)
  BY <1>9, <1>14, <1>15 DEF Injection, IsInjective, Surjection
<1>17. IsFiniteSet(1 .. h) /\ Cardinality(1 .. h) = h
  BY FS_Interval
<1>18. IsFiniteSet(E) /\ Cardinality(E) = Cardinality(1 .. h)
  BY <1>16, <1>17, FS_Injection
<1> QED BY <1>1, <1>17, <1>18 DEF E

\* Without loops a symmetric graph has two edges for each unordered pair.
LEMMA TwoEdgesPerPair ==
  ASSUME NEW n \in Nat, NEW arrays, FitArrays(n, arrays),
         Symmetric(EdgesOf(n, arrays)),
         \A e \in EdgesOf(n, arrays) : e.src # e.dst
  PROVE  Len(arrays.cells) \div 2 = Cardinality({{e.src, e.dst} : e \in EdgesOf(n, arrays)})
<1> DEFINE E == EdgesOf(n, arrays)
           Up == {e \in E : e.src < e.dst}
           Down == {e \in E : e.dst < e.src}
           Pairs == {{e.src, e.dst} : e \in E}
           r == [e \in Up |-> Reversed(e)]
           g == [e \in Up |-> {e.src, e.dst}]
<1>1. IsFiniteSet(E) /\ Cardinality(E) = Len(arrays.cells)
  BY EdgesFillCells
<1>2. \A e \in E : e.src \in Nat /\ e.dst \in Nat /\ e.src # e.dst /\ e \in StagedEdge(n)
  <2>1. \A e \in E : e.src \in 1 .. n /\ e.dst \in 1 .. n /\ e \in StagedEdge(n)
    BY EdgesAreRows
  <2> QED BY <2>1
<1>3. \A e \in E : Reversed(e) \in E
  BY DEF Symmetric
<1>4. \A d, e \in E : d.src = e.src /\ d.dst = e.dst => d = e
  BY OneEdgePerPair
<1>5. \A e \in E : Reversed(e).src = e.dst /\ Reversed(e).dst = e.src
  BY DEF Reversed
<1> HIDE DEF E
<1>6. Up \cup Down = E /\ Up \cap Down = {} /\ Up \in SUBSET E /\ Down \in SUBSET E
  BY <1>2
<1>7. IsFiniteSet(Up) /\ IsFiniteSet(Down)
  <2> HIDE DEF Up, Down
  <2> QED BY <1>1, <1>6, FS_Subset
<1>8. \A e \in Up : Reversed(e) \in Down
  BY <1>3, <1>5
<1>9. \A d, e \in Up : Reversed(d) = Reversed(e) => d = e
  BY <1>4, <1>5
<1>10. \A e \in Down : \E d \in Up : Reversed(d) = e
  <2> SUFFICES ASSUME NEW e \in Down PROVE \E d \in Up : Reversed(d) = e
    OBVIOUS
  <2>1. Reversed(e) \in Up
    BY <1>3, <1>5
  <2>2. Reversed(Reversed(e)) = e
    BY <1>3, <1>4, <1>5
  <2> QED BY <2>1, <2>2
<1>11. \A d, e \in Up : {d.src, d.dst} = {e.src, e.dst} => d = e
  <2> SUFFICES ASSUME NEW d \in Up, NEW e \in Up, {d.src, d.dst} = {e.src, e.dst}
               PROVE  d = e
    OBVIOUS
  <2>1. d.src < d.dst /\ e.src < e.dst /\ d.src \in Nat /\ d.dst \in Nat
        /\ e.src \in Nat /\ e.dst \in Nat
    BY <1>2
  <2>2. (d.src = e.src /\ d.dst = e.dst) \/ (d.src = e.dst /\ d.dst = e.src)
    BY <2>1
  <2>3. d.src = e.src /\ d.dst = e.dst
    BY <2>1, <2>2
  <2> QED BY <1>4, <2>3
<1>12. \A e \in E : \E d \in Up : {d.src, d.dst} = {e.src, e.dst}
  <2> SUFFICES ASSUME NEW e \in E PROVE \E d \in Up : {d.src, d.dst} = {e.src, e.dst}
    OBVIOUS
  <2>1. CASE e \in Up
    BY <2>1
  <2>2. CASE e \notin Up
    <3>1. Reversed(e) \in Up
      BY <1>2, <1>3, <1>5, <2>2
    <3>2. {Reversed(e).src, Reversed(e).dst} = {e.src, e.dst}
      BY <1>5
    <3> QED BY <3>1, <3>2
  <2> QED BY <2>1, <2>2
<1>13. \A e \in Up : {e.src, e.dst} \in Pairs
  OBVIOUS
<1>14. \A p \in Pairs : \E d \in Up : {d.src, d.dst} = p
  <2> SUFFICES ASSUME NEW p \in Pairs PROVE \E d \in Up : {d.src, d.dst} = p
    OBVIOUS
  <2>1. PICK e \in E : p = {e.src, e.dst}
    OBVIOUS
  <2> HIDE DEF Up, Pairs
  <2> QED BY <1>12, <2>1
<1> HIDE DEF Up, Down, Pairs
<1>15. Cardinality(Down) = Cardinality(Up)
  <2>1. r \in Injection(Up, Down) /\ r \in Surjection(Up, Down)
    BY <1>8, <1>9, <1>10 DEF Injection, IsInjective, Surjection
  <2> HIDE DEF r
  <2> QED BY <1>7, <2>1, FS_Surjection
<1>16. Cardinality(Pairs) = Cardinality(Up)
  <2>1. g \in Injection(Up, Pairs) /\ g \in Surjection(Up, Pairs)
    BY <1>11, <1>13, <1>14 DEF Injection, IsInjective, Surjection
  <2> HIDE DEF g
  <2> QED BY <1>7, <2>1, FS_Surjection
<1>17. Cardinality(E) = Cardinality(Up) + Cardinality(Down)
  <2>1. Cardinality(Up \cap Down) = 0
    BY <1>6, FS_EmptySet
  <2>2. Cardinality(Up \cup Down)
          = Cardinality(Up) + Cardinality(Down) - Cardinality(Up \cap Down)
    BY <1>7, FS_Union
  <2>3. PICK x \in Nat, y \in Nat : x = Cardinality(Up) /\ y = Cardinality(Down)
    BY <1>7, FS_CardinalityType
  <2>4. Cardinality(E) = x + y - 0
    BY <1>6, <2>1, <2>2, <2>3
  <2> QED BY <2>3, <2>4
<1>18. PICK c \in Nat : c = Cardinality(Up)
  BY <1>7, FS_CardinalityType
<1>19. Len(arrays.cells) = c + c /\ Cardinality(Pairs) = c
  BY <1>1, <1>15, <1>16, <1>17, <1>18
<1>20. (c + c) \div 2 = c
  OBVIOUS
<1> QED BY <1>19, <1>20 DEF Pairs, E

\* The two searches, the degree and the iteration agree in every state, and
\* numEdges() of an undirected graph counts its pairs.
THEOREM AnswersAgree == Spec => []QueriesAgree
<1>1. ASSUME IInv PROVE QueriesAgree
  <2>1. ASSUME NEW i \in Ids
        PROVE  /\ \A j \in Ids :
                     HasEdge(i, j) <=> \E e \in Served : HasEdgeWithWeight(i, j, e.weight)
               /\ GetDegree(i) = Cardinality({j \in Ids : HasEdge(i, j)})
    BY <1>1, HasEdgeFindsServed, DegreeCounts
  <2>2. ASSUME isFinalized, ~isDirected
        PROVE  /\ \A e \in Served :
                     [src |-> e.dst, dst |-> e.src, weight |-> e.weight] \in Served
               /\ (\A e \in Served : e.src # e.dst) =>
                     NumEdges = Cardinality({{e.src, e.dst} : e \in Served})
    <3>1. NumVertices \in Nat /\ FitArrays(NumVertices, csr) /\ Symmetric(Served)
      BY <1>1, <2>2, LenProperties DEF IInv, Registry, MapsInverse, NumVertices, Served
    <3>2. Served = EdgesOf(NumVertices, csr)
      BY <2>2 DEF Served
    <3>3. NumEdges = Len(csr.cells) \div 2
      BY <2>2 DEF NumEdges
    <3> QED BY <3>1, <3>2, <3>3, TwoEdgesPerPair DEF Symmetric, Reversed
  <2> QED BY <2>1, <2>2 DEF QueriesAgree
<1> QED BY <1>1, InductiveInvariant, PTL

-----------------------------------------------------------------------------
(* The refinement of SimpleGraph.                                          *)

Ends(r, e) == <<r[e.src], r[e.dst]>>

Injective(r, n) == \A i, j \in 1 .. n : r[i] = r[j] => i = j

\* f gives the weight of each edge of E by its ends.
Weighs(f, E, r) ==
  /\ f = [p \in {Ends(r, e) : e \in E} |-> f[p]]
  /\ \A e \in E : f[Ends(r, e)] = e.weight

WeightsOf(E, r) ==
  [p \in {Ends(r, e) : e \in E} |-> (CHOOSE e \in E : Ends(r, e) = p).weight]

\* Of staged edges the least to a pair is one.
LEMMA LeastIsOne ==
  ASSUME NEW n \in Nat, NEW B, B \subseteq StagedEdge(n),
         NEW d \in LeastEdges(B), NEW e \in LeastEdges(B), d.src = e.src, d.dst = e.dst
  PROVE  d = e
<1>1. d \in StagedEdge(n) /\ e \in StagedEdge(n)
  BY DEF LeastEdges
<1>2. d.weight <= e.weight /\ e.weight <= d.weight
  BY DEF LeastEdges
<1>3. d.weight \in Nat /\ e.weight \in Nat
  BY <1>1 DEF StagedEdge
<1>4. d.weight = e.weight
  BY <1>2, <1>3
<1> QED BY <1>1, <1>4 DEF StagedEdge

\* Every staged edge has a least one to its pair.
LEMMA LeastExists ==
  ASSUME NEW n \in Nat, NEW B, B \subseteq StagedEdge(n), NEW e \in B
  PROVE  \E l \in LeastEdges(B) : l.src = e.src /\ l.dst = e.dst
<1> DEFINE Same == {f \in B : f.src = e.src /\ f.dst = e.dst}
           T == {f.weight : f \in Same}
<1>1. \A f \in B : f.weight \in Nat
  BY DEF StagedEdge
<1>2. e.weight \in T /\ T \subseteq Nat
  BY <1>1
<1>3. PICK w \in T : \A x \in T : w <= x
  <2> HIDE DEF T
  <2> QED BY <1>2, LeastNatural
<1>4. PICK l \in Same : l.weight = w
  OBVIOUS
<1>5. \A f \in Same : l.weight <= f.weight
  BY <1>3, <1>4
<1>6. l \in LeastEdges(B)
  BY <1>5 DEF LeastEdges
<1> QED BY <1>6

LEMMA WeightsWeigh ==
  ASSUME NEW n \in Nat, NEW B, B \subseteq StagedEdge(n), NEW r, Injective(r, n)
  PROVE  Weighs(WeightsOf(LeastEdges(B), r), LeastEdges(B), r)
<1> DEFINE E == LeastEdges(B)
           f == WeightsOf(E, r)
<1>1. \A d, e \in E : d.src = e.src /\ d.dst = e.dst => d = e
  BY LeastIsOne
<1>2. \A e \in E : e.src \in 1 .. n /\ e.dst \in 1 .. n
  BY DEF LeastEdges, StagedEdge
<1> HIDE DEF E
<1>3. ASSUME NEW d \in E, NEW e \in E, Ends(r, d) = Ends(r, e) PROVE d = e
  <2>1. r[d.src] = r[e.src] /\ r[d.dst] = r[e.dst]
    BY <1>3 DEF Ends
  <2>2. d.src = e.src /\ d.dst = e.dst
    BY <1>2, <2>1 DEF Injective
  <2> QED BY <1>1, <2>2
<1>4. ASSUME NEW e \in E PROVE f[Ends(r, e)] = e.weight
  <2> DEFINE c == CHOOSE d \in E : Ends(r, d) = Ends(r, e)
  <2>1. c \in E /\ Ends(r, c) = Ends(r, e)
    OBVIOUS
  <2>2. c = e
    <3> HIDE DEF c
    <3> QED BY <1>3, <2>1
  <2>3. f[Ends(r, e)] = c.weight
    BY DEF WeightsOf
  <2> HIDE DEF c
  <2> QED BY <2>2, <2>3
<1>5. f = [p \in {Ends(r, e) : e \in E} |-> f[p]]
  BY DEF WeightsOf
<1> QED BY <1>4, <1>5 DEF Weighs, E

\* The same edges under more vertices weigh the same.
LEMMA WeightsStay ==
  ASSUME NEW n \in Nat, NEW B, B \subseteq StagedEdge(n), NEW r, NEW s,
         \A i \in 1 .. n : s[i] = r[i]
  PROVE  WeightsOf(LeastEdges(B), s) = WeightsOf(LeastEdges(B), r)
<1> DEFINE E == LeastEdges(B)
<1>1. \A e \in E : e.src \in 1 .. n /\ e.dst \in 1 .. n
  BY DEF LeastEdges, StagedEdge
<1> HIDE DEF E
<1>2. \A e \in E : Ends(s, e) = Ends(r, e)
  BY <1>1 DEF Ends
<1>3. {Ends(s, e) : e \in E} = {Ends(r, e) : e \in E}
  BY <1>2
<1>4. \A p : (CHOOSE e \in E : Ends(s, e) = p) = (CHOOSE e \in E : Ends(r, e) = p)
  BY <1>2
<1> DEFINE least(x, p) == CHOOSE e \in E : Ends(x, e) = p
<1>5. /\ WeightsOf(E, s) = [p \in {Ends(s, e) : e \in E} |-> least(s, p).weight]
      /\ WeightsOf(E, r) = [p \in {Ends(r, e) : e \in E} |-> least(r, p).weight]
  BY DEF WeightsOf
<1>6. \A p : least(s, p) = least(r, p)
  BY <1>4
<1> HIDE DEF least
<1>7. WeightsOf(E, s) = WeightsOf(E, r)
  BY <1>3, <1>5, <1>6
<1> QED BY <1>7 DEF E

\* The weights f after the pairs were staged with weight w.
Merging(f, pairs, w) ==
  [p \in DOMAIN f \cup pairs |->
     IF p \in pairs THEN IF p \in DOMAIN f /\ f[p] < w THEN f[p] ELSE w
     ELSE f[p]]

\* Staging edges of weight w merges w into the weights of their pairs.
LEMMA StagingMerges ==
  ASSUME NEW n \in Nat, NEW B, B \subseteq StagedEdge(n),
         NEW St, St \subseteq StagedEdge(n), NEW w \in Nat, \A e \in St : e.weight = w,
         NEW r, Injective(r, n),
         NEW f, Weighs(f, LeastEdges(B), r), NEW g, Weighs(g, LeastEdges(B \cup St), r)
  PROVE  g = Merging(f, {Ends(r, e) : e \in St}, w)
<1> DEFINE pairs == {Ends(r, e) : e \in St}
           C == B \cup St
           Merge(p) == IF p \in DOMAIN f /\ f[p] < w THEN f[p] ELSE w
<1>1. /\ f = [p \in {Ends(r, e) : e \in LeastEdges(B)} |-> f[p]]
      /\ \A e \in LeastEdges(B) : f[Ends(r, e)] = e.weight
  BY DEF Weighs
<1>2. /\ g = [p \in {Ends(r, e) : e \in LeastEdges(C)} |-> g[p]]
      /\ \A e \in LeastEdges(C) : g[Ends(r, e)] = e.weight
  BY DEF Weighs
<1>3. C \subseteq StagedEdge(n) /\ B \subseteq C /\ St \subseteq C /\ \A e \in C : e \in B \/ e \in St
  OBVIOUS
<1> HIDE DEF C
<1>4. /\ \A e \in LeastEdges(B) : /\ e \in B
                                  /\ \A d \in B : d.src = e.src /\ d.dst = e.dst
                                                    => e.weight <= d.weight
      /\ \A e \in LeastEdges(C) : /\ e \in C
                                  /\ \A d \in C : d.src = e.src /\ d.dst = e.dst
                                                    => e.weight <= d.weight
  BY DEF LeastEdges
<1>5. \A e \in C : e.src \in 1 .. n /\ e.dst \in 1 .. n /\ e.weight \in Nat
  BY <1>3 DEF StagedEdge
<1>6. \A d, e \in C : Ends(r, d) = Ends(r, e) <=> d.src = e.src /\ d.dst = e.dst
  <2> SUFFICES ASSUME NEW d \in C, NEW e \in C
               PROVE  Ends(r, d) = Ends(r, e) <=> d.src = e.src /\ d.dst = e.dst
    OBVIOUS
  <2>1. Ends(r, d) = Ends(r, e) <=> r[d.src] = r[e.src] /\ r[d.dst] = r[e.dst]
    BY DEF Ends
  <2> QED BY <1>5, <2>1 DEF Injective
<1>7. /\ \A e \in B : \E l \in LeastEdges(B) : l.src = e.src /\ l.dst = e.dst
      /\ \A e \in C : \E l \in LeastEdges(C) : l.src = e.src /\ l.dst = e.dst
  BY <1>3, LeastExists
<1>8. /\ DOMAIN f = {Ends(r, e) : e \in LeastEdges(B)}
      /\ DOMAIN g = {Ends(r, e) : e \in LeastEdges(C)}
  BY <1>1, <1>2
<1>9. \A e \in C : Ends(r, e) \in DOMAIN g
  <2> SUFFICES ASSUME NEW e \in C PROVE Ends(r, e) \in DOMAIN g
    OBVIOUS
  <2>1. PICK l \in LeastEdges(C) : l.src = e.src /\ l.dst = e.dst
    BY <1>7
  <2>2. Ends(r, l) = Ends(r, e)
    BY <1>4, <1>6, <2>1
  <2> QED BY <1>8, <2>2
<1>10. \A e \in B : Ends(r, e) \in DOMAIN f
  <2> SUFFICES ASSUME NEW e \in B PROVE Ends(r, e) \in DOMAIN f
    OBVIOUS
  <2>1. PICK l \in LeastEdges(B) : l.src = e.src /\ l.dst = e.dst
    BY <1>7
  <2>2. Ends(r, l) = Ends(r, e)
    BY <1>3, <1>4, <1>6, <2>1
  <2> QED BY <1>8, <2>2
<1>11. DOMAIN g = DOMAIN f \cup pairs
  <2>1. \A p \in DOMAIN g : p \in DOMAIN f \cup pairs
    <3> SUFFICES ASSUME NEW e \in LeastEdges(C) PROVE Ends(r, e) \in DOMAIN f \cup pairs
      BY <1>8
    <3>1. e \in B \/ e \in St
      BY <1>3, <1>4
    <3> QED BY <1>10, <3>1
  <2>2. \A p \in DOMAIN f : p \in DOMAIN g
    BY <1>3, <1>4, <1>8, <1>9
  <2>3. \A p \in pairs : p \in DOMAIN g
    BY <1>3, <1>9
  <2> QED BY <2>1, <2>2, <2>3
<1>12. ASSUME NEW p \in DOMAIN g, p \notin pairs PROVE g[p] = f[p]
  <2>1. PICK e \in LeastEdges(C) : p = Ends(r, e)
    BY <1>8
  <2>2. e \in B
    BY <1>3, <1>4, <1>12, <2>1
  <2>3. e \in LeastEdges(B)
    BY <1>3, <1>4, <2>2 DEF LeastEdges
  <2> QED BY <1>1, <1>2, <2>1, <2>3
<1>13. ASSUME NEW p \in pairs PROVE g[p] = Merge(p)
  <2>1. PICK s \in St : p = Ends(r, s)
    OBVIOUS
  <2>2. s \in C /\ s.weight = w
    BY <1>3
  <2>3. PICK e \in LeastEdges(C) : p = Ends(r, e)
    BY <1>8, <1>11
  <2>4. e \in C /\ e.weight <= w /\ e.weight \in Nat /\ g[p] = e.weight
    <3>1. e \in C /\ e.src = s.src /\ e.dst = s.dst
      BY <1>4, <1>6, <2>1, <2>2, <2>3
    <3> QED BY <1>2, <1>4, <1>5, <2>2, <2>3, <3>1
  <2>5. CASE p \in DOMAIN f
    <3>1. PICK l \in LeastEdges(B) : p = Ends(r, l)
      BY <1>8, <2>5
    <3>2. l \in B /\ l \in C /\ f[p] = l.weight /\ l.weight \in Nat
      BY <1>1, <1>3, <1>4, <1>5, <3>1
    <3>3. l.src = e.src /\ l.dst = e.dst
      BY <1>6, <2>3, <2>4, <3>1, <3>2
    <3>4. e.weight <= l.weight
      BY <1>4, <3>2, <3>3
    <3>5. e \in B => l.weight <= e.weight
      BY <1>4, <3>3
    <3>6. e \in St => e.weight = w
      OBVIOUS
    <3>7. e.weight = IF l.weight < w THEN l.weight ELSE w
      BY <1>3, <2>4, <3>2, <3>4, <3>5, <3>6
    <3> QED BY <2>4, <2>5, <3>2, <3>7
  <2>6. CASE p \notin DOMAIN f
    <3>1. e \notin B
      BY <1>10, <2>3, <2>6
    <3>2. e.weight = w
      BY <1>3, <2>4, <3>1
    <3> QED BY <2>4, <2>6, <3>2
  <2> QED BY <2>5, <2>6
<1> HIDE DEF pairs, Merge
<1>14. g = [p \in DOMAIN f \cup pairs |-> IF p \in pairs THEN Merge(p) ELSE f[p]]
  <2>1. g = [p \in DOMAIN f \cup pairs |-> g[p]]
    BY <1>2, <1>8, <1>11
  <2>2. \A p \in DOMAIN f \cup pairs : g[p] = IF p \in pairs THEN Merge(p) ELSE f[p]
    BY <1>11, <1>12, <1>13
  <2> QED BY <2>1, <2>2
<1> QED BY <1>14 DEF pairs, Merge, Merging


\* What SimpleGraph sees of the state.
AbstractVerts == IF buildOnce THEN DOMAIN idMap ELSE {}
AbstractWeights == IF buildOnce THEN Contents ELSE << >>

\* What the invariant says of staged edges that are not served.
LEMMA StagedFacts ==
  ASSUME IInv
  PROVE  /\ NumVertices \in Nat /\ NumVertices = Len(reverseIdMap)
         /\ ToSet(edgeBuffer) \subseteq StagedEdge(NumVertices)
         /\ Injective(reverseIdMap, NumVertices)
         /\ csr = NoArrays => ~isFinalized
<1> DEFINE n == NumVertices
<1>1. /\ MapsInverse(Registry) /\ Registry.reverseIdMap = reverseIdMap
      /\ Registry.idMap = idMap /\ n = Len(reverseIdMap)
      /\ edgeBuffer \in Seq(StagedEdge(n))
  BY DEF IInv, Registry, NumVertices
<1>2. n \in Nat
  BY <1>1, LenProperties DEF MapsInverse
<1> HIDE DEF n
<1>3. ToSet(edgeBuffer) \subseteq StagedEdge(n)
  BY <1>1, LenProperties, ElementOfSeq DEF ToSet
<1>4. Injective(reverseIdMap, n)
  <2>1. \A i \in 1 .. n : idMap[reverseIdMap[i]] = i
    BY <1>1 DEF MapsInverse
  <2> QED BY <2>1 DEF Injective
<1>5. csr = NoArrays => ~isFinalized
  <2> SUFFICES ASSUME csr = NoArrays, isFinalized PROVE FALSE
    OBVIOUS
  <2>1. csr.offsets \in [0 .. n -> Nat]
    BY DEF IInv, FitArrays, n
  <2>2. csr.offsets = << >>
    BY DEF NoArrays, Arrays
  <2>3. DOMAIN csr.offsets = 0 .. n /\ DOMAIN csr.offsets = {} /\ 0 \in 0 .. n
    BY <1>2, <2>1, <2>2
  <2> QED BY <2>3
<1> QED BY <1>1, <1>2, <1>3, <1>4, <1>5 DEF n

LEMMA RefinesInit == Init => Abstract!Init
<1> SUFFICES ASSUME Init PROVE Abstract!Init
  OBVIOUS
<1>1. /\ isDirected \in BOOLEAN /\ idMap = << >> /\ isFinalized = FALSE
      /\ edgeBuffer = << >>
  BY DEF Init
<1>2. DOMAIN idMap = {}
  BY <1>1
<1>3. EdgeSet = {}
  <2>1. ToSet(edgeBuffer) = {}
    BY <1>1 DEF ToSet
  <2> QED BY <1>1, <2>1 DEF EdgeSet, LeastEdges
<1>4. Contents = << >>
  <2>1. {EndsOf(e) : e \in EdgeSet} = {}
    BY <1>3
  <2>2. Contents = [p \in {} |-> (CHOOSE e \in EdgeSet : EndsOf(e) = p).weight]
    BY <2>1 DEF Contents
  <2>3. DOMAIN Contents = {}
    BY <2>2
  <2> QED BY <2>2, <2>3
<1> QED BY <1>1, <1>2, <1>4 DEF Abstract!Init

LEMMA RefinesAddVertex ==
  ASSUME IInv, NEW x \in VertexCalls, AddVertex(x), buildOnce
  PROVE  Abstract!Next
<1> DEFINE new == Registered(Registry, x)
           B == ToSet(edgeBuffer)
           n == NumVertices
<1>1. x \in Vertex
  BY CSRCallsAssumption
<1>2. MapsInverse(Registry) /\ Registry.reverseIdMap = reverseIdMap /\ Registry.idMap = idMap
  BY DEF IInv, Registry
<1>3. /\ DOMAIN new.idMap = DOMAIN idMap \cup {x}
      /\ \A i \in 1 .. Len(reverseIdMap) : new.reverseIdMap[i] = reverseIdMap[i]
  BY <1>1, <1>2, RegisteredVertex
<1>4. idMap' = new.idMap /\ reverseIdMap' = new.reverseIdMap
  BY DEF AddVertex, GetOrRegisterVertex
<1> HIDE DEF new
<1>5. /\ isDirected' = isDirected /\ isFinalized' = FALSE /\ buildOnce' = buildOnce
      /\ edgeBuffer' = edgeBuffer /\ csr = NoArrays
  BY DEF AddVertex, MayAdd
<1>6. /\ n \in Nat /\ n = Len(reverseIdMap) /\ B \subseteq StagedEdge(n)
      /\ ~isFinalized
  BY <1>5, StagedFacts
<1> HIDE DEF B, n
<1>7. EdgeSet = LeastEdges(B) /\ EdgeSet' = LeastEdges(B)
  BY <1>5, <1>6 DEF EdgeSet, B
<1>8. WeightsOf(LeastEdges(B), reverseIdMap') = WeightsOf(LeastEdges(B), reverseIdMap)
  BY <1>3, <1>4, <1>6, WeightsStay
<1>9. Contents = WeightsOf(EdgeSet, reverseIdMap) /\ Contents' = WeightsOf(EdgeSet', reverseIdMap')
  BY DEF Contents, WeightsOf, EndsOf, Ends
<1>10. Contents' = Contents
  BY <1>7, <1>8, <1>9
<1>11. Abstract!AddVertex(x)
  BY <1>3, <1>4, <1>5, <1>10 DEF Abstract!AddVertex
<1> QED BY <1>11 DEF Abstract!Next

LEMMA RefinesAddEdge ==
  ASSUME IInv, NEW c \in EdgeCalls, AddEdge(c[1], c[2], c[3]), buildOnce
  PROVE  Abstract!Next
<1> DEFINE u == c[1]
           v == c[2]
           w == c[3]
           one == Registered(Registry, u)
           two == Registered(one, v)
           m == NumVertices
           n == Len(two.reverseIdMap)
           i == two.idMap[u]
           j == two.idMap[v]
           forward == [src |-> i, dst |-> j, weight |-> w]
           staged == Staged(i, j, w)
           B == ToSet(edgeBuffer)
           St == ToSet(staged)
           r == two.reverseIdMap
           pairs == IF isDirected THEN {<<u, v>>} ELSE {<<u, v>>, <<v, u>>}
<1>1. u \in Vertex /\ v \in Vertex /\ w \in Nat
  BY CSRCallsAssumption
<1>2. /\ MapsInverse(Registry) /\ Registry.reverseIdMap = reverseIdMap
      /\ Registry.idMap = idMap
  BY DEF IInv, Registry
<1>3. /\ idMap' = two.idMap /\ reverseIdMap' = r
      /\ edgeBuffer' = edgeBuffer \o staged
      /\ isDirected' = isDirected /\ isFinalized' = FALSE /\ buildOnce' = buildOnce
      /\ csr = NoArrays
  BY DEF AddEdge, GetOrRegisterVertex, MayAdd
<1>4. /\ m \in Nat /\ m = Len(reverseIdMap) /\ B \subseteq StagedEdge(m)
      /\ ~isFinalized /\ Injective(reverseIdMap, m) /\ edgeBuffer \in Seq(StagedEdge(m))
  BY <1>3, StagedFacts DEF IInv
<1> HIDE DEF u, v, w, m, B
<1>5. /\ MapsInverse(one) /\ DOMAIN one.idMap = DOMAIN idMap \cup {u}
      /\ m <= Len(one.reverseIdMap)
      /\ \A k \in 1 .. m : one.reverseIdMap[k] = reverseIdMap[k]
  BY <1>1, <1>2, <1>4, RegisteredVertex
<1> HIDE DEF one
<1>6. /\ MapsInverse(two) /\ DOMAIN two.idMap = DOMAIN one.idMap \cup {v}
      /\ Len(one.reverseIdMap) <= n
      /\ \A k \in 1 .. Len(one.reverseIdMap) : r[k] = one.reverseIdMap[k]
  BY <1>1, <1>5, RegisteredVertex
<1> HIDE DEF two
<1>7. DOMAIN two.idMap = DOMAIN idMap \cup {u, v}
  BY <1>5, <1>6
<1>8. /\ r \in Seq(Vertex) /\ n \in Nat /\ Len(one.reverseIdMap) \in Nat
      /\ i \in 1 .. n /\ j \in 1 .. n /\ r[i] = u /\ r[j] = v
      /\ \A k \in 1 .. n : two.idMap[r[k]] = k
  BY <1>5, <1>6, <1>7, LenProperties DEF MapsInverse
<1> HIDE DEF i, j, n
<1>9. m <= n /\ \A k \in 1 .. m : r[k] = reverseIdMap[k]
  <2>1. PICK l \in Nat : l = Len(one.reverseIdMap)
    BY <1>8
  <2>2. m <= l /\ l <= n
    BY <1>5, <1>6, <2>1
  <2>3. ASSUME NEW k \in 1 .. m PROVE r[k] = reverseIdMap[k]
    <3>1. k \in 1 .. l
      BY <1>4, <2>1, <2>2
    <3>2. r[k] = one.reverseIdMap[k]
      BY <1>6, <2>1, <3>1
    <3>3. one.reverseIdMap[k] = reverseIdMap[k]
      BY <1>5
    <3> QED BY <3>2, <3>3
  <2> QED BY <1>4, <1>8, <2>1, <2>2, <2>3
<1>10. Injective(r, n)
  BY <1>8 DEF Injective
<1>11. B \subseteq StagedEdge(n) /\ edgeBuffer \in Seq(StagedEdge(n))
  BY <1>4, <1>8, <1>9, StagedEdgesGrow
<1>12. /\ staged \in Seq(StagedEdge(n))
       /\ St = {forward} \cup IF isDirected THEN {} ELSE {Reversed(forward)}
  BY <1>1, <1>8, StagedIs
<1> HIDE DEF staged
<1>13. ToSet(edgeBuffer') = B \cup St
  BY <1>3, <1>11, <1>12, ConcatSet DEF B
<1>14. St \subseteq StagedEdge(n)
  BY <1>12, LenProperties, ElementOfSeq DEF ToSet
<1>15. forward.weight = w /\ Reversed(forward).weight = w
       /\ Ends(r, forward) = <<u, v>> /\ Ends(r, Reversed(forward)) = <<v, u>>
  BY <1>8 DEF Ends, Reversed
<1> HIDE DEF forward, St
<1>16. \A e \in St : e.weight = w
  BY <1>12, <1>15
<1>17. {Ends(r, e) : e \in St} = pairs
  BY <1>12, <1>15
<1> HIDE DEF r
<1>18. EdgeSet = LeastEdges(B) /\ EdgeSet' = LeastEdges(B \cup St)
  BY <1>3, <1>4, <1>13 DEF EdgeSet, B
<1> DEFINE f == WeightsOf(LeastEdges(B), r)
           g == WeightsOf(LeastEdges(B \cup St), r)
<1>19. Contents = f /\ Contents' = g
  <2>1. /\ Contents = WeightsOf(EdgeSet, reverseIdMap)
        /\ Contents' = WeightsOf(EdgeSet', reverseIdMap')
    BY DEF Contents, WeightsOf, EndsOf, Ends
  <2>2. f = WeightsOf(LeastEdges(B), reverseIdMap)
    <3>1. m \in Nat /\ B \subseteq StagedEdge(m)
      BY <1>4
    <3>2. \A k \in 1 .. m : r[k] = reverseIdMap[k]
      BY <1>9
    <3>3. WeightsOf(LeastEdges(B), r) = WeightsOf(LeastEdges(B), reverseIdMap)
      BY <3>1, <3>2, WeightsStay
    <3> QED BY <3>3
  <2> QED BY <1>3, <1>18, <2>1, <2>2
<1>20. Weighs(f, LeastEdges(B), r)
  BY <1>8, <1>10, <1>11, WeightsWeigh
<1>21. Weighs(g, LeastEdges(B \cup St), r)
  <2>1. B \cup St \subseteq StagedEdge(n)
    BY <1>11, <1>14
  <2> QED BY <1>8, <1>10, <2>1, WeightsWeigh
<1> HIDE DEF f, g, pairs
<1>22. g = Merging(f, pairs, w)
  <2>1. n \in Nat /\ w \in Nat
    BY <1>1, <1>8
  <2>2. g = Merging(f, {Ends(r, e) : e \in St}, w)
    BY <1>10, <1>11, <1>14, <1>16, <1>20, <1>21, <2>1, StagingMerges
  <2> QED BY <1>17, <2>2
<1>23. Abstract!AddEdge(u, v, w)
  <2>1. AbstractWeights = f /\ AbstractWeights' = g
    BY <1>3, <1>19 DEF AbstractWeights
  <2>2. AbstractVerts' = AbstractVerts \cup {u, v}
    BY <1>3, <1>7 DEF AbstractVerts
  <2> QED BY <1>3, <1>22, <2>1, <2>2
      DEF Merging, Abstract!AddEdge, Abstract!Merged, AbstractWeights, AbstractVerts, pairs
<1> QED BY <1>23 DEF Abstract!Next, u, v, w

LEMMA RefinesFinalize ==
  ASSUME IInv, Finalize
  PROVE  AbstractVerts' = AbstractVerts /\ AbstractWeights' = AbstractWeights
<1>1. /\ isDirected' = isDirected /\ idMap' = idMap /\ reverseIdMap' = reverseIdMap
      /\ buildOnce' = buildOnce
  BY DEF Finalize
<1>2. EdgeSet' = EdgeSet
  <2>1. CASE isFinalized
    <3>1. csr' = csr /\ edgeBuffer' = edgeBuffer /\ isFinalized' = isFinalized
      BY <2>1 DEF Finalize
    <3> QED BY <1>1, <3>1 DEF EdgeSet, Served, NumVertices
  <2>2. CASE ~isFinalized
    <3>1. csr' = BuildCSR(NumVertices, edgeBuffer) /\ isFinalized' = TRUE
      BY <2>2 DEF Finalize, NumVertices
    <3>2. NumVertices \in Nat /\ edgeBuffer \in Seq(StagedEdge(NumVertices))
      BY StagedFacts DEF IInv
    <3>3. EdgesOf(NumVertices, csr') = LeastEdges(ToSet(edgeBuffer))
      BY <3>1, <3>2, BuiltArraysServe
    <3>4. NumVertices' = NumVertices
      BY <1>1 DEF NumVertices
    <3> QED BY <2>2, <3>1, <3>3, <3>4 DEF EdgeSet, Served
  <2> QED BY <2>1, <2>2
<1>3. Contents = WeightsOf(EdgeSet, reverseIdMap) /\ Contents' = WeightsOf(EdgeSet', reverseIdMap')
  BY DEF Contents, WeightsOf, EndsOf, Ends
<1>4. Contents' = Contents
  BY <1>1, <1>2, <1>3
<1> QED BY <1>1, <1>4 DEF AbstractVerts, AbstractWeights

\* To a caller who adds nothing after finalize() the structure is a set of
\* vertices and the least weight of the addEdge calls for each joined pair.
THEOREM CSRImplementsSimpleGraph == Spec => ImplementsSimpleGraph
<1> DEFINE avars == <<isDirected, AbstractVerts, AbstractWeights>>
<1>1. ASSUME IInv, [Next]_vars PROVE Abstract!Next \/ UNCHANGED avars
  <2>1. CASE ~buildOnce
    <3>1. isDirected' = isDirected /\ buildOnce' = buildOnce
      BY <1>1 DEF Next, AddVertex, AddEdge, Finalize, vars
    <3> QED BY <2>1, <3>1 DEF AbstractVerts, AbstractWeights
  <2>2. CASE buildOnce
    <3>1. CASE \E x \in VertexCalls : AddVertex(x)
      BY <1>1, <2>2, <3>1, RefinesAddVertex
    <3>2. CASE \E c \in EdgeCalls : AddEdge(c[1], c[2], c[3])
      BY <1>1, <2>2, <3>2, RefinesAddEdge
    <3>3. CASE Finalize
      BY <1>1, <3>3, RefinesFinalize DEF Finalize
    <3>4. CASE UNCHANGED vars
      <4>1. /\ isDirected' = isDirected /\ idMap' = idMap /\ reverseIdMap' = reverseIdMap
            /\ csr' = csr /\ edgeBuffer' = edgeBuffer /\ isFinalized' = isFinalized
            /\ buildOnce' = buildOnce
        BY <3>4 DEF vars
      <4>2. EdgeSet' = EdgeSet
        BY <4>1 DEF EdgeSet, Served, NumVertices
      <4>3. Contents = WeightsOf(EdgeSet, reverseIdMap)
            /\ Contents' = WeightsOf(EdgeSet', reverseIdMap')
        BY DEF Contents, WeightsOf, EndsOf, Ends
      <4>4. Contents' = Contents
        BY <4>1, <4>2, <4>3
      <4> QED BY <4>1, <4>4 DEF AbstractVerts, AbstractWeights
    <3> QED BY <1>1, <3>1, <3>2, <3>3, <3>4 DEF Next
  <2> QED BY <2>1, <2>2
<1>2. IInv /\ [Next]_vars => [Abstract!Next]_avars
  BY <1>1
<1> QED BY <1>2, RefinesInit, InductiveInvariant, PTL
    DEF Spec, ImplementsSimpleGraph, Abstract!Spec, AbstractVerts, AbstractWeights
=============================================================================
