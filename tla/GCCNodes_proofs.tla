--------------------------- MODULE GCCNodes_proofs ---------------------------
(***************************************************************************)
(* What the operators of GCCNodes return, preserve and bound, for node     *)
(* arrays of any size over any set W of weights.                           *)
(***************************************************************************)
EXTENDS GCCNodes, Integers, SequenceTheorems, FiniteSetTheorems,
        WellFoundedInduction, TLAPS

Cell(W) == [dst : Nat, weight : W]

\* Every nonempty set of naturals has a least element.  The library states
\* this with an operator parameter; here it follows from the well-foundedness
\* of strict inclusion on the intervals 1..n.
LEMMA LeastElement ==
  ASSUME NEW T \in SUBSET Nat, T # {}
  PROVE  \E m \in T : \A k \in T : m <= k
<1> DEFINE Intervals == {1 .. n : n \in T}
<1>1. IsWellFoundedOn(StrictSubsetOrdering(Nat), FiniteSubsetsOf(Nat))
  BY FS_StrictSubsetOrderingWellFounded
<1>2. Intervals \subseteq FiniteSubsetsOf(Nat)
  BY FS_Interval DEF FiniteSubsetsOf
<1>3. Intervals # {}
  OBVIOUS
<1> HIDE DEF Intervals
<1>4. \E x \in Intervals : \A y \in Intervals :
         ~(<<y, x>> \in StrictSubsetOrdering(Nat))
  BY <1>1, <1>2, <1>3, WFMin
<1>5. PICK m \in T : \A y \in Intervals :
                        ~(<<y, 1 .. m>> \in StrictSubsetOrdering(Nat))
  BY <1>4 DEF Intervals
<1>6. ASSUME NEW k \in T, k < m
      PROVE  FALSE
  <2>1. /\ 1 .. k \in SUBSET Nat
        /\ 1 .. m \in SUBSET Nat
        /\ 1 .. k \subseteq 1 .. m
        /\ m \in 1 .. m
        /\ m \notin 1 .. k
    BY <1>6
  <2>2. <<1 .. k, 1 .. m>> \in StrictSubsetOrdering(Nat)
    BY <2>1 DEF StrictSubsetOrdering
  <2> QED BY <2>2, <1>5 DEF Intervals
<1> QED BY <1>6

\* A set with 0 and the successor of every number in it has all numbers.
LEMMA SetInduction ==
  ASSUME NEW S, 0 \in S, \A n \in Nat : n \in S => n + 1 \in S
  PROVE  Nat \subseteq S
<1> SUFFICES ASSUME NEW x \in Nat, x \notin S PROVE FALSE
  OBVIOUS
<1> DEFINE T == {n \in Nat : n \notin S}
<1>1. PICK m \in T : \A k \in T : m <= k
  <2>1. T \in SUBSET Nat /\ T # {}
    OBVIOUS
  <2> HIDE DEF T
  <2> QED BY <2>1, LeastElement
<1>2. m # 0
  BY <1>1
<1>3. m - 1 \in Nat /\ m - 1 \notin T
  BY <1>1, <1>2
<1> QED BY <1>1, <1>3

\* g starts at a and goes on by step, up to N.
Iterates(g, N, a, step) ==
  \A k \in 0 .. N : g[k] = IF k = 0 THEN a ELSE step[g[k - 1]]

\* There is such a function: what a recursive definition chooses.
LEMMA RecursiveFunction ==
  ASSUME NEW N \in Nat, NEW V, NEW a \in V, NEW step \in [V -> V]
  PROVE  \E g \in [0 .. N -> V] : Iterates(g, N, a, step)
<1> DEFINE Upto(n, g) == Iterates(g, n, a, step)
           S == {n \in Nat : \E g \in [0 .. n -> V] : Upto(n, g)}
<1>1. 0 \in S
  <2>1. [k \in 0 .. 0 |-> a] \in [0 .. 0 -> V] /\ Upto(0, [k \in 0 .. 0 |-> a])
    BY DEF Iterates
  <2> QED BY <2>1
<1>2. ASSUME NEW n \in Nat, n \in S PROVE n + 1 \in S
  <2>1. PICK g \in [0 .. n -> V] : Upto(n, g)
    BY <1>2
  <2> DEFINE h == [k \in 0 .. n + 1 |-> IF k = n + 1 THEN step[g[n]] ELSE g[k]]
  <2>2. \A k \in 0 .. n + 1 : k = n + 1 \/ k \in 0 .. n
    OBVIOUS
  <2>3. step[g[n]] \in V
    BY <2>1
  <2>4. h \in [0 .. n + 1 -> V]
    BY <2>1, <2>2, <2>3
  <2>5. ASSUME NEW k \in 0 .. n + 1
        PROVE  h[k] = IF k = 0 THEN a ELSE step[h[k - 1]]
    <3>1. CASE k = n + 1
      BY <3>1
    <3>2. CASE k \in 0 .. n
      <4>1. h[k] = g[k] /\ (k # 0 => k - 1 \in 0 .. n /\ h[k - 1] = g[k - 1])
        BY <3>2
      <4> QED BY <2>1, <3>2, <4>1 DEF Iterates
    <3> QED BY <2>2, <3>1, <3>2
  <2> HIDE DEF h
  <2>6. \E f \in [0 .. n + 1 -> V] : Upto(n + 1, f)
    <3>1. Upto(n + 1, h)
      BY <2>5 DEF Iterates
    <3> HIDE DEF Upto
    <3> QED BY <2>4, <3>1
  <2> QED BY <2>6
<1>3. Nat \subseteq S
  <2> HIDE DEF S
  <2> QED BY <1>1, <1>2, SetInduction
<1> QED BY <1>3

\* The keys of an array are those of its entries.
LEMMA KeysOfRange == \A node : Keys(node) = {c.dst : c \in RangeOf(node)}
BY DEF Keys, RangeOf

\* Typing of cells and of the arrays of them.
LEMMA CellProperties ==
  ASSUME NEW W
  PROVE  /\ \A c \in Cell(W) : c.dst \in Nat /\ c.weight \in W
         /\ \A node \in Seq(Cell(W)) :
               /\ Len(node) \in Nat
               /\ DOMAIN node = 1 .. Len(node)
               /\ \A i \in 1 .. Len(node) : node[i] \in Cell(W) /\ node[i].dst \in Nat
<1>1. \A c \in Cell(W) : c.dst \in Nat /\ c.weight \in W
  BY DEF Cell
<1>2. ASSUME NEW node \in Seq(Cell(W))
      PROVE  /\ Len(node) \in Nat
             /\ DOMAIN node = 1 .. Len(node)
             /\ \A i \in 1 .. Len(node) : node[i] \in Cell(W)
  BY LenProperties, ElementOfSeq
<1> QED BY <1>1, <1>2

\* The insertion point splits the array into the entries before d and, from
\* the first one that is not before d, the rest.
LEMMA LowerBoundProperties ==
  ASSUME NEW W, NEW node \in Seq(Cell(W)), NEW d \in Nat
  PROVE  /\ LowerBound(node, d) \in 0 .. Len(node)
         /\ \A i \in 1 .. LowerBound(node, d) : node[i].dst < d
         /\ LowerBound(node, d) < Len(node) =>
               node[LowerBound(node, d) + 1].dst >= d
<1> DEFINE Stops == {p \in 0 .. Len(node) : p < Len(node) => node[p + 1].dst >= d}
<1>1. Len(node) \in Nat /\ \A i \in 1 .. Len(node) : node[i].dst \in Nat
  BY CellProperties
<1>2. Len(node) \in Stops /\ Stops \in SUBSET Nat
  BY <1>1
<1>3. PICK m \in Stops : \A k \in Stops : m <= k
  <2> HIDE DEF Stops
  <2> QED BY <1>2, LeastElement
<1>4. \A i \in 1 .. m : node[i].dst < d
  <2> SUFFICES ASSUME NEW i \in 1 .. m
               PROVE  node[i].dst < d
    OBVIOUS
  <2>1. i - 1 \in 0 .. Len(node) /\ i - 1 < m /\ i - 1 < Len(node)
    BY <1>1
  <2>2. i - 1 \notin Stops
    BY <1>3, <2>1
  <2>3. ~(node[(i - 1) + 1].dst >= d)
    BY <2>1, <2>2
  <2>4. (i - 1) + 1 = i /\ i \in 1 .. Len(node)
    BY <1>1
  <2> QED BY <2>3, <2>4, <1>1
<1>5. \E p \in 0 .. Len(node) :
         /\ \A i \in 1 .. p : node[i].dst < d
         /\ p < Len(node) => node[p + 1].dst >= d
  BY <1>4
<1> QED BY <1>5 DEF LowerBound

LEMMA InsertSortedProperties ==
  ASSUME NEW W, NEW node \in Seq(Cell(W)), NEW e \in Cell(W)
  PROVE  /\ InsertSorted(node, e) \in Seq(Cell(W))
         /\ Len(InsertSorted(node, e)) = Len(node) + 1
         /\ RangeOf(InsertSorted(node, e)) = RangeOf(node) \cup {e}
         /\ Keys(InsertSorted(node, e)) = Keys(node) \cup {e.dst}
<1> DEFINE pos == LowerBound(node, e.dst)
           grown == InsertSorted(node, e)
<1>1. pos \in 0 .. Len(node) /\ Len(node) \in Nat
  BY LowerBoundProperties, CellProperties
<1>2. grown = [i \in 1 .. Len(node) + 1 |->
                 IF i <= pos THEN node[i]
                 ELSE IF i = pos + 1 THEN e
                 ELSE node[i - 1]]
  BY DEF InsertSorted
<1> HIDE DEF pos, grown
<1>3. \A i \in 1 .. Len(node) + 1 : grown[i] \in Cell(W)
  BY <1>1, <1>2
<1>4. grown \in Seq(Cell(W)) /\ Len(grown) = Len(node) + 1
  BY <1>1, <1>2, <1>3
<1>5. DOMAIN grown = 1 .. Len(node) + 1 /\ DOMAIN node = 1 .. Len(node)
  BY <1>2
<1>6. \A i \in DOMAIN grown : grown[i] = e \/ \E j \in DOMAIN node : grown[i] = node[j]
  BY <1>1, <1>2, <1>5
<1>7. \A j \in DOMAIN node : \E i \in DOMAIN grown : grown[i] = node[j]
  <2> SUFFICES ASSUME NEW j \in DOMAIN node
               PROVE  \E i \in DOMAIN grown : grown[i] = node[j]
    OBVIOUS
  <2>1. CASE j <= pos
    BY <1>1, <1>2, <1>5, <2>1
  <2>2. CASE j > pos
    <3>1. j + 1 \in 1 .. Len(node) + 1 /\ ~(j + 1 <= pos) /\ j + 1 # pos + 1
          /\ (j + 1) - 1 = j
      BY <1>1, <1>5, <2>2
    <3>2. grown[j + 1] = node[j]
      BY <1>2, <3>1
    <3> QED BY <3>1, <3>2, <1>5
  <2> QED BY <2>1, <2>2, <1>1, <1>5
<1>8. \E i \in DOMAIN grown : grown[i] = e
  <2>1. pos + 1 \in 1 .. Len(node) + 1 /\ ~(pos + 1 <= pos)
    BY <1>1
  <2>2. grown[pos + 1] = e
    BY <1>2, <2>1
  <2> QED BY <2>1, <2>2, <1>5
<1>9. RangeOf(grown) = RangeOf(node) \cup {e}
  BY <1>6, <1>7, <1>8 DEF RangeOf
<1>10. Keys(grown) = Keys(node) \cup {e.dst}
  BY <1>6, <1>7, <1>8 DEF Keys
<1> QED BY <1>4, <1>9, <1>10 DEF grown

\* insertSorted keeps an ascending array ascending if the key is new.
LEMMA InsertSortedAscending ==
  ASSUME NEW W, NEW node \in Seq(Cell(W)), NEW e \in Cell(W),
         Ascending(node), e.dst \notin Keys(node)
  PROVE  Ascending(InsertSorted(node, e))
<1> DEFINE pos == LowerBound(node, e.dst)
           grown == InsertSorted(node, e)
<1>1. /\ pos \in 0 .. Len(node)
      /\ Len(node) \in Nat
      /\ e.dst \in Nat
      /\ \A i \in 1 .. pos : node[i].dst < e.dst
      /\ pos < Len(node) => node[pos + 1].dst >= e.dst
  BY LowerBoundProperties, CellProperties
<1>2. grown = [i \in 1 .. Len(node) + 1 |->
                 IF i <= pos THEN node[i]
                 ELSE IF i = pos + 1 THEN e
                 ELSE node[i - 1]]
  BY DEF InsertSorted
<1>3. DOMAIN node = 1 .. Len(node) /\ \A i \in 1 .. Len(node) : node[i].dst \in Nat
  BY CellProperties
<1> HIDE DEF pos, grown
<1>4. \A i \in 1 .. Len(node) : i > pos => e.dst < node[i].dst
  <2> SUFFICES ASSUME NEW i \in 1 .. Len(node), i > pos
               PROVE  e.dst < node[i].dst
    OBVIOUS
  <2>1. pos + 1 \in 1 .. Len(node) /\ pos < Len(node)
    BY <1>1
  <2>2. node[pos + 1].dst # e.dst
    BY <2>1, <1>3 DEF Keys
  <2>3. e.dst < node[pos + 1].dst
    BY <1>1, <1>3, <2>1, <2>2
  <2>4. CASE i = pos + 1
    BY <2>3, <2>4
  <2>5. CASE i > pos + 1
    <3>1. node[pos + 1].dst < node[i].dst
      BY <2>1, <2>5, <1>3 DEF Ascending
    <3> QED BY <2>1, <2>3, <3>1, <1>1, <1>3
  <2> QED BY <2>4, <2>5, <1>1
<1>5. ASSUME NEW i \in DOMAIN grown, NEW j \in DOMAIN grown, i < j
      PROVE  grown[i].dst < grown[j].dst
  <2>0. i \in 1 .. Len(node) + 1 /\ j \in 1 .. Len(node) + 1
    BY <1>2
  <2>1. CASE j <= pos
    BY <1>1, <1>2, <1>3, <1>5, <2>0, <2>1 DEF Ascending
  <2>2. CASE j = pos + 1
    BY <1>1, <1>2, <1>5, <2>0, <2>2
  <2>3. CASE j > pos + 1
    <3>1. grown[j] = node[j - 1] /\ j - 1 \in 1 .. Len(node) /\ j - 1 > pos
      BY <1>1, <1>2, <2>0, <2>3
    <3>2. CASE i <= pos
      <4>1. grown[i] = node[i] /\ i \in 1 .. Len(node) /\ i < j - 1
        BY <1>1, <1>2, <2>0, <2>3, <3>2
      <4> QED BY <3>1, <4>1, <1>3 DEF Ascending
    <3>3. CASE i = pos + 1
      BY <1>1, <1>2, <1>4, <2>0, <3>1, <3>3
    <3>4. CASE i > pos + 1
      <4>1. grown[i] = node[i - 1] /\ i - 1 \in 1 .. Len(node) /\ i - 1 < j - 1
        BY <1>1, <1>2, <1>5, <2>0, <3>4
      <4> QED BY <3>1, <4>1, <1>3 DEF Ascending
    <3> QED BY <3>2, <3>3, <3>4, <1>1, <2>0
  <2> QED BY <2>1, <2>2, <2>3, <1>1, <2>0
<1> QED BY <1>5 DEF Ascending, grown

-----------------------------------------------------------------------------
(* The search by halving.                                                  *)

\* One turn of the search of slots lo + 1 .. hi that goes on with f.
SearchTurn(f, node, d, lo, hi) ==
  IF lo >= hi THEN 0
  ELSE LET mid == lo + ((hi - lo) \div 2)
           key == node[mid + 1].dst
       IN  IF key = d THEN mid + 1
           ELSE IF key < d THEN f[mid + 1][hi]
           ELSE f[lo][mid]

Searches(f, node, d) ==
  f = [lo \in 0 .. Len(node) |->
         [hi \in 0 .. Len(node) |-> SearchTurn(f, node, d, lo, hi)]]

\* The slot that holds d among lo + 1 .. hi, or 0.
SlotIn(node, d, lo, hi) ==
  IF \E m \in lo + 1 .. hi : node[m].dst = d
    THEN CHOOSE m \in lo + 1 .. hi : node[m].dst = d
    ELSE 0

LEMMA SlotOfKey ==
  ASSUME NEW W, NEW node \in Seq(Cell(W)), NEW d \in Nat, Ascending(node),
         NEW lo \in 0 .. Len(node), NEW hi \in 0 .. Len(node)
  PROVE  /\ \A m \in lo + 1 .. hi : node[m].dst = d => SlotIn(node, d, lo, hi) = m
         /\ (\A m \in lo + 1 .. hi : node[m].dst # d) => SlotIn(node, d, lo, hi) = 0
<1>1. /\ DOMAIN node = 1 .. Len(node)
      /\ Len(node) \in Nat
      /\ \A i \in 1 .. Len(node) : node[i].dst \in Nat
  BY CellProperties
<1>2. ASSUME NEW m \in lo + 1 .. hi, NEW n \in lo + 1 .. hi,
             node[m].dst = d, node[n].dst = d
      PROVE  m = n
  <2>1. m \in 1 .. Len(node) /\ n \in 1 .. Len(node)
    BY <1>1
  <2>2. ~(m < n) /\ ~(n < m)
    BY <1>1, <1>2, <2>1 DEF Ascending
  <2> QED BY <1>1, <2>1, <2>2
<1>3. ASSUME NEW m \in lo + 1 .. hi, node[m].dst = d
      PROVE  SlotIn(node, d, lo, hi) = m
  BY <1>2, <1>3 DEF SlotIn
<1> QED BY <1>3 DEF SlotIn

\* The turns of the search lead to that slot.
LEMMA TurnFindsSlot ==
  ASSUME NEW W, NEW node \in Seq(Cell(W)), NEW d \in Nat, Ascending(node),
         NEW lo \in 0 .. Len(node), NEW hi \in 0 .. Len(node), NEW f,
         \A l, h \in 0 .. Len(node) :
            h - l < hi - lo => f[l][h] = SlotIn(node, d, l, h)
  PROVE  SearchTurn(f, node, d, lo, hi) = SlotIn(node, d, lo, hi)
<1>1. /\ DOMAIN node = 1 .. Len(node)
      /\ Len(node) \in Nat
      /\ \A i \in 1 .. Len(node) : node[i].dst \in Nat
  BY CellProperties
<1>2. CASE lo >= hi
  <2>1. lo + 1 .. hi = {}
    BY <1>2
  <2> QED BY <1>2, <2>1, SlotOfKey DEF SearchTurn
<1>3. CASE lo < hi
  <2> DEFINE mid == lo + ((hi - lo) \div 2)
             key == node[mid + 1].dst
  <2>1. mid \in lo .. hi - 1
    BY <1>3
  <2>2. SearchTurn(f, node, d, lo, hi) =
          IF key = d THEN mid + 1
          ELSE IF key < d THEN f[mid + 1][hi]
          ELSE f[lo][mid]
    BY <1>3 DEF SearchTurn
  <2> HIDE DEF mid
  <2>3. /\ mid + 1 \in 1 .. Len(node)
        /\ mid + 1 \in lo + 1 .. hi
        /\ mid + 1 \in 0 .. Len(node) /\ mid \in 0 .. Len(node)
        /\ hi - (mid + 1) < hi - lo /\ mid - lo < hi - lo
        /\ key \in Nat
    BY <1>1, <1>3, <2>1
  <2> HIDE DEF key
  <2>4. \A m \in lo + 1 .. hi : m \in 1 .. Len(node)
    BY <1>1
  <2>5. CASE key = d
    <3>1. SlotIn(node, d, lo, hi) = mid + 1
      BY <2>3, <2>5, SlotOfKey DEF key
    <3> QED BY <2>2, <2>5, <3>1
  <2>6. CASE key < d
    <3>1. ASSUME NEW m \in lo + 1 .. hi, node[m].dst = d
          PROVE  m \in (mid + 1) + 1 .. hi
      <4>1. ~(m < mid + 1) /\ m # mid + 1
        BY <1>1, <2>3, <2>4, <2>6, <3>1 DEF Ascending, key
      <4> QED BY <2>3, <4>1
    <3>2. \A m \in (mid + 1) + 1 .. hi : m \in lo + 1 .. hi
      BY <2>1
    <3>3. SlotIn(node, d, mid + 1, hi) = SlotIn(node, d, lo, hi)
      <4>1. CASE \E m \in lo + 1 .. hi : node[m].dst = d
        BY <2>3, <3>1, <4>1, SlotOfKey
      <4>2. CASE \A m \in lo + 1 .. hi : node[m].dst # d
        <5>1. SlotIn(node, d, lo, hi) = 0
          BY <4>2, SlotOfKey
        <5>2. \A m \in (mid + 1) + 1 .. hi : node[m].dst # d
          BY <3>2, <4>2
        <5>3. SlotIn(node, d, mid + 1, hi) = 0
          BY <2>3, <5>2, SlotOfKey
        <5> QED BY <5>1, <5>3
      <4> QED BY <4>1, <4>2
    <3>4. SearchTurn(f, node, d, lo, hi) = f[mid + 1][hi]
      BY <2>2, <2>3, <2>6
    <3> QED BY <2>3, <3>3, <3>4
  <2>7. CASE key > d
    <3>1. ASSUME NEW m \in lo + 1 .. hi, node[m].dst = d
          PROVE  m \in lo + 1 .. mid
      <4>1. ~(mid + 1 < m) /\ m # mid + 1
        BY <1>1, <2>3, <2>4, <2>7, <3>1 DEF Ascending, key
      <4> QED BY <2>3, <4>1
    <3>2. \A m \in lo + 1 .. mid : m \in lo + 1 .. hi
      BY <2>1
    <3>3. SlotIn(node, d, lo, mid) = SlotIn(node, d, lo, hi)
      <4>1. CASE \E m \in lo + 1 .. hi : node[m].dst = d
        BY <2>3, <3>1, <4>1, SlotOfKey
      <4>2. CASE \A m \in lo + 1 .. hi : node[m].dst # d
        <5>1. SlotIn(node, d, lo, hi) = 0
          BY <4>2, SlotOfKey
        <5>2. \A m \in lo + 1 .. mid : node[m].dst # d
          BY <3>2, <4>2
        <5>3. SlotIn(node, d, lo, mid) = 0
          BY <2>3, <5>2, SlotOfKey
        <5> QED BY <5>1, <5>3
      <4> QED BY <4>1, <4>2
    <3>4. SearchTurn(f, node, d, lo, hi) = f[lo][mid]
      BY <2>2, <2>3, <2>7
    <3> QED BY <2>3, <3>3, <3>4
  <2> QED BY <2>3, <2>5, <2>6, <2>7
<1> QED BY <1>1, <1>2, <1>3

\* In an ascending array Find returns the slot of a key that is there, and 0
\* for any other: the search ends, and never on the wrong side.
LEMMA FindProperties ==
  ASSUME NEW W, NEW node \in Seq(Cell(W)), NEW d \in Nat, Ascending(node)
  PROVE  /\ \A i \in 1 .. Len(node) : node[i].dst = d => Find(node, d) = i
         /\ d \notin Keys(node) => Find(node, d) = 0
<1> DEFINE N == Len(node)
           g == [lo \in 0 .. N |-> [hi \in 0 .. N |-> SlotIn(node, d, lo, hi)]]
           f == CHOOSE h : Searches(h, node, d)
<1>1. N \in Nat
  BY CellProperties
<1>2. Searches(g, node, d)
  <2>1. \A lo, hi \in 0 .. N : g[lo][hi] = SlotIn(node, d, lo, hi)
    OBVIOUS
  <2> HIDE DEF g
  <2>2. \A lo, hi \in 0 .. N :
           SearchTurn(g, node, d, lo, hi) = SlotIn(node, d, lo, hi)
    BY <2>1, TurnFindsSlot
  <2> QED BY <2>2 DEF Searches, g
<1>3. Searches(f, node, d)
  BY <1>2
<1> HIDE DEF f, g
<1>4. \A lo, hi \in 0 .. N : f[lo][hi] = SearchTurn(f, node, d, lo, hi)
  <2> TAKE lo \in 0 .. N, hi \in 0 .. N
  <2>1. f[lo] = [h \in 0 .. N |-> SearchTurn(f, node, d, lo, h)]
    BY <1>3, Zenon DEF Searches
  <2> QED BY <2>1, Zenon
<1> DEFINE Right(k) == \A lo, hi \in 0 .. N :
                          hi - lo < k => f[lo][hi] = SlotIn(node, d, lo, hi)
           S == {k \in Nat : Right(k)}
<1>5. 0 \in S
  <2>1. ASSUME NEW lo \in 0 .. N, NEW hi \in 0 .. N, hi - lo < 0
        PROVE  f[lo][hi] = SlotIn(node, d, lo, hi)
    <3>1. lo + 1 .. hi = {} /\ lo >= hi
      BY <1>1, <2>1
    <3>2. f[lo][hi] = 0
      <4>1. f[lo][hi] = SearchTurn(f, node, d, lo, hi)
        BY <1>4, Zenon
      <4> QED BY <3>1, <4>1 DEF SearchTurn
    <3>3. \A m \in lo + 1 .. hi : node[m].dst # d
      BY <3>1
    <3>4. SlotIn(node, d, lo, hi) = 0
      BY <3>3, SlotOfKey, Zenon
    <3> QED BY <3>2, <3>4
  <2> QED BY <2>1
<1>6. ASSUME NEW k \in Nat, k \in S PROVE k + 1 \in S
  <2>1. ASSUME NEW lo \in 0 .. N, NEW hi \in 0 .. N, hi - lo < k + 1
        PROVE  f[lo][hi] = SlotIn(node, d, lo, hi)
    <3>1. \A l, h \in 0 .. N : h - l < hi - lo => f[l][h] = SlotIn(node, d, l, h)
      BY <1>1, <1>6, <2>1
    <3>2. SearchTurn(f, node, d, lo, hi) = SlotIn(node, d, lo, hi)
      BY <3>1, TurnFindsSlot, Zenon
    <3> QED BY <1>4, <3>2, Zenon
  <2> QED BY <2>1
<1>7. Nat \subseteq S
  <2> HIDE DEF S
  <2> QED BY <1>5, <1>6, SetInduction
<1>8. f[0][N] = SlotIn(node, d, 0, N)
  <2>1. Right(N + 1)
    BY <1>1, <1>7
  <2> QED BY <1>1, <2>1
<1>9. Find(node, d) = f[0][N]
  BY DEF Find, f, Searches, SearchTurn
<1>10. /\ \A m \in 1 .. N : node[m].dst = d => SlotIn(node, d, 0, N) = m
       /\ (\A m \in 1 .. N : node[m].dst # d) => SlotIn(node, d, 0, N) = 0
  <2>1. 0 \in 0 .. N /\ N \in 0 .. N /\ 0 + 1 = 1
    BY <1>1
  <2>2. /\ \A m \in 0 + 1 .. N : node[m].dst = d => SlotIn(node, d, 0, N) = m
        /\ (\A m \in 0 + 1 .. N : node[m].dst # d) => SlotIn(node, d, 0, N) = 0
    BY <2>1, SlotOfKey, Zenon
  <2> QED BY <2>1, <2>2, Zenon
<1>11. d \notin Keys(node) => \A m \in 1 .. N : node[m].dst # d
  BY CellProperties DEF Keys
<1> QED BY <1>8, <1>9, <1>10, <1>11

-----------------------------------------------------------------------------
(* The two halves a leaf splits into.                                      *)

LEMMA HalvesProperties ==
  ASSUME NEW W, NEW node \in Seq(Cell(W)), Len(node) >= 2
  PROVE  /\ LeftHalf(node) \in Seq(Cell(W))
         /\ RightHalf(node) \in Seq(Cell(W))
         /\ Len(LeftHalf(node)) \in 1 .. Len(node) - 1
         /\ Len(RightHalf(node)) \in 1 .. Len(node) - 1
         /\ Len(LeftHalf(node)) + Len(RightHalf(node)) = Len(node)
         /\ \A i \in 1 .. Len(LeftHalf(node)) : LeftHalf(node)[i] = node[i]
         /\ \A i \in 1 .. Len(RightHalf(node)) :
               RightHalf(node)[i] = node[Len(LeftHalf(node)) + i]
<1> DEFINE mid == Len(node) \div 2
<1>1. Len(node) \in Nat /\ \A i \in 1 .. Len(node) : node[i] \in Cell(W)
  BY CellProperties
<1>2. mid \in Nat /\ mid >= 1 /\ mid < Len(node)
  BY <1>1
<1> HIDE DEF mid
<1>3. /\ SubSeq(node, 1, mid) \in Seq(Cell(W))
      /\ Len(SubSeq(node, 1, mid)) = mid
      /\ \A i \in 1 .. mid : SubSeq(node, 1, mid)[i] = node[i]
  <2>1. \A i \in 1 .. mid : node[i] \in Cell(W)
    BY <1>1, <1>2
  <2>2. /\ SubSeq(node, 1, mid) \in Seq(Cell(W))
        /\ Len(SubSeq(node, 1, mid)) = IF 1 <= mid THEN mid - 1 + 1 ELSE 0
        /\ \A i \in 1 .. mid - 1 + 1 : SubSeq(node, 1, mid)[i] = node[1 + i - 1]
    BY <1>2, <2>1, SubSeqProperties
  <2> QED BY <1>2, <2>2
<1>4. /\ SubSeq(node, mid + 1, Len(node)) \in Seq(Cell(W))
      /\ Len(SubSeq(node, mid + 1, Len(node))) = Len(node) - mid
      /\ \A i \in 1 .. Len(node) - mid :
            SubSeq(node, mid + 1, Len(node))[i] = node[mid + i]
  <2>1. \A i \in mid + 1 .. Len(node) : node[i] \in Cell(W)
    BY <1>1, <1>2
  <2>2. mid + 1 \in Int /\ Len(node) \in Int
    BY <1>1, <1>2
  <2>3. /\ SubSeq(node, mid + 1, Len(node)) \in Seq(Cell(W))
        /\ Len(SubSeq(node, mid + 1, Len(node))) =
              IF mid + 1 <= Len(node) THEN Len(node) - (mid + 1) + 1 ELSE 0
        /\ \A i \in 1 .. Len(node) - (mid + 1) + 1 :
              SubSeq(node, mid + 1, Len(node))[i] = node[(mid + 1) + i - 1]
    BY <2>1, <2>2, SubSeqProperties
  <2>4. Len(node) - (mid + 1) + 1 = Len(node) - mid
        /\ \A i \in 1 .. Len(node) - mid : (mid + 1) + i - 1 = mid + i
    BY <1>1, <1>2
  <2>5. mid + 1 <= Len(node)
    BY <1>1, <1>2
  <2>6. Len(SubSeq(node, mid + 1, Len(node))) = Len(node) - mid
    BY <2>3, <2>4, <2>5
  <2>7. ASSUME NEW i \in 1 .. Len(node) - mid
        PROVE  SubSeq(node, mid + 1, Len(node))[i] = node[mid + i]
    <3>1. SubSeq(node, mid + 1, Len(node))[i] = node[(mid + 1) + i - 1]
      BY <2>3, <2>4
    <3> QED BY <2>4, <3>1
  <2> QED BY <2>3, <2>6, <2>7
<1>5. LeftHalf(node) = SubSeq(node, 1, mid)
      /\ RightHalf(node) = SubSeq(node, mid + 1, Len(node))
  BY DEF LeftHalf, RightHalf, mid
<1> QED BY <1>1, <1>2, <1>3, <1>4, <1>5

\* Splitting an ascending leaf loses no entry and separates the keys.
LEMMA HalvesAscending ==
  ASSUME NEW W, NEW node \in Seq(Cell(W)), Len(node) >= 2, Ascending(node)
  PROVE  /\ Ascending(LeftHalf(node))
         /\ Ascending(RightHalf(node))
         /\ \A k \in Keys(LeftHalf(node)), m \in Keys(RightHalf(node)) : k < m
         /\ RangeOf(LeftHalf(node)) \cup RangeOf(RightHalf(node)) = RangeOf(node)
         /\ Keys(LeftHalf(node)) \cup Keys(RightHalf(node)) = Keys(node)
<1> DEFINE left == LeftHalf(node)
           right == RightHalf(node)
<1>1. /\ Len(left) \in 1 .. Len(node) - 1
      /\ Len(right) \in 1 .. Len(node) - 1
      /\ Len(left) + Len(right) = Len(node)
      /\ \A i \in 1 .. Len(left) : left[i] = node[i]
      /\ \A i \in 1 .. Len(right) : right[i] = node[Len(left) + i]
      /\ DOMAIN left = 1 .. Len(left)
      /\ DOMAIN right = 1 .. Len(right)
  BY HalvesProperties, CellProperties
<1>2. /\ DOMAIN node = 1 .. Len(node) /\ Len(node) \in Nat
      /\ \A i \in 1 .. Len(node) : node[i].dst \in Nat
  BY CellProperties
<1> HIDE DEF left, right
<1>3. Ascending(left)
  BY <1>1, <1>2 DEF Ascending
<1>4. Ascending(right)
  <2> SUFFICES ASSUME NEW i \in 1 .. Len(right), NEW j \in 1 .. Len(right), i < j
               PROVE  right[i].dst < right[j].dst
    BY <1>1 DEF Ascending
  <2>1. /\ Len(left) + i \in 1 .. Len(node)
        /\ Len(left) + j \in 1 .. Len(node)
        /\ Len(left) + i < Len(left) + j
    BY <1>1, <1>2
  <2> QED BY <1>1, <1>2, <2>1 DEF Ascending
<1>5. ASSUME NEW i \in 1 .. Len(left), NEW j \in 1 .. Len(right)
      PROVE  left[i].dst < right[j].dst
  <2>1. i \in 1 .. Len(node) /\ Len(left) + j \in 1 .. Len(node) /\ i < Len(left) + j
    BY <1>1, <1>2
  <2> QED BY <1>1, <1>2, <2>1 DEF Ascending
<1>6. \A k \in Keys(left), m \in Keys(right) : k < m
  BY <1>1, <1>5 DEF Keys
<1>7. \A i \in 1 .. Len(node) : \/ i \in 1 .. Len(left) /\ node[i] = left[i]
                                \/ \E j \in 1 .. Len(right) : node[i] = right[j]
  <2> SUFFICES ASSUME NEW i \in 1 .. Len(node), i > Len(left)
               PROVE  \E j \in 1 .. Len(right) : node[i] = right[j]
    BY <1>1, <1>2
  <2>1. i - Len(left) \in 1 .. Len(right) /\ Len(left) + (i - Len(left)) = i
    BY <1>1, <1>2
  <2> QED BY <1>1, <2>1
<1>8. /\ \A i \in 1 .. Len(left) : \E j \in 1 .. Len(node) : left[i] = node[j]
      /\ \A i \in 1 .. Len(right) : \E j \in 1 .. Len(node) : right[i] = node[j]
  <2>1. \A i \in 1 .. Len(left) : i \in 1 .. Len(node)
    BY <1>1, <1>2
  <2>2. \A i \in 1 .. Len(right) : Len(left) + i \in 1 .. Len(node)
    BY <1>1, <1>2
  <2> QED BY <1>1, <2>1, <2>2
<1>9. RangeOf(left) \cup RangeOf(right) = RangeOf(node)
  <2>1. ASSUME NEW c \in RangeOf(node)
        PROVE  c \in RangeOf(left) \cup RangeOf(right)
    <3>1. PICK i \in 1 .. Len(node) : c = node[i]
      BY <1>2 DEF RangeOf
    <3>2. CASE i \in 1 .. Len(left) /\ node[i] = left[i]
      BY <1>1, <3>1, <3>2 DEF RangeOf
    <3>3. CASE \E j \in 1 .. Len(right) : node[i] = right[j]
      BY <1>1, <3>1, <3>3 DEF RangeOf
    <3> QED BY <1>7, <3>2, <3>3
  <2>2. RangeOf(left) \subseteq RangeOf(node)
    BY <1>1, <1>2, <1>8 DEF RangeOf
  <2>3. ASSUME NEW c \in RangeOf(right)
        PROVE  c \in RangeOf(node)
    <3>1. PICK i \in 1 .. Len(right) : c = right[i]
      BY <1>1 DEF RangeOf
    <3>2. PICK j \in 1 .. Len(node) : right[i] = node[j]
      BY <1>8
    <3> QED BY <1>2, <3>1, <3>2 DEF RangeOf
  <2> QED BY <2>1, <2>2, <2>3
<1>10. Keys(left) \cup Keys(right) = Keys(node)
  BY <1>9, KeysOfRange
<1> QED BY <1>3, <1>4, <1>6, <1>9, <1>10 DEF left, right

-----------------------------------------------------------------------------
(* Chains of leaves.                                                       *)

\* The chain of leaves of a tree between two insertions.
WellFormedChain(W, leaves) ==
  /\ leaves \in Seq(Seq(Cell(W)))
  /\ Len(leaves) >= 1
  /\ AscendingChain(leaves)
  /\ \A n \in 1 .. Len(leaves) : Len(leaves[n]) < BPlusTreeOrder
  /\ Len(leaves) > 1 => \A n \in 1 .. Len(leaves) : leaves[n] # << >>

\* The same in terms of keys, which hides the positions.
LEMMA ChainByKeys ==
  ASSUME NEW W, NEW leaves \in Seq(Seq(Cell(W)))
  PROVE  AscendingChain(leaves) <=>
           /\ \A n \in 1 .. Len(leaves) : Ascending(leaves[n])
           /\ \A m, n \in 1 .. Len(leaves) : m < n =>
                 \A k \in Keys(leaves[m]), l \in Keys(leaves[n]) : k < l
<1>1. DOMAIN leaves = 1 .. Len(leaves)
  BY LenProperties
<1>2. ASSUME NEW m, NEW n
      PROVE  (\A i \in DOMAIN leaves[m], j \in DOMAIN leaves[n] :
                 leaves[m][i].dst < leaves[n][j].dst)
               <=> (\A k \in Keys(leaves[m]), l \in Keys(leaves[n]) : k < l)
  BY DEF Keys
<1> QED BY <1>1, <1>2 DEF AscendingChain

LEMMA ChainProperties ==
  ASSUME NEW W, NEW leaves, WellFormedChain(W, leaves)
  PROVE  /\ Len(leaves) \in Nat
         /\ DOMAIN leaves = 1 .. Len(leaves)
         /\ \A n \in 1 .. Len(leaves) :
               /\ leaves[n] \in Seq(Cell(W))
               /\ Len(leaves) > 1 => 1 \in DOMAIN leaves[n]
               /\ Len(leaves) > 1 => leaves[n][1].dst \in Keys(leaves[n])
               /\ Keys(leaves[n]) \subseteq Nat
<1>1. leaves \in Seq(Seq(Cell(W)))
  BY DEF WellFormedChain
<1>2. Len(leaves) \in Nat /\ DOMAIN leaves = 1 .. Len(leaves)
  BY <1>1, LenProperties
<1>3. ASSUME NEW n \in 1 .. Len(leaves)
      PROVE  /\ leaves[n] \in Seq(Cell(W))
             /\ Len(leaves) > 1 => 1 \in DOMAIN leaves[n]
             /\ Keys(leaves[n]) \subseteq Nat
  <2>1. leaves[n] \in Seq(Cell(W))
    BY <1>1, ElementOfSeq
  <2>2. Keys(leaves[n]) \subseteq Nat
    BY <2>1, CellProperties DEF Keys
  <2>3. Len(leaves) > 1 => Len(leaves[n]) \in Nat \ {0}
    BY <2>1, EmptySeq DEF WellFormedChain
  <2> QED BY <2>1, <2>2, <2>3, CellProperties
<1> QED BY <1>2, <1>3 DEF Keys

\* A descent ends in a leaf between whose neighbours d lies.
LEMMA RouteProperties ==
  ASSUME NEW W, NEW leaves, WellFormedChain(W, leaves), NEW d \in Nat
  PROVE  /\ Route(leaves, d) \in 1 .. Len(leaves)
         /\ Route(leaves, d) > 1 => leaves[Route(leaves, d)][1].dst <= d
         /\ Route(leaves, d) < Len(leaves) => d < leaves[Route(leaves, d) + 1][1].dst
<1> DEFINE Ends == {i \in 1 .. Len(leaves) :
                      i < Len(leaves) => d < leaves[i + 1][1].dst}
<1>1. Len(leaves) \in Nat /\ Len(leaves) >= 1
  BY ChainProperties DEF WellFormedChain
<1>2. \A n \in 1 .. Len(leaves) : Len(leaves) > 1 => leaves[n][1].dst \in Nat
  BY ChainProperties
<1>3. Len(leaves) \in Ends /\ Ends \in SUBSET Nat
  BY <1>1
<1>4. PICK m \in Ends : \A k \in Ends : m <= k
  <2> HIDE DEF Ends
  <2> QED BY <1>3, LeastElement
<1>5. m > 1 => leaves[m][1].dst <= d
  <2> SUFFICES ASSUME m > 1
               PROVE  leaves[m][1].dst <= d
    OBVIOUS
  <2>1. /\ m - 1 \in 1 .. Len(leaves)
        /\ m - 1 < Len(leaves)
        /\ ~(m <= m - 1)
        /\ (m - 1) + 1 = m
        /\ Len(leaves) > 1
    BY <1>1
  <2>2. m - 1 \notin Ends
    BY <1>4, <2>1
  <2>3. ~(d < leaves[m][1].dst)
    BY <2>1, <2>2
  <2> QED BY <1>2, <2>1, <2>3
<1>6. \E i \in 1 .. Len(leaves) :
         /\ i > 1 => leaves[i][1].dst <= d
         /\ i < Len(leaves) => d < leaves[i + 1][1].dst
  BY <1>5
<1> QED BY <1>6 DEF Route

\* Every key left of the routed leaf is smaller than d or equal to it only in
\* that leaf; every key right of it is greater.
LEMMA RouteSeparates ==
  ASSUME NEW W, NEW leaves, WellFormedChain(W, leaves), NEW d \in Nat
  PROVE  /\ \A m \in 1 .. Len(leaves) : m < Route(leaves, d) =>
               \A k \in Keys(leaves[m]) : k < d
         /\ \A m \in 1 .. Len(leaves) : m > Route(leaves, d) =>
               \A k \in Keys(leaves[m]) : d < k
<1> DEFINE r == Route(leaves, d)
<1>1. /\ r \in 1 .. Len(leaves)
      /\ r > 1 => leaves[r][1].dst <= d
      /\ r < Len(leaves) => d < leaves[r + 1][1].dst
  BY RouteProperties
<1>2. /\ Len(leaves) \in Nat
      /\ \A n \in 1 .. Len(leaves) :
            /\ Len(leaves) > 1 => leaves[n][1].dst \in Keys(leaves[n])
            /\ Keys(leaves[n]) \subseteq Nat
            /\ DOMAIN leaves[n] = 1 .. Len(leaves[n])
            /\ Len(leaves) > 1 => 1 \in DOMAIN leaves[n]
  BY ChainProperties, CellProperties
<1>3. \A m, n \in 1 .. Len(leaves) : m < n =>
         \A k \in Keys(leaves[m]), l \in Keys(leaves[n]) : k < l
  BY ChainByKeys DEF WellFormedChain
<1>4. \A n \in 1 .. Len(leaves) : Ascending(leaves[n])
  BY ChainByKeys DEF WellFormedChain
<1> HIDE DEF r
<1>5. ASSUME NEW m \in 1 .. Len(leaves), m < r, NEW k \in Keys(leaves[m])
      PROVE  k < d
  <2>1. r > 1 /\ Len(leaves) > 1
    BY <1>1, <1>2, <1>5
  <2>2. k < leaves[r][1].dst
    BY <1>1, <1>2, <1>3, <1>5, <2>1
  <2>3. k \in Nat /\ leaves[r][1].dst \in Nat
    BY <1>1, <1>2, <2>1
  <2> QED BY <1>1, <2>1, <2>2, <2>3
<1>6. ASSUME NEW m \in 1 .. Len(leaves), m > r, NEW k \in Keys(leaves[m])
      PROVE  d < k
  <2>1. r < Len(leaves) /\ r + 1 \in 1 .. Len(leaves) /\ Len(leaves) > 1
    BY <1>1, <1>2, <1>6
  <2>2. k \in Nat /\ leaves[r + 1][1].dst \in Nat
    BY <1>2, <2>1
  <2>3. CASE m > r + 1
    <3>1. leaves[r + 1][1].dst < k
      BY <1>2, <1>3, <2>1, <2>3
    <3> QED BY <1>1, <2>1, <2>2, <3>1
  <2>4. CASE m = r + 1
    <3>1. PICK i \in DOMAIN leaves[m] : k = leaves[m][i].dst
      BY DEF Keys
    <3>2. i = 1 \/ leaves[m][1].dst < k
      BY <1>2, <1>4, <2>1, <2>4, <3>1 DEF Ascending
    <3> QED BY <1>1, <2>1, <2>2, <2>4, <3>1, <3>2
  <2> QED BY <2>3, <2>4, <1>1, <1>2, <1>6
<1> QED BY <1>5, <1>6 DEF r

\* A key that is stored is stored in the routed leaf and in no other.
LEMMA RouteFindsKey ==
  ASSUME NEW W, NEW leaves, WellFormedChain(W, leaves),
         NEW n \in 1 .. Len(leaves), NEW d \in Keys(leaves[n])
  PROVE  n = Route(leaves, d)
<1>1. d \in Nat /\ Len(leaves) \in Nat
  BY ChainProperties
<1>2. Route(leaves, d) \in 1 .. Len(leaves)
  BY <1>1, RouteProperties
<1>3. ~(n < Route(leaves, d)) /\ ~(n > Route(leaves, d))
  BY <1>1, RouteSeparates
<1> QED BY <1>1, <1>2, <1>3

-----------------------------------------------------------------------------
(* Insertion into the routed leaf.                                         *)

\* The leaf that takes the new entry, before it may split.
LEMMA GrownLeaf ==
  ASSUME NEW W, NEW leaves, WellFormedChain(W, leaves),
         NEW r \in 1 .. Len(leaves), NEW e \in Cell(W),
         e.dst \notin Keys(leaves[r])
  PROVE  /\ InsertSorted(leaves[r], e) \in Seq(Cell(W))
         /\ Len(InsertSorted(leaves[r], e)) = Len(leaves[r]) + 1
         /\ Len(leaves[r]) \in Nat
         /\ Ascending(InsertSorted(leaves[r], e))
<1> DEFINE node == leaves[r]
<1>1. node \in Seq(Cell(W)) /\ Len(node) \in Nat
  BY ChainProperties, CellProperties
<1>2. Ascending(node) /\ e.dst \notin Keys(node)
  BY ChainByKeys DEF WellFormedChain
<1> HIDE DEF node
<1>3. /\ InsertSorted(node, e) \in Seq(Cell(W))
      /\ Len(InsertSorted(node, e)) = Len(node) + 1
  BY <1>1, InsertSortedProperties
<1>4. Ascending(InsertSorted(node, e))
  BY <1>1, <1>2, InsertSortedAscending
<1> QED BY <1>1, <1>3, <1>4 DEF node

LEMMA GrownLeafRange ==
  ASSUME NEW W, NEW leaves, WellFormedChain(W, leaves),
         NEW r \in 1 .. Len(leaves), NEW e \in Cell(W)
  PROVE  RangeOf(InsertSorted(leaves[r], e)) = RangeOf(leaves[r]) \cup {e}
<1>1. leaves[r] \in Seq(Cell(W))
  BY ChainProperties
<1> QED BY <1>1, InsertSortedProperties

LEMMA GrownLeafKeys ==
  ASSUME NEW W, NEW leaves, WellFormedChain(W, leaves),
         NEW r \in 1 .. Len(leaves), NEW e \in Cell(W)
  PROVE  Keys(InsertSorted(leaves[r], e)) = Keys(leaves[r]) \cup {e.dst}
<1>1. leaves[r] \in Seq(Cell(W))
  BY ChainProperties
<1> QED BY <1>1, InsertSortedProperties

\* bplusInsertLeaf when the leaf has room.
LEMMA InsertWithoutSplit ==
  ASSUME NEW W, NEW leaves, WellFormedChain(W, leaves), NEW e \in Cell(W),
         e.dst \notin AllKeys(leaves), ~Splits(leaves[Route(leaves, e.dst)])
  PROVE  LET grown == InsertIntoLeaf(leaves, Route(leaves, e.dst), e)
         IN  /\ WellFormedChain(W, grown)
             /\ Len(grown) = Len(leaves)
             /\ AllKeys(grown) = AllKeys(leaves) \cup {e.dst}
             /\ AllEntries(grown) = AllEntries(leaves) \cup {e}
<1> DEFINE r == Route(leaves, e.dst)
           leaf == InsertSorted(leaves[r], e)
           grown == InsertIntoLeaf(leaves, r, e)
<1>1. e.dst \in Nat /\ r \in 1 .. Len(leaves)
  BY CellProperties, RouteProperties
<1>2. /\ leaves \in Seq(Seq(Cell(W)))
      /\ Len(leaves) \in Nat
      /\ Len(leaves) >= 1
      /\ DOMAIN leaves = 1 .. Len(leaves)
      /\ \A n \in 1 .. Len(leaves) : Keys(leaves[n]) \subseteq Nat
  BY ChainProperties DEF WellFormedChain
<1>3. /\ \A m \in 1 .. Len(leaves) : m < r => \A k \in Keys(leaves[m]) : k < e.dst
      /\ \A m \in 1 .. Len(leaves) : m > r => \A k \in Keys(leaves[m]) : e.dst < k
  BY <1>1, RouteSeparates
<1>4. e.dst \notin Keys(leaves[r])
  BY <1>1, <1>2 DEF AllKeys
<1>5. /\ leaf \in Seq(Cell(W))
      /\ Len(leaf) = Len(leaves[r]) + 1
      /\ Len(leaves[r]) \in Nat
      /\ Ascending(leaf)
      /\ RangeOf(leaf) = RangeOf(leaves[r]) \cup {e}
      /\ Keys(leaf) = Keys(leaves[r]) \cup {e.dst}
  <2> HIDE DEF r
  <2>1. /\ leaf \in Seq(Cell(W))
        /\ Len(leaf) = Len(leaves[r]) + 1
        /\ Len(leaves[r]) \in Nat
        /\ Ascending(leaf)
    BY <1>1, <1>4, GrownLeaf
  <2>2. RangeOf(leaf) = RangeOf(leaves[r]) \cup {e}
    BY <1>1, <1>4, GrownLeafRange
  <2>3. Keys(leaf) = Keys(leaves[r]) \cup {e.dst}
    BY <1>1, <1>4, GrownLeafKeys
  <2> QED BY <2>1, <2>2, <2>3
<1>6. grown = [leaves EXCEPT ![r] = leaf]
  BY DEF InsertIntoLeaf
<1>7. /\ \A n \in 1 .. Len(leaves) : Ascending(leaves[n])
      /\ \A m, n \in 1 .. Len(leaves) : m < n =>
            \A k \in Keys(leaves[m]), l \in Keys(leaves[n]) : k < l
      /\ \A n \in 1 .. Len(leaves) : Len(leaves[n]) < BPlusTreeOrder
      /\ Len(leaves) > 1 => \A n \in 1 .. Len(leaves) : leaves[n] # << >>
  BY ChainByKeys DEF WellFormedChain
<1>8. Len(leaf) < BPlusTreeOrder
  BY <1>5, BPlusTreeOrderAssumption DEF Splits
<1> HIDE DEF r, leaf, grown
<1>9. /\ grown \in Seq(Seq(Cell(W)))
      /\ Len(grown) = Len(leaves)
      /\ DOMAIN grown = 1 .. Len(leaves)
      /\ grown[r] = leaf
      /\ \A n \in 1 .. Len(leaves) : n # r => grown[n] = leaves[n]
  <2>1. /\ grown \in Seq(Seq(Cell(W)))
        /\ Len(grown) = Len(leaves)
        /\ \A n \in 1 .. Len(leaves) : grown[n] = IF n = r THEN leaf ELSE leaves[n]
    BY <1>1, <1>2, <1>5, <1>6, ExceptSeq
  <2> QED BY <1>1, <2>1, LenProperties
<1>10. ASSUME NEW m \in 1 .. Len(leaves), NEW n \in 1 .. Len(leaves), m < n,
              NEW k \in Keys(grown[m]), NEW l \in Keys(grown[n])
       PROVE  k < l
  <2>1. CASE m # r /\ n # r
    BY <1>7, <1>9, <1>10, <2>1
  <2>2. CASE m = r
    <3>1. l \in Keys(leaves[n]) /\ (k \in Keys(leaves[r]) \/ k = e.dst)
      BY <1>2, <1>5, <1>9, <1>10, <2>2
    <3> QED BY <1>3, <1>7, <1>10, <2>2, <3>1
  <2>3. CASE n = r
    <3>1. k \in Keys(leaves[m]) /\ (l \in Keys(leaves[r]) \/ l = e.dst)
      BY <1>2, <1>5, <1>9, <1>10, <2>3
    <3> QED BY <1>3, <1>7, <1>10, <2>3, <3>1
  <2> QED BY <2>1, <2>2, <2>3
<1>11. AscendingChain(grown)
  BY <1>5, <1>7, <1>9, <1>10, ChainByKeys
<1>12. ASSUME NEW n \in 1 .. Len(grown)
       PROVE  /\ Len(grown[n]) < BPlusTreeOrder
              /\ Len(grown) > 1 => grown[n] # << >>
  <2>1. leaf # << >>
    BY <1>5, EmptySeq
  <2>2. n \in 1 .. Len(leaves)
    BY <1>9
  <2>3. CASE n = r
    BY <1>8, <1>9, <2>1, <2>3
  <2>4. CASE n # r
    BY <1>7, <1>9, <2>2, <2>4
  <2> QED BY <2>3, <2>4
<1>13. WellFormedChain(W, grown)
  BY <1>2, <1>9, <1>11, <1>12 DEF WellFormedChain
<1>14. AllKeys(grown) = AllKeys(leaves) \cup {e.dst}
  BY <1>1, <1>2, <1>5, <1>9, ZenonT(40) DEF AllKeys
<1>15. AllEntries(grown) = AllEntries(leaves) \cup {e}
  BY <1>1, <1>2, <1>5, <1>9, ZenonT(40) DEF AllEntries
<1> QED BY <1>9, <1>13, <1>14, <1>15 DEF grown, r

\* bplusInsertLeaf when the leaf splits: one leaf more, and the new chain is
\* ascending again.
LEMMA InsertWithSplit ==
  ASSUME NEW W, NEW leaves, WellFormedChain(W, leaves), NEW e \in Cell(W),
         e.dst \notin AllKeys(leaves), Splits(leaves[Route(leaves, e.dst)])
  PROVE  LET grown == InsertIntoLeaf(leaves, Route(leaves, e.dst), e)
         IN  /\ WellFormedChain(W, grown)
             /\ Len(grown) = Len(leaves) + 1
             /\ AllKeys(grown) = AllKeys(leaves) \cup {e.dst}
             /\ AllEntries(grown) = AllEntries(leaves) \cup {e}
<1> DEFINE r == Route(leaves, e.dst)
           leaf == InsertSorted(leaves[r], e)
           left == LeftHalf(leaf)
           right == RightHalf(leaf)
           grown == InsertIntoLeaf(leaves, r, e)
           origin(j) == IF j <= r THEN j ELSE j - 1
<1>1. e.dst \in Nat /\ r \in 1 .. Len(leaves)
  BY CellProperties, RouteProperties
<1>2. /\ leaves \in Seq(Seq(Cell(W)))
      /\ Len(leaves) \in Nat
      /\ Len(leaves) >= 1
      /\ DOMAIN leaves = 1 .. Len(leaves)
      /\ \A n \in 1 .. Len(leaves) : leaves[n] \in Seq(Cell(W))
      /\ \A n \in 1 .. Len(leaves) : Keys(leaves[n]) \subseteq Nat
  BY ChainProperties DEF WellFormedChain
<1>3. /\ \A m \in 1 .. Len(leaves) : m < r => \A k \in Keys(leaves[m]) : k < e.dst
      /\ \A m \in 1 .. Len(leaves) : m > r => \A k \in Keys(leaves[m]) : e.dst < k
  BY <1>1, RouteSeparates
<1>4. e.dst \notin Keys(leaves[r])
  BY <1>1, <1>2 DEF AllKeys
<1>5. /\ \A n \in 1 .. Len(leaves) : Ascending(leaves[n])
      /\ \A m, n \in 1 .. Len(leaves) : m < n =>
            \A k \in Keys(leaves[m]), l \in Keys(leaves[n]) : k < l
      /\ \A n \in 1 .. Len(leaves) : Len(leaves[n]) < BPlusTreeOrder
      /\ Len(leaves) > 1 => \A n \in 1 .. Len(leaves) : leaves[n] # << >>
  BY ChainByKeys DEF WellFormedChain
<1>6. grown = [j \in 1 .. Len(leaves) + 1 |->
                 IF j < r THEN leaves[j]
                 ELSE IF j = r THEN left
                 ELSE IF j = r + 1 THEN right
                 ELSE leaves[j - 1]]
  BY DEF InsertIntoLeaf
<1> HIDE DEF r
<1>7. /\ leaf \in Seq(Cell(W))
      /\ Len(leaf) = Len(leaves[r]) + 1
      /\ Len(leaves[r]) \in Nat
      /\ Ascending(leaf)
  BY <1>1, <1>4, GrownLeaf
<1>8. RangeOf(leaf) = RangeOf(leaves[r]) \cup {e}
  BY <1>1, GrownLeafRange
<1>9. Keys(leaf) = Keys(leaves[r]) \cup {e.dst}
  BY <1>1, GrownLeafKeys
<1>10. Len(leaf) = BPlusTreeOrder /\ Len(leaf) >= 2 /\ BPlusTreeOrder \in Nat
  BY <1>1, <1>5, <1>7, BPlusTreeOrderAssumption DEF Splits, r
<1> HIDE DEF leaf
<1>11. /\ left \in Seq(Cell(W)) /\ right \in Seq(Cell(W))
       /\ Len(left) \in 1 .. Len(leaf) - 1
       /\ Len(right) \in 1 .. Len(leaf) - 1
  BY <1>7, <1>10, HalvesProperties
<1>12. /\ Ascending(left) /\ Ascending(right)
       /\ \A k \in Keys(left), l \in Keys(right) : k < l
  BY <1>7, <1>10, HalvesAscending
<1>13. RangeOf(left) \cup RangeOf(right) = RangeOf(leaf)
  BY <1>7, <1>10, HalvesAscending
<1>14. Keys(left) \cup Keys(right) = Keys(leaf)
  BY <1>13, KeysOfRange
<1>15. /\ Len(left) < BPlusTreeOrder /\ Len(right) < BPlusTreeOrder
       /\ left # << >> /\ right # << >>
  BY <1>10, <1>11, EmptySeq
<1> HIDE DEF left, right, grown
<1>16. /\ grown \in Seq(Seq(Cell(W)))
       /\ Len(grown) = Len(leaves) + 1
       /\ DOMAIN grown = 1 .. Len(leaves) + 1
  <2>1. \A j \in 1 .. Len(leaves) + 1 : grown[j] \in Seq(Cell(W))
    BY <1>1, <1>2, <1>6, <1>11
  <2> QED BY <1>2, <1>6, <2>1
<1>17. /\ grown[r] = left
       /\ grown[r + 1] = right
       /\ \A j \in 1 .. Len(leaves) + 1 :
             j # r /\ j # r + 1 => grown[j] = leaves[origin(j)]
       /\ \A j \in 1 .. Len(leaves) + 1 : origin(j) \in 1 .. Len(leaves)
       /\ \A j \in 1 .. Len(leaves) + 1 : j # r /\ j # r + 1 => origin(j) # r
       /\ origin(r) = r /\ origin(r + 1) = r
       /\ r \in 1 .. Len(leaves) + 1 /\ r + 1 \in 1 .. Len(leaves) + 1
  BY <1>1, <1>2, <1>6
<1>18. ASSUME NEW m \in 1 .. Len(leaves) + 1, NEW n \in 1 .. Len(leaves) + 1, m < n
       PROVE  origin(m) < origin(n) \/ (m = r /\ n = r + 1)
  <2>1. m \in Int /\ n \in Int /\ r \in Int
    BY <1>1, <1>2
  <2> QED BY <1>18, <2>1
<1>19. ASSUME NEW j \in 1 .. Len(leaves) + 1, NEW k \in Keys(grown[j])
       PROVE  k \in Keys(leaves[origin(j)]) \/ (origin(j) = r /\ k = e.dst)
  <2>1. CASE j # r /\ j # r + 1
    BY <1>17, <1>19, <2>1
  <2>2. CASE j = r \/ j = r + 1
    <3>1. k \in Keys(left) \cup Keys(right) /\ origin(j) = r
      BY <1>17, <1>19, <2>2
    <3> QED BY <1>9, <1>14, <3>1
  <2> QED BY <2>1, <2>2
<1> HIDE DEF origin
<1>20. ASSUME NEW m \in 1 .. Len(leaves) + 1, NEW n \in 1 .. Len(leaves) + 1, m < n,
              NEW k \in Keys(grown[m]), NEW l \in Keys(grown[n])
       PROVE  k < l
  <2>1. CASE m = r /\ n = r + 1
    BY <1>12, <1>17, <2>1, <1>20
  <2>2. CASE origin(m) < origin(n)
    <3>1. /\ origin(m) \in 1 .. Len(leaves)
          /\ origin(n) \in 1 .. Len(leaves)
          /\ k \in Keys(leaves[origin(m)]) \/ (origin(m) = r /\ k = e.dst)
          /\ l \in Keys(leaves[origin(n)]) \/ (origin(n) = r /\ l = e.dst)
      BY <1>17, <1>19
    <3>2. CASE k \in Keys(leaves[origin(m)]) /\ l \in Keys(leaves[origin(n)])
      BY <1>5, <2>2, <3>1, <3>2
    <3>3. CASE origin(m) = r /\ k = e.dst /\ l \in Keys(leaves[origin(n)])
      BY <1>3, <2>2, <3>1, <3>3
    <3>4. CASE origin(n) = r /\ l = e.dst /\ k \in Keys(leaves[origin(m)])
      BY <1>3, <2>2, <3>1, <3>4
    <3>5. ~(origin(m) = r /\ origin(n) = r)
      BY <1>1, <2>2
    <3> QED BY <3>1, <3>2, <3>3, <3>4, <3>5
  <2> QED BY <1>18, <1>20, <2>1, <2>2
<1>21. \A j \in 1 .. Len(leaves) + 1 : Ascending(grown[j])
  BY <1>5, <1>12, <1>17
<1>22. AscendingChain(grown)
  BY <1>16, <1>20, <1>21, ChainByKeys
<1>23. ASSUME NEW j \in 1 .. Len(leaves) + 1
       PROVE  Len(grown[j]) < BPlusTreeOrder /\ grown[j] # << >>
  <2>1. CASE j = r \/ j = r + 1
    BY <1>15, <1>17, <2>1
  <2>2. CASE j # r /\ j # r + 1
    <3>1. Len(leaves) > 1
      BY <1>1, <1>2, <1>17, <2>2
    <3> QED BY <1>5, <1>17, <2>2, <3>1
  <2> QED BY <2>1, <2>2
<1>24. WellFormedChain(W, grown)
  BY <1>2, <1>16, <1>22, <1>23 DEF WellFormedChain
<1>25. \A n \in 1 .. Len(leaves) : n # r =>
          \E j \in 1 .. Len(leaves) + 1 : grown[j] = leaves[n]
  <2> SUFFICES ASSUME NEW n \in 1 .. Len(leaves), n # r
               PROVE  \E j \in 1 .. Len(leaves) + 1 : grown[j] = leaves[n]
    OBVIOUS
  <2>1. CASE n < r
    BY <1>1, <1>2, <1>6, <2>1
  <2>2. CASE n > r
    <3>1. /\ n + 1 \in 1 .. Len(leaves) + 1
          /\ ~(n + 1 < r) /\ n + 1 # r /\ n + 1 # r + 1
          /\ (n + 1) - 1 = n
      BY <1>1, <1>2, <2>2
    <3>2. grown[n + 1] = leaves[n]
      BY <1>6, <3>1
    <3> QED BY <3>1, <3>2
  <2> QED BY <1>1, <1>2, <2>1, <2>2
<1>26. \A j \in 1 .. Len(leaves) + 1 :
          \/ grown[j] = left
          \/ grown[j] = right
          \/ \E n \in 1 .. Len(leaves) : n # r /\ grown[j] = leaves[n]
  BY <1>17
<1>27. AllKeys(grown) = AllKeys(leaves) \cup {e.dst}
  <2>1. AllKeys(grown) \subseteq AllKeys(leaves) \cup {e.dst}
    BY <1>1, <1>2, <1>9, <1>14, <1>16, <1>26 DEF AllKeys
  <2>2. \A n \in 1 .. Len(leaves) : n # r => Keys(leaves[n]) \subseteq AllKeys(grown)
    BY <1>16, <1>25 DEF AllKeys
  <2>3. Keys(left) \subseteq AllKeys(grown) /\ Keys(right) \subseteq AllKeys(grown)
    BY <1>16, <1>17 DEF AllKeys
  <2>4. Keys(leaves[r]) \subseteq AllKeys(grown) /\ e.dst \in AllKeys(grown)
    BY <1>9, <1>14, <2>3
  <2> QED BY <1>1, <1>2, <2>1, <2>2, <2>4, ZenonT(40) DEF AllKeys
<1>28. AllEntries(grown) = AllEntries(leaves) \cup {e}
  <2>1. AllEntries(grown) \subseteq AllEntries(leaves) \cup {e}
    BY <1>1, <1>2, <1>8, <1>13, <1>16, <1>26 DEF AllEntries
  <2>2. \A n \in 1 .. Len(leaves) : n # r => RangeOf(leaves[n]) \subseteq AllEntries(grown)
    BY <1>16, <1>25 DEF AllEntries
  <2>3. RangeOf(left) \subseteq AllEntries(grown) /\ RangeOf(right) \subseteq AllEntries(grown)
    BY <1>16, <1>17 DEF AllEntries
  <2>4. RangeOf(leaves[r]) \subseteq AllEntries(grown) /\ e \in AllEntries(grown)
    BY <1>8, <1>13, <2>3
  <2> QED BY <1>1, <1>2, <2>1, <2>2, <2>4 DEF AllEntries
<1> QED BY <1>16, <1>24, <1>27, <1>28 DEF grown, r

-----------------------------------------------------------------------------
(* Updates.                                                                *)

\* Overwriting weights moves no key.
LEMMA SameKeysSameShape ==
  ASSUME NEW W, NEW before, WellFormedChain(W, before),
         NEW after \in Seq(Seq(Cell(W))), Len(after) = Len(before),
         \A n \in 1 .. Len(before) : Len(after[n]) = Len(before[n]),
         \A n \in 1 .. Len(before) : \A i \in 1 .. Len(before[n]) :
            after[n][i].dst = before[n][i].dst
  PROVE  WellFormedChain(W, after)
<1>1. /\ Len(before) \in Nat
      /\ DOMAIN before = 1 .. Len(before)
      /\ DOMAIN after = 1 .. Len(before)
      /\ \A n \in 1 .. Len(before) : before[n] \in Seq(Cell(W))
      /\ \A n \in 1 .. Len(before) : after[n] \in Seq(Cell(W))
  BY ChainProperties, LenProperties, ElementOfSeq
<1>2. \A n \in 1 .. Len(before) :
         DOMAIN before[n] = 1 .. Len(before[n]) /\ DOMAIN after[n] = 1 .. Len(before[n])
  BY <1>1, LenProperties
<1>3. AscendingChain(before)
  BY DEF WellFormedChain
<1>4. AscendingChain(after)
  <2>1. ASSUME NEW n \in 1 .. Len(before)
        PROVE  Ascending(after[n])
    <3>1. /\ DOMAIN before[n] = 1 .. Len(before[n])
          /\ DOMAIN after[n] = 1 .. Len(before[n])
          /\ Ascending(before[n])
      BY <1>1, <1>2, <1>3 DEF AscendingChain
    <3>2. \A i \in 1 .. Len(before[n]) : after[n][i].dst = before[n][i].dst
      OBVIOUS
    <3> QED BY <3>1, <3>2, Zenon DEF Ascending
  <2>2. ASSUME NEW m \in 1 .. Len(before), NEW n \in 1 .. Len(before), m < n,
               NEW i \in 1 .. Len(before[m]), NEW j \in 1 .. Len(before[n])
        PROVE  after[m][i].dst < after[n][j].dst
    BY <1>1, <1>2, <1>3, <2>2 DEF AscendingChain
  <2> QED BY <1>1, <1>2, <2>1, <2>2 DEF AscendingChain
<1>5. \A n \in 1 .. Len(before) : before[n] # << >> => after[n] # << >>
  BY <1>1, EmptySeq
<1> QED BY <1>1, <1>4, <1>5 DEF WellFormedChain

LEMMA SameKeys ==
  ASSUME NEW W, NEW before \in Seq(Seq(Cell(W))),
         NEW after \in Seq(Seq(Cell(W))), Len(after) = Len(before),
         \A n \in 1 .. Len(before) : Len(after[n]) = Len(before[n]),
         \A n \in 1 .. Len(before) : \A i \in 1 .. Len(before[n]) :
            after[n][i].dst = before[n][i].dst
  PROVE  AllKeys(after) = AllKeys(before)
<1>1. /\ DOMAIN before = 1 .. Len(before)
      /\ DOMAIN after = 1 .. Len(before)
      /\ \A n \in 1 .. Len(before) : before[n] \in Seq(Cell(W))
      /\ \A n \in 1 .. Len(before) : after[n] \in Seq(Cell(W))
  BY LenProperties, ElementOfSeq
<1>2. \A n \in 1 .. Len(before) :
         DOMAIN before[n] = 1 .. Len(before[n]) /\ DOMAIN after[n] = 1 .. Len(before[n])
  BY <1>1, LenProperties
<1>3. \A n \in 1 .. Len(before) : Keys(after[n]) = Keys(before[n])
  BY <1>2, ZenonT(40) DEF Keys
<1> QED BY <1>1, <1>3 DEF AllKeys
=============================================================================
