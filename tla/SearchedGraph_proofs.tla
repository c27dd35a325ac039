------------------------ MODULE SearchedGraph_proofs ------------------------
(***************************************************************************)
(* What the proofs about the searches use of reachability and of lists,    *)
(* and induction over the numbers, for what is defined step by step: the   *)
(* vertices within k edges, the walks of k edges.                          *)
(***************************************************************************)
EXTENDS SearchedGraph, SequenceTheorems, FiniteSetTheorems, WellFoundedInduction,
        TLAPS

-----------------------------------------------------------------------------
(* Induction over the numbers, and functions defined by recursion.         *)

\* A set of numbers has a least one.
LEMMA LeastNatural ==
  ASSUME NEW T \in SUBSET Nat, NEW x \in T
  PROVE  \E m \in T : \A n \in T : m <= n
<1> DEFINE Less == {p \in Nat \X Nat : p[1] < p[2]}
<1>1. IsWellFoundedOn(Less, Nat)
  BY NatLessThanWellFounded DEF OpToRel
<1> HIDE DEF Less
<1>2. PICK m \in T : \A n \in T : <<n, m>> \notin Less
  BY <1>1, WFMin
<1>3. \A n \in T : ~(n < m)
  BY <1>2 DEF Less
<1> QED BY <1>2, <1>3

\* A set with 0 and the successor of every number in it has all numbers.
LEMMA SetInduction ==
  ASSUME NEW S, 0 \in S, \A n \in Nat : n \in S => n + 1 \in S
  PROVE  Nat \subseteq S
<1> SUFFICES ASSUME NEW x \in Nat, x \notin S PROVE FALSE
  OBVIOUS
<1> DEFINE T == {n \in Nat : n \notin S}
<1>1. PICK m \in T : \A n \in T : m <= n
  BY LeastNatural
<1>2. m # 0
  BY <1>1
<1>3. m - 1 \in Nat /\ m - 1 \notin T
  BY <1>1, <1>2
<1>4. m - 1 \in S
  BY <1>3
<1> QED BY <1>1, <1>3, <1>4

\* The same within 0 .. N.
LEMMA BoundedInduction ==
  ASSUME NEW N \in Nat, NEW S, 0 \in S,
         \A n \in 1 .. N : n - 1 \in S => n \in S
  PROVE  0 .. N \subseteq S
<1> DEFINE T == {n \in Nat : n \in 0 .. N => n \in S}
<1>1. 0 \in T
  OBVIOUS
<1>2. \A n \in Nat : n \in T => n + 1 \in T
  <2> SUFFICES ASSUME NEW n \in Nat, n \in T, n + 1 \in 0 .. N
               PROVE  n + 1 \in S
    OBVIOUS
  <2>1. n \in S /\ n + 1 \in 1 .. N /\ (n + 1) - 1 = n
    OBVIOUS
  <2> QED BY <2>1
<1>3. Nat \subseteq T
  <2> HIDE DEF T
  <2> QED BY <1>1, <1>2, SetInduction
<1> QED BY <1>3

\* g starts at a and goes on by step, up to N.
Iterates(g, N, a, step) ==
  \A k \in 0 .. N : g[k] = IF k = 0 THEN a ELSE step[g[k - 1]]

\* There is such a function: what a recursive definition chooses.
LEMMA RecursiveFunction ==
  ASSUME NEW N \in Nat, NEW V, NEW a \in V, NEW step \in [V -> V]
  PROVE  \E g \in [0 .. N -> V] : Iterates(g, N, a, step)
<1> DEFINE Upto(n, g) == Iterates(g, n, a, step)
           S == {n \in Nat : \E g \in [0 .. n -> V] : Upto(n, g)}
<1>1. 0 \in S
  <2>1. [k \in 0 .. 0 |-> a] \in [0 .. 0 -> V] /\ Upto(0, [k \in 0 .. 0 |-> a])
    BY DEF Iterates
  <2> QED BY <2>1
<1>2. ASSUME NEW n \in Nat, n \in S PROVE n + 1 \in S
  <2>1. PICK g \in [0 .. n -> V] : Upto(n, g)
    BY <1>2
  <2> DEFINE h == [k \in 0 .. n + 1 |-> IF k = n + 1 THEN step[g[n]] ELSE g[k]]
  <2>2. \A k \in 0 .. n + 1 : k = n + 1 \/ k \in 0 .. n
    OBVIOUS
  <2>3. step[g[n]] \in V
    BY <2>1
  <2>4. h \in [0 .. n + 1 -> V]
    BY <2>1, <2>2, <2>3
  <2>5. ASSUME NEW k \in 0 .. n + 1
        PROVE  h[k] = IF k = 0 THEN a ELSE step[h[k - 1]]
    <3>1. CASE k = n + 1
      BY <3>1
    <3>2. CASE k \in 0 .. n
      <4>1. h[k] = g[k] /\ (k # 0 => k - 1 \in 0 .. n /\ h[k - 1] = g[k - 1])
        BY <3>2
      <4> QED BY <2>1, <3>2, <4>1 DEF Iterates
    <3> QED BY <2>2, <3>1, <3>2
  <2> HIDE DEF h
  <2>6. \E f \in [0 .. n + 1 -> V] : Upto(n + 1, f)
    <3>1. Upto(n + 1, h)
      BY <2>5 DEF Iterates
    <3> HIDE DEF Upto
    <3> QED BY <2>4, <3>1
  <2> QED BY <2>6
<1>3. Nat \subseteq S
  <2> HIDE DEF S
  <2> QED BY <1>1, <1>2, SetInduction
<1> QED BY <1>3

-----------------------------------------------------------------------------
(* Reachability and lists.                                                 *)

\* The start can be reached, and so can the neighbours of what can be reached.
LEMMA ReachableIsClosed ==
  ASSUME NEW g \in Graphs, NEW s
  PROVE  /\ Reachable(g, s) \subseteq DOMAIN g
         /\ s \in DOMAIN g => s \in Reachable(g, s)
         /\ Closed(g, Reachable(g, s))
<1>1. \A v \in DOMAIN g : Neighbours(g, v) \subseteq DOMAIN g
  BY GraphsAssumption DEF Neighbours
<1>2. Closed(g, Reachable(g, s))
  BY <1>1 DEF Closed, Reachable
<1> QED BY <1>2 DEF Reachable

\* A closed set with the start in it has everything that can be reached.
LEMMA ReachableIsLeast ==
  ASSUME NEW g \in Graphs, NEW s, NEW S \in SUBSET DOMAIN g,
         s \in DOMAIN g => s \in S, Closed(g, S)
  PROVE  Reachable(g, s) \subseteq S
BY DEF Reachable

\* Taking the first element off a list.
LEMMA TakeFirst ==
  ASSUME NEW T, NEW list \in Seq(T), list # << >>
  PROVE  /\ Head(list) \in T
         /\ Tail(list) \in Seq(T)
         /\ Elements(list) = {Head(list)} \cup Elements(Tail(list))
         /\ OnceEach(list) => /\ OnceEach(Tail(list))
                              /\ Head(list) \notin Elements(Tail(list))
<1>1. /\ Head(list) \in T
      /\ Tail(list) \in Seq(T)
      /\ Len(list) \in Nat \ {0}
      /\ Len(Tail(list)) = Len(list) - 1
      /\ \A i \in 1 .. Len(Tail(list)) : Tail(list)[i] = list[i + 1]
      /\ Head(list) = list[1]
      /\ DOMAIN list = 1 .. Len(list)
      /\ DOMAIN Tail(list) = 1 .. Len(Tail(list))
  BY HeadTailProperties, EmptySeq, LenProperties
<1>2. Elements(list) = {Head(list)} \cup Elements(Tail(list))
  <2>1. ASSUME NEW i \in 1 .. Len(list)
        PROVE  list[i] \in {Head(list)} \cup Elements(Tail(list))
    <3>1. CASE i = 1
      BY <1>1, <3>1
    <3>2. CASE i # 1
      <4>1. i - 1 \in 1 .. Len(Tail(list)) /\ Tail(list)[i - 1] = list[i]
        BY <1>1, <3>2
      <4> QED BY <1>1, <4>1 DEF Elements
    <3> QED BY <3>1, <3>2
  <2>2. \A i \in 1 .. Len(Tail(list)) : i + 1 \in 1 .. Len(list)
    BY <1>1
  <2>3. 1 \in 1 .. Len(list)
    BY <1>1
  <2> QED BY <1>1, <2>1, <2>2, <2>3 DEF Elements
<1>3. ASSUME OnceEach(list)
      PROVE  OnceEach(Tail(list)) /\ Head(list) \notin Elements(Tail(list))
  <2>1. \A i \in 1 .. Len(Tail(list)) : i + 1 \in 1 .. Len(list) /\ i + 1 # 1
    BY <1>1
  <2>2. 1 \in 1 .. Len(list)
    BY <1>1
  <2>3. Head(list) \notin Elements(Tail(list))
    BY <1>1, <1>3, <2>1, <2>2 DEF Elements, OnceEach
  <2>4. ASSUME NEW i \in 1 .. Len(Tail(list)), NEW j \in 1 .. Len(Tail(list)),
               Tail(list)[i] = Tail(list)[j]
        PROVE  i = j
    BY <1>1, <1>3, <2>1, <2>4 DEF OnceEach
  <2> QED BY <1>1, <2>3, <2>4 DEF OnceEach
<1> QED BY <1>1, <1>2, <1>3

\* Adding an element at the end of a list.
LEMMA AddLast ==
  ASSUME NEW T, NEW list \in Seq(T), NEW x \in T
  PROVE  /\ Append(list, x) \in Seq(T)
         /\ Elements(Append(list, x)) = Elements(list) \cup {x}
         /\ OnceEach(list) /\ x \notin Elements(list) => OnceEach(Append(list, x))
<1> DEFINE longer == Append(list, x)
<1>1. /\ longer \in Seq(T)
      /\ Len(list) \in Nat
      /\ Len(longer) = Len(list) + 1
      /\ \A i \in 1 .. Len(list) : longer[i] = list[i]
      /\ longer[Len(list) + 1] = x
      /\ DOMAIN list = 1 .. Len(list)
      /\ DOMAIN longer = 1 .. Len(longer)
  BY AppendProperties, LenProperties
<1> HIDE DEF longer
<1>2. /\ \A i \in 1 .. Len(longer) : i \in 1 .. Len(list) \/ i = Len(list) + 1
      /\ \A i \in 1 .. Len(list) : i \in 1 .. Len(longer)
      /\ Len(list) + 1 \in 1 .. Len(longer)
  BY <1>1
<1>3. Elements(longer) = Elements(list) \cup {x}
  BY <1>1, <1>2 DEF Elements
<1>4. OnceEach(list) /\ x \notin Elements(list) => OnceEach(longer)
  BY <1>1, <1>2 DEF Elements, OnceEach
<1> QED BY <1>1, <1>3, <1>4 DEF longer

\* Adding an element in front of a list.
LEMMA AddFirst ==
  ASSUME NEW T, NEW list \in Seq(T), NEW x \in T
  PROVE  /\ <<x>> \o list \in Seq(T)
         /\ Elements(<<x>> \o list) = Elements(list) \cup {x}
<1> DEFINE longer == <<x>> \o list
<1>1. <<x>> \in Seq(T) /\ Len(<<x>>) = 1 /\ <<x>>[1] = x
  OBVIOUS
<1>2. /\ longer \in Seq(T)
      /\ Len(list) \in Nat
      /\ Len(longer) = 1 + Len(list)
      /\ \A i \in 1 .. 1 + Len(list) :
            longer[i] = IF i <= 1 THEN <<x>>[i] ELSE list[i - 1]
      /\ DOMAIN list = 1 .. Len(list)
      /\ DOMAIN longer = 1 .. Len(longer)
  BY <1>1, ConcatProperties, LenProperties
<1> HIDE DEF longer
<1>3. /\ longer[1] = x
      /\ \A i \in 1 .. Len(list) : i + 1 \in 1 .. Len(longer) /\ longer[i + 1] = list[i]
      /\ \A i \in 1 .. Len(longer) : i = 1 \/ (i - 1 \in 1 .. Len(list) /\ longer[i] = list[i - 1])
      /\ 1 \in 1 .. Len(longer)
  BY <1>1, <1>2
<1>4. ASSUME NEW i \in 1 .. Len(longer) PROVE longer[i] \in Elements(list) \cup {x}
  <2>1. CASE i = 1
    BY <1>3, <2>1
  <2>2. CASE i - 1 \in DOMAIN list /\ longer[i] = list[i - 1]
    BY <2>2 DEF Elements
  <2> QED BY <1>2, <1>3, <2>1, <2>2
<1>5. ASSUME NEW i \in 1 .. Len(list) PROVE list[i] \in Elements(longer)
  <2>1. i + 1 \in DOMAIN longer /\ longer[i + 1] = list[i]
    BY <1>2, <1>3
  <2> QED BY <2>1 DEF Elements
<1>6. x \in Elements(longer)
  BY <1>2, <1>3 DEF Elements
<1>7. Elements(longer) = Elements(list) \cup {x}
  BY <1>2, <1>4, <1>5, <1>6 DEF Elements
<1> QED BY <1>2, <1>7 DEF longer

\* One list after another.
LEMMA Joined ==
  ASSUME NEW T, NEW s \in Seq(T), NEW t \in Seq(T)
  PROVE  /\ s \o t \in Seq(T)
         /\ Len(s) \in Nat /\ Len(t) \in Nat
         /\ DOMAIN s = 1 .. Len(s) /\ DOMAIN t = 1 .. Len(t)
         /\ DOMAIN (s \o t) = 1 .. Len(s) + Len(t)
         /\ \A i \in 1 .. Len(s) : (s \o t)[i] = s[i]
         /\ \A i \in 1 .. Len(t) : (s \o t)[Len(s) + i] = t[i]
         /\ \A i \in 1 .. Len(s) + Len(t) :
               \/ i \in 1 .. Len(s)
               \/ i - Len(s) \in 1 .. Len(t) /\ (s \o t)[i] = t[i - Len(s)]
         /\ Elements(s \o t) = Elements(s) \cup Elements(t)
<1> DEFINE both == s \o t
<1>1. /\ both \in Seq(T)
      /\ Len(s) \in Nat /\ Len(t) \in Nat
      /\ Len(both) = Len(s) + Len(t)
      /\ \A i \in 1 .. Len(s) + Len(t) :
            both[i] = IF i <= Len(s) THEN s[i] ELSE t[i - Len(s)]
      /\ DOMAIN s = 1 .. Len(s)
      /\ DOMAIN t = 1 .. Len(t)
      /\ DOMAIN both = 1 .. Len(both)
  BY ConcatProperties, LenProperties
<1> HIDE DEF both
<1>2. /\ \A i \in 1 .. Len(s) : i \in 1 .. Len(s) + Len(t) /\ both[i] = s[i]
      /\ \A i \in 1 .. Len(t) : /\ Len(s) + i \in 1 .. Len(s) + Len(t)
                                /\ both[Len(s) + i] = t[i]
      /\ \A i \in 1 .. Len(s) + Len(t) :
            \/ i \in 1 .. Len(s)
            \/ i - Len(s) \in 1 .. Len(t) /\ both[i] = t[i - Len(s)]
  <2>1. \A i \in 1 .. Len(s) : i \in 1 .. Len(s) + Len(t) /\ both[i] = s[i]
    BY <1>1
  <2>2. ASSUME NEW i \in 1 .. Len(t)
        PROVE  Len(s) + i \in 1 .. Len(s) + Len(t) /\ both[Len(s) + i] = t[i]
    <3>1. /\ Len(s) + i \in 1 .. Len(s) + Len(t)
          /\ ~(Len(s) + i <= Len(s))
          /\ (Len(s) + i) - Len(s) = i
      BY <1>1
    <3> QED BY <1>1, <3>1
  <2>3. ASSUME NEW i \in 1 .. Len(s) + Len(t), i \notin 1 .. Len(s)
        PROVE  i - Len(s) \in 1 .. Len(t) /\ both[i] = t[i - Len(s)]
    BY <1>1, <2>3
  <2> QED BY <2>1, <2>2, <2>3
<1>3. Elements(both) = Elements(s) \cup Elements(t)
  <2>1. ASSUME NEW i \in DOMAIN both PROVE both[i] \in Elements(s) \cup Elements(t)
    <3>1. CASE i \in DOMAIN s /\ both[i] = s[i]
      BY <3>1 DEF Elements
    <3>2. CASE i - Len(s) \in DOMAIN t /\ both[i] = t[i - Len(s)]
      BY <3>2 DEF Elements
    <3> QED BY <1>1, <1>2, <3>1, <3>2
  <2>2. Elements(s) \subseteq Elements(both)
    BY <1>1, <1>2 DEF Elements
  <2>3. Elements(t) \subseteq Elements(both)
    <3>1. ASSUME NEW i \in 1 .. Len(t) PROVE t[i] \in Elements(both)
      <4>1. Len(s) + i \in DOMAIN both /\ both[Len(s) + i] = t[i]
        BY <1>1, <1>2
      <4> QED BY <4>1 DEF Elements
    <3> QED BY <1>1, <3>1 DEF Elements
  <2>4. Elements(both) \subseteq Elements(s) \cup Elements(t)
    BY <2>1 DEF Elements
  <2> QED BY <2>2, <2>3, <2>4
<1> QED BY <1>1, <1>2, <1>3 DEF both
=============================================================================
