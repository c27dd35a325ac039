-------------------------- MODULE Dijkstra_proofs --------------------------
(***************************************************************************)
(* dijkstra, on every graph.                                               *)
(*                                                                         *)
(* QueueInv makes no assumption on the weights: a vertex with a distance   *)
(* is queued with it, or its edges have been followed, those that          *)
(* forEachNeighbor is still to report aside.  When the queue is empty the  *)
(* vertices with a distance are those that can be reached, and none of     *)
(* their edges is negative.                                                *)
(*                                                                         *)
(* GreedyInv holds while no weight is negative and no sum wraps.  A vertex *)
(* that is not queued with its distance is settled.  No settled vertex is  *)
(* farther than what is queued, and no edge that was followed leads beyond *)
(* the distance of its end, so that every walk either ends in a settled    *)
(* vertex at no less than its distance or is no shorter than some queued   *)
(* distance: the least of these is the length of a shortest walk.          *)
(***************************************************************************)
EXTENDS Dijkstra, SearchedGraph_proofs

EdgesOf(g, v) == Elements(g[v])

Queued(v) == [dist |-> dist[v], vertex |-> v] \in pq

\* The edge e of u has been followed.
Followed(u, e) == ~(u = current.vertex /\ e \in Elements(rest))

DistInv ==
  /\ graph \in Graphs
  /\ DOMAIN dist \subseteq Reached
  /\ dist \in [DOMAIN dist -> Int]
  /\ pq \subseteq Item
  /\ \A p \in pq : p.vertex \in DOMAIN dist /\ p.dist >= dist[p.vertex]

ScanInv ==
  /\ current \in Item
  /\ rest \in Seq(Edge)
  /\ rest # << >> => /\ current.vertex \in DOMAIN dist
                     /\ Elements(rest) \subseteq EdgesOf(graph, current.vertex)
  /\ thrown => rest = << >> /\ pq = {} /\ ~NoneNegative

FollowedInv ==
  ~thrown =>
    /\ start \in DOMAIN graph => start \in DOMAIN dist
    /\ \A u \in DOMAIN dist : Queued(u) \/
          \A e \in EdgesOf(graph, u) :
             Followed(u, e) => e.weight >= 0 /\ e.dst \in DOMAIN dist

QueueInv == DistInv /\ ScanInv /\ FollowedInv

\* The edges of a vertex that can be reached lead to such vertices.
LEMMA EdgesStay ==
  ASSUME graph \in Graphs, NEW v \in Reached
  PROVE  /\ graph[v] \in Seq(Edge)
         /\ v \in DOMAIN graph /\ v \in Vertex
         /\ \A e \in EdgesOf(graph, v) : e \in Edge /\ e.dst \in Reached
<1>1. v \in DOMAIN graph /\ Neighbours(graph, v) \subseteq Reached
  BY ReachableIsClosed DEF Reached, Closed
<1>2. /\ graph[v] \in Seq(Edge) /\ v \in Vertex
      /\ \A i \in DOMAIN graph[v] : graph[v][i].dst \in DOMAIN graph
  BY <1>1, GraphsAssumption
<1>3. DOMAIN graph[v] = 1 .. Len(graph[v]) /\ \A i \in 1 .. Len(graph[v]) : graph[v][i] \in Edge
  BY <1>2, LenProperties, ElementOfSeq
<1> QED BY <1>1, <1>2, <1>3 DEF EdgesOf, Elements, Neighbours

LEMMA InitQueueInv == Init => QueueInv
<1> SUFFICES ASSUME Init PROVE QueueInv
  OBVIOUS
<1>1. /\ graph \in Graphs /\ start \in Vertex /\ rest = << >> /\ thrown = FALSE
      /\ current = [dist |-> 0, vertex |-> start]
      /\ DOMAIN dist = {start} \cap DOMAIN graph
      /\ \A v \in DOMAIN dist : dist[v] = 0
      /\ dist \in [DOMAIN dist -> Int]
      /\ pq = {[dist |-> 0, vertex |-> v] : v \in DOMAIN dist}
  BY StartsAssumption DEF Init
<1>2. DOMAIN dist \subseteq Reached
  BY <1>1, ReachableIsClosed DEF Reached
<1>3. current \in Item /\ pq \subseteq Item
  BY <1>1 DEF Item
<1>4. \A p \in pq : p.vertex \in DOMAIN dist /\ p.dist >= dist[p.vertex]
  BY <1>1
<1>5. \A v \in DOMAIN dist : Queued(v)
  BY <1>1 DEF Queued
<1>6. DistInv
  BY <1>1, <1>2, <1>3, <1>4 DEF DistInv
<1>7. ScanInv
  BY <1>1, <1>3 DEF ScanInv
<1>8. FollowedInv
  BY <1>1, <1>5 DEF FollowedInv
<1> QED BY <1>6, <1>7, <1>8 DEF QueueInv

\* The least pair is taken.  If it is not stale its vertex leaves the queue
\* and all its edges are still to be followed.
LEMMA PopQueueInv == QueueInv /\ Pop => QueueInv'
<1> SUFFICES ASSUME QueueInv, Pop PROVE QueueInv'
  OBVIOUS
<1>1. PICK top \in pq :
        /\ pq' = pq \ {top} /\ current' = top
        /\ rest' = IF top.dist > dist[top.vertex] THEN << >> ELSE graph[top.vertex]
        /\ rest = << >>
        /\ UNCHANGED <<graph, start, dist, thrown>>
  BY DEF Pop, Stale
<1> DEFINE u == top.vertex
<1>2. /\ ~thrown /\ top \in Item /\ u \in DOMAIN dist /\ u \in Reached
      /\ top.dist \in Int /\ dist[u] \in Int /\ top.dist >= dist[u]
      /\ graph \in Graphs
  BY <1>1 DEF QueueInv, DistInv, ScanInv, Item
<1>3. graph[u] \in Seq(Edge)
  BY <1>2, EdgesStay
<1>4. rest' \in Seq(Edge) /\ Elements(rest') \subseteq EdgesOf(graph, u)
  BY <1>1, <1>3 DEF EdgesOf, Elements
<1>5. ASSUME NEW v \in DOMAIN dist, NEW e \in EdgesOf(graph, v), Followed(v, e)',
             ~([dist |-> dist[v], vertex |-> v] \in pq')
      PROVE  e.weight >= 0 /\ e.dst \in DOMAIN dist
  <2>1. CASE Queued(v)
    <3>1. top = [dist |-> dist[v], vertex |-> v]
      BY <1>1, <1>5, <2>1 DEF Queued
    <3>2. rest' = graph[v] /\ current'.vertex = v
      BY <1>1, <1>2, <3>1
    <3>3. ~Followed(v, e)'
      BY <1>5, <3>2 DEF Followed, EdgesOf
    <3> QED BY <1>5, <3>3
  <2>2. CASE ~Queued(v)
    <3>1. Followed(v, e)
      BY <1>1 DEF Followed, Elements
    <3> QED BY <1>2, <1>5, <2>2, <3>1 DEF QueueInv, FollowedInv
  <2> QED BY <2>1, <2>2
<1>6. FollowedInv'
  <2>1. \A v \in DOMAIN dist : ~Queued(v)' => ~([dist |-> dist[v], vertex |-> v] \in pq')
    BY <1>1 DEF Queued
  <2>2. start \in DOMAIN graph => start \in DOMAIN dist
    BY <1>2 DEF QueueInv, FollowedInv
  <2> QED BY <1>1, <1>5, <2>1, <2>2 DEF FollowedInv
<1>7. DistInv'
  BY <1>1, <1>2 DEF QueueInv, DistInv, Reached
<1>8. ScanInv'
  BY <1>1, <1>2, <1>4 DEF ScanInv
<1> QED BY <1>6, <1>7, <1>8 DEF QueueInv

\* What following an edge does: the distance of its end is replaced by a lower
\* one and queued, or stays.
LEMMA RelaxStep ==
  ASSUME QueueInv, Relax
  PROVE  LET e == Head(rest)
             new_d == Sum(current.dist, e.weight)
         IN  /\ graph \in Graphs /\ ~thrown
             /\ current.vertex \in DOMAIN dist /\ current.vertex \in Reached
             /\ current.dist \in Int /\ new_d \in Int
             /\ e \in EdgesOf(graph, current.vertex)
             /\ e.weight \in Int /\ e.weight >= 0
             /\ e.dst \in Reached /\ e.dst \in Vertex
             /\ rest' = Tail(rest) /\ rest' \in Seq(Edge)
             /\ Elements(rest) = {e} \cup Elements(rest')
             /\ Elements(rest) \subseteq EdgesOf(graph, current.vertex)
             /\ UNCHANGED <<graph, start, current, thrown>>
             /\ dist' \in [DOMAIN dist' -> Int]
             /\ \/ /\ Better(e.dst, new_d)
                   /\ DOMAIN dist' = DOMAIN dist \cup {e.dst}
                   /\ dist'[e.dst] = new_d
                   /\ \A u \in DOMAIN dist : u # e.dst => dist'[u] = dist[u]
                   /\ pq' = pq \cup {[dist |-> new_d, vertex |-> e.dst]}
                \/ /\ ~Better(e.dst, new_d)
                   /\ UNCHANGED <<dist, pq>>
<1> DEFINE e == Head(rest)
           new_d == Sum(current.dist, e.weight)
<1>1. /\ rest # << >> /\ ~(e.weight < 0) /\ rest' = Tail(rest)
      /\ IF Better(e.dst, new_d)
           THEN /\ dist' = [u \in DOMAIN dist \cup {e.dst} |->
                              IF u = e.dst THEN new_d ELSE dist[u]]
                /\ pq' = pq \cup {[dist |-> new_d, vertex |-> e.dst]}
           ELSE UNCHANGED <<dist, pq>>
      /\ UNCHANGED <<graph, start, current, thrown>>
  BY DEF Relax, Negative
<1>2. /\ graph \in Graphs /\ ~thrown /\ rest \in Seq(Edge)
      /\ current.vertex \in DOMAIN dist /\ current.vertex \in Reached
      /\ current.dist \in Int
      /\ Elements(rest) \subseteq EdgesOf(graph, current.vertex)
  BY <1>1 DEF QueueInv, DistInv, ScanInv, Item
<1>3. /\ rest' \in Seq(Edge) /\ e \in Edge
      /\ Elements(rest) = {e} \cup Elements(rest')
  BY <1>1, <1>2, TakeFirst
<1> HIDE DEF e
<1>4. /\ e \in EdgesOf(graph, current.vertex)
      /\ e.dst \in Reached /\ e.dst \in Vertex
      /\ e.weight \in Int /\ e.weight >= 0
  <2>1. e \in EdgesOf(graph, current.vertex)
    BY <1>2, <1>3
  <2>2. e.dst \in Reached
    BY <1>2, <2>1, EdgesStay
  <2>3. e.dst \in Vertex /\ e.weight \in Int
    BY <1>3 DEF Edge
  <2> QED BY <1>1, <2>1, <2>2, <2>3
<1>5. new_d \in Int
  BY <1>2, <1>4, MaxWeightAssumption DEF Sum
<1> HIDE DEF new_d
<1>6. \/ /\ Better(e.dst, new_d)
         /\ DOMAIN dist' = DOMAIN dist \cup {e.dst}
         /\ dist'[e.dst] = new_d
         /\ \A u \in DOMAIN dist : u # e.dst => dist'[u] = dist[u]
         /\ pq' = pq \cup {[dist |-> new_d, vertex |-> e.dst]}
      \/ /\ ~Better(e.dst, new_d)
         /\ UNCHANGED <<dist, pq>>
  BY <1>1
<1>7. dist' \in [DOMAIN dist' -> Int]
  <2>1. dist \in [DOMAIN dist -> Int]
    BY DEF QueueInv, DistInv
  <2> QED BY <1>1, <1>5, <2>1
<1> QED BY <1>1, <1>2, <1>3, <1>4, <1>5, <1>6, <1>7 DEF e, new_d

LEMMA RelaxQueueInv == QueueInv /\ Relax => QueueInv'
<1> SUFFICES ASSUME QueueInv, Relax PROVE QueueInv'
  OBVIOUS
<1> DEFINE e == Head(rest)
           new_d == Sum(current.dist, e.weight)
           c == current.vertex
<1>1. /\ graph \in Graphs /\ ~thrown /\ c \in DOMAIN dist /\ c \in Reached
      /\ new_d \in Int
      /\ e \in EdgesOf(graph, c) /\ e.weight >= 0
      /\ e.dst \in Reached /\ e.dst \in Vertex
      /\ rest' \in Seq(Edge) /\ Elements(rest) = {e} \cup Elements(rest')
      /\ Elements(rest) \subseteq EdgesOf(graph, c)
      /\ UNCHANGED <<graph, start, current, thrown>>
      /\ dist' \in [DOMAIN dist' -> Int]
  BY RelaxStep
<1>2. \/ /\ Better(e.dst, new_d)
         /\ DOMAIN dist' = DOMAIN dist \cup {e.dst}
         /\ dist'[e.dst] = new_d
         /\ \A u \in DOMAIN dist : u # e.dst => dist'[u] = dist[u]
         /\ pq' = pq \cup {[dist |-> new_d, vertex |-> e.dst]}
      \/ /\ ~Better(e.dst, new_d)
         /\ UNCHANGED <<dist, pq>>
  BY RelaxStep
<1> HIDE DEF e, new_d
<1>3. e.dst \in DOMAIN dist' /\ DOMAIN dist \subseteq DOMAIN dist'
  BY <1>2 DEF Better
<1>4. DistInv'
  <2>1. CASE ~Better(e.dst, new_d)
    BY <1>1, <1>2, <2>1 DEF QueueInv, DistInv, Reached
  <2>2. CASE Better(e.dst, new_d)
    <3>1. [dist |-> new_d, vertex |-> e.dst] \in Item
      BY <1>1 DEF Item
    <3>2. \A v \in DOMAIN dist' : dist'[v] \in Int
      BY <1>1, <1>2, <2>2 DEF QueueInv, DistInv
    <3>3. \A v \in DOMAIN dist : dist'[v] <= dist[v]
      BY <1>1, <1>2, <2>2 DEF QueueInv, DistInv, Better
    <3>4. \A p \in pq' : p.vertex \in DOMAIN dist' /\ p.dist >= dist'[p.vertex]
      <4>1. ASSUME NEW p \in pq PROVE p.vertex \in DOMAIN dist' /\ p.dist >= dist'[p.vertex]
        <5>1. /\ p.dist \in Int /\ p.vertex \in DOMAIN dist /\ p.dist >= dist[p.vertex]
              /\ dist[p.vertex] \in Int
          BY DEF QueueInv, DistInv, Item
        <5> QED BY <1>3, <3>2, <3>3, <5>1
      <4>2. new_d >= dist'[e.dst]
        BY <1>1, <1>2, <2>2
      <4> QED BY <1>2, <1>3, <2>2, <4>1, <4>2
    <3> QED BY <1>1, <1>2, <2>2, <3>1, <3>2, <3>4 DEF QueueInv, DistInv, Reached
  <2> QED BY <2>1, <2>2
<1>5. ScanInv'
  BY <1>1, <1>3 DEF QueueInv, ScanInv
<1>6. ASSUME NEW u \in DOMAIN dist', NEW f \in EdgesOf(graph, u), ~Queued(u)', Followed(u, f)'
      PROVE  f.weight >= 0 /\ f.dst \in DOMAIN dist'
  <2>1. u \in DOMAIN dist /\ ~Queued(u)
    BY <1>1, <1>2, <1>6 DEF Queued
  <2>2. CASE Followed(u, f)
    BY <1>1, <1>3, <2>1, <2>2 DEF QueueInv, FollowedInv
  <2>3. CASE f = e
    BY <1>1, <1>3, <2>3
  <2> QED BY <1>1, <1>6, <2>2, <2>3 DEF Followed
<1>7. FollowedInv'
  BY <1>1, <1>3, <1>6 DEF QueueInv, FollowedInv
<1> QED BY <1>4, <1>5, <1>7 DEF QueueInv

\* A negative edge that forEachNeighbor reports can be reached.
LEMMA ThrowQueueInv == QueueInv /\ Throw => QueueInv'
<1> SUFFICES ASSUME QueueInv, Throw PROVE QueueInv'
  OBVIOUS
<1> DEFINE e == Head(rest)
           c == current.vertex
<1>1. /\ rest # << >> /\ e.weight < 0 /\ thrown' = TRUE
      /\ dist' = << >> /\ pq' = {} /\ rest' = << >>
      /\ UNCHANGED <<graph, start, current>>
  BY DEF Throw, Negative
<1>2. /\ graph \in Graphs /\ rest \in Seq(Edge) /\ c \in Reached
      /\ Elements(rest) \subseteq EdgesOf(graph, c)
  BY <1>1 DEF QueueInv, DistInv, ScanInv
<1>3. e \in EdgesOf(graph, c)
  BY <1>1, <1>2, TakeFirst
<1> HIDE DEF e
<1>4. ~NoneNegative
  <2>1. PICK i \in DOMAIN graph[c] : graph[c][i] = e
    BY <1>3 DEF EdgesOf, Elements
  <2>2. e.weight \in Int
    BY <1>2, <1>3, EdgesStay DEF Edge
  <2> QED BY <1>1, <1>2, <2>1, <2>2 DEF NoneNegative
<1>5. NoneNegative' <=> NoneNegative
  BY <1>1 DEF NoneNegative, Reached
<1>6. DOMAIN dist' = {} /\ dist' \in [{} -> Int]
  BY <1>1
<1>7. DistInv'
  BY <1>1, <1>2, <1>6 DEF DistInv
<1>8. ScanInv'
  BY <1>1, <1>4, <1>5 DEF QueueInv, ScanInv
<1>9. FollowedInv'
  BY <1>1 DEF FollowedInv
<1> QED BY <1>7, <1>8, <1>9 DEF QueueInv

LEMMA NextQueueInv == QueueInv /\ [Next]_vars => QueueInv'
<1>1. ASSUME QueueInv, UNCHANGED vars PROVE QueueInv'
  BY <1>1 DEF QueueInv, DistInv, ScanInv, FollowedInv, Queued, Followed, Reached,
              NoneNegative, vars
<1> QED BY <1>1, PopQueueInv, RelaxQueueInv, ThrowQueueInv DEF Next

LEMMA SearchInvariant == Spec => []QueueInv
BY InitQueueInv, NextQueueInv, PTL DEF Spec

\* When the queue is empty and nothing was thrown, the vertices with a
\* distance are those that can be reached, and none has a negative edge.
LEMMA ReturnedReachedAll ==
  ASSUME QueueInv, Returned, ~thrown
  PROVE  DOMAIN dist = Reached /\ NoneNegative
<1>1. \A u \in DOMAIN dist : \A e \in EdgesOf(graph, u) :
         e.weight >= 0 /\ e.dst \in DOMAIN dist
  BY DEF QueueInv, FollowedInv, Returned, Queued, Followed, Elements
<1>2. graph \in Graphs /\ DOMAIN dist \subseteq Reached /\ Reached \subseteq DOMAIN graph
  BY ReachableIsClosed DEF QueueInv, DistInv, Reached
<1>3. Closed(graph, DOMAIN dist)
  BY <1>1 DEF Closed, Neighbours, EdgesOf, Elements
<1>4. start \in DOMAIN graph => start \in DOMAIN dist
  BY DEF QueueInv, FollowedInv
<1>5. Reached \subseteq DOMAIN dist
  BY <1>2, <1>3, <1>4, ReachableIsLeast DEF Reached
<1>6. NoneNegative
  BY <1>1, <1>5 DEF NoneNegative, EdgesOf, Elements
<1> QED BY <1>2, <1>5, <1>6

\* dijkstra throws exactly if an edge that can be reached is negative.
THEOREM DijkstraThrowsOnNegativeEdge == Spec => []ThrowsOnNegativeEdge
<1>1. QueueInv => ThrowsOnNegativeEdge
  <2>1. ASSUME QueueInv, thrown PROVE ~NoneNegative
    BY <2>1 DEF QueueInv, ScanInv
  <2> QED BY <2>1, ReturnedReachedAll DEF ThrowsOnNegativeEdge
<1> QED BY <1>1, SearchInvariant, PTL

-----------------------------------------------------------------------------
(* Walks.                                                                  *)

Order == Cardinality(DOMAIN graph)

\* Walks, as its recursive definition says.
LEMMA WalksSteps ==
  ASSUME graph \in Graphs, start \in DOMAIN graph
  PROVE  /\ Order \in Nat
         /\ Walks[0] = {<<start, 0>>}
         /\ \A k \in 0 .. Order : Walks[k] \subseteq Vertex \X Int
         /\ \A k \in 1 .. Order : Walks[k] = Walks[k - 1] \cup
               UNION {{<<e.dst, w[2] + e.weight>> : e \in EdgesOf(graph, w[1])} :
                        w \in Walks[k - 1]}
<1> DEFINE V == SUBSET ((DOMAIN graph) \X Int)
           longer(W) == W \cup
             UNION {{<<graph[w[1]][i].dst, w[2] + graph[w[1]][i].weight>> :
                       i \in DOMAIN graph[w[1]]} : w \in W}
           step == [W \in V |-> longer(W)]
           walks(f) == [k \in 0 .. Order |->
                          IF k = 0 THEN {<<start, 0>>} ELSE longer(f[k - 1])]
<1>1. Order \in Nat
  BY GraphsAssumption, FS_CardinalityType DEF Order
<1>2. {<<start, 0>>} \in V /\ step \in [V -> V]
  <2>1. ASSUME NEW v \in DOMAIN graph, NEW i \in DOMAIN graph[v]
        PROVE  graph[v][i].dst \in DOMAIN graph /\ graph[v][i].weight \in Int
    <3>1. graph[v] \in Seq(Edge) /\ graph[v][i].dst \in DOMAIN graph
      BY GraphsAssumption
    <3>2. graph[v][i] \in Edge
      BY <3>1, LenProperties, ElementOfSeq
    <3> QED BY <3>1, <3>2 DEF Edge
  <2>2. ASSUME NEW W \in V, NEW x \in longer(W) PROVE x \in (DOMAIN graph) \X Int
    <3>1. CASE x \in W
      BY <3>1
    <3>2. ASSUME NEW w \in W, NEW i \in DOMAIN graph[w[1]],
                 x = <<graph[w[1]][i].dst, w[2] + graph[w[1]][i].weight>>
          PROVE  x \in (DOMAIN graph) \X Int
      <4>1. w[1] \in DOMAIN graph /\ w[2] \in Int
        OBVIOUS
      <4> QED BY <2>1, <3>2, <4>1
    <3> QED BY <2>2, <3>1, <3>2
  <2> HIDE DEF longer
  <2>3. \A W \in V : longer(W) \in V
    BY <2>2
  <2> QED BY <2>3
<1> HIDE DEF longer, V
<1>3. PICK g \in [0 .. Order -> V] : Iterates(g, Order, {<<start, 0>>}, step)
  <2> HIDE DEF step
  <2> QED BY <1>1, <1>2, RecursiveFunction
<1>4. g = walks(g)
  <2>1. \A k \in 0 .. Order : k = 0 \/ k - 1 \in 0 .. Order
    BY <1>1
  <2>2. \A k \in 0 .. Order : k # 0 => step[g[k - 1]] = longer(g[k - 1])
    BY <2>1, <1>3
  <2> QED BY <1>3, <2>2 DEF Iterates
<1>5. Walks = CHOOSE f : f = walks(f)
  BY DEF Walks, Order, longer
<1>6. Walks = walks(Walks)
  <2> HIDE DEF walks
  <2> QED BY <1>4, <1>5
<1>7. \A k \in 0 .. Order : Walks[k] =
         IF k = 0 THEN {<<start, 0>>} ELSE longer(Walks[k - 1])
  BY <1>6
<1> DEFINE S == {k \in 0 .. Order : Walks[k] \in V}
<1>8. 0 .. Order \subseteq S
  <2>1. 0 \in 0 .. Order /\ \A k \in 1 .. Order : k \in 0 .. Order /\ k # 0
    BY <1>1
  <2>2. \A W \in V : longer(W) \in V
    BY <1>2
  <2>3. 0 \in S /\ \A k \in 1 .. Order : k - 1 \in S => k \in S
    BY <1>2, <1>7, <2>1, <2>2
  <2> HIDE DEF S
  <2> QED BY <1>1, <2>3, BoundedInduction
<1>9. \A k \in 0 .. Order : Walks[k] \subseteq (DOMAIN graph) \X Int
  BY <1>8 DEF V
<1>10. (DOMAIN graph) \X Int \subseteq Vertex \X Int
  BY GraphsAssumption
<1>11. ASSUME NEW W
       PROVE  longer(W) = W \cup
                UNION {{<<e.dst, w[2] + e.weight>> : e \in EdgesOf(graph, w[1])} : w \in W}
  <2>1. \A w : {<<graph[w[1]][i].dst, w[2] + graph[w[1]][i].weight>> :
                  i \in DOMAIN graph[w[1]]}
               = {<<e.dst, w[2] + e.weight>> : e \in EdgesOf(graph, w[1])}
    BY DEF EdgesOf, Elements
  <2> QED BY <2>1 DEF longer
<1>12. \A k \in 1 .. Order : k \in 0 .. Order /\ k # 0
  BY <1>1
<1>13. Walks[0] = {<<start, 0>>}
  BY <1>1, <1>7
<1> QED BY <1>1, <1>7, <1>9, <1>10, <1>11, <1>12, <1>13

\* A walk of up to k edges that is no walk of k - 1 follows one of them along
\* an edge.
LEMMA WalkProperties ==
  ASSUME graph \in Graphs, start \in DOMAIN graph
  PROVE  /\ Order \in Nat
         /\ Walks[0] = {<<start, 0>>}
         /\ \A k \in 0 .. Order : \A w \in Walks[k] :
               /\ w \in Walks[Order]
               /\ w = <<w[1], w[2]>> /\ w[1] \in Reached /\ w[2] \in Int
         /\ \A k \in 1 .. Order :
               /\ Walks[k - 1] \subseteq Walks[k]
               /\ \A w \in Walks[k - 1] : \A e \in EdgesOf(graph, w[1]) :
                     <<e.dst, w[2] + e.weight>> \in Walks[k]
               /\ \A x \in Walks[k] : \/ x \in Walks[k - 1]
                                      \/ \E w \in Walks[k - 1] :
                                         \E e \in EdgesOf(graph, w[1]) :
                                            x = <<e.dst, w[2] + e.weight>>
<1>1. /\ Order \in Nat
      /\ Walks[0] = {<<start, 0>>}
      /\ \A k \in 0 .. Order : Walks[k] \subseteq Vertex \X Int
      /\ \A k \in 1 .. Order : Walks[k] = Walks[k - 1] \cup
            UNION {{<<e.dst, w[2] + e.weight>> : e \in EdgesOf(graph, w[1])} :
                     w \in Walks[k - 1]}
  BY WalksSteps
<1>2. ASSUME NEW k \in 1 .. Order
      PROVE  /\ Walks[k - 1] \subseteq Walks[k]
             /\ \A w \in Walks[k - 1] : \A e \in EdgesOf(graph, w[1]) :
                   <<e.dst, w[2] + e.weight>> \in Walks[k]
             /\ \A x \in Walks[k] : \/ x \in Walks[k - 1]
                                    \/ \E w \in Walks[k - 1] :
                                       \E e \in EdgesOf(graph, w[1]) :
                                          x = <<e.dst, w[2] + e.weight>>
  BY <1>1
<1>3. \A k \in 0 .. Order : \A w \in Walks[k] : w[1] \in Reached
  <2> DEFINE S == {k \in 0 .. Order : \A w \in Walks[k] : w[1] \in Reached}
  <2>1. 0 \in 0 .. Order /\ \A k \in 1 .. Order : k \in 0 .. Order
    BY <1>1
  <2>2. 0 \in S
    <3>1. start \in Reached
      BY ReachableIsClosed DEF Reached
    <3> QED BY <1>1, <2>1, <3>1
  <2>3. ASSUME NEW k \in 1 .. Order, k - 1 \in S PROVE k \in S
    <3> SUFFICES ASSUME NEW x \in Walks[k] PROVE x[1] \in Reached
      BY <2>1
    <3>1. CASE x \in Walks[k - 1]
      BY <2>3, <3>1
    <3>2. ASSUME NEW w \in Walks[k - 1], NEW e \in EdgesOf(graph, w[1]),
                 x = <<e.dst, w[2] + e.weight>>
          PROVE  x[1] \in Reached
      <4>1. w[1] \in Reached
        BY <2>3
      <4>2. e.dst \in Reached
        BY <4>1, EdgesStay
      <4> QED BY <3>2, <4>2
    <3> QED BY <1>2, <3>1, <3>2
  <2>4. 0 .. Order \subseteq S
    <3> HIDE DEF S
    <3> QED BY <1>1, <2>2, <2>3, BoundedInduction
  <2> QED BY <2>4
<1>4. \A k \in 0 .. Order : Walks[k] \subseteq Walks[Order]
  <2> DEFINE S == {k \in 0 .. Order : \A j \in 0 .. k : Walks[j] \subseteq Walks[k]}
  <2>1. 0 \in S
    BY <1>1
  <2>2. ASSUME NEW k \in 1 .. Order, k - 1 \in S PROVE k \in S
    <3>1. k \in 0 .. Order /\ \A j \in 0 .. k : j = k \/ j \in 0 .. k - 1
      BY <1>1
    <3>2. Walks[k - 1] \subseteq Walks[k]
      BY <1>2
    <3> QED BY <2>2, <3>1, <3>2
  <2>3. 0 .. Order \subseteq S
    <3> HIDE DEF S
    <3> QED BY <1>1, <2>1, <2>2, BoundedInduction
  <2>4. Order \in 0 .. Order
    BY <1>1
  <2> QED BY <2>3, <2>4
<1>5. \A w \in Vertex \X Int : w = <<w[1], w[2]>> /\ w[2] \in Int
  OBVIOUS
<1> QED BY <1>1, <1>2, <1>3, <1>4, <1>5

\* The length of a walk that no walk to its end undercuts.
LEMMA LeastIsShortest ==
  ASSUME graph \in Graphs, start \in DOMAIN graph, NEW v \in Reached, NEW d \in Int,
         <<v, d>> \in Walks[Order],
         \A w \in Walks[Order] : w[1] = v => d <= w[2]
  PROVE  Shortest[v] = d
<1> DEFINE lengths == {w[2] : w \in {u \in Walks[Order] : u[1] = v}}
<1>1. Shortest[v] = CHOOSE l \in lengths : \A m \in lengths : l <= m
  BY DEF Shortest, Order
<1>2. \A l \in lengths : l \in Int /\ d <= l
  <2>1. Order \in 0 .. Order
    BY WalkProperties
  <2> QED BY <2>1, WalkProperties
<1>3. d \in lengths
  OBVIOUS
<1> HIDE DEF lengths
<1>4. \A l, m \in lengths : (\A n \in lengths : l <= n) /\ (\A n \in lengths : m <= n) => l = m
  BY <1>2
<1> QED BY <1>1, <1>2, <1>3, <1>4

-----------------------------------------------------------------------------
(* The greedy choice.                                                      *)

\* The weights the search is made for.
Fit == SumsFit /\ NoneNegative

\* The vertices whose distance is not queued.
Settled == {v \in DOMAIN dist : ~Queued(v)}

\* What is queued, and what is being followed, is no nearer than what is
\* settled.
FrontierInv ==
  /\ \A v \in Settled : \A p \in pq : dist[v] <= p.dist
  /\ rest # << >> => /\ current.vertex \in Settled
                     /\ dist[current.vertex] = current.dist
                     /\ \A v \in Settled : dist[v] <= current.dist
                     /\ \A p \in pq : current.dist <= p.dist

\* No edge that was followed leads past the distance of its end.
RelaxedInv ==
  /\ start \in DOMAIN graph => dist[start] = 0
  /\ \A v \in DOMAIN dist : dist[v] >= 0
  /\ \A u \in Settled : \A e \in EdgesOf(graph, u) :
        Followed(u, e) => dist[e.dst] <= dist[u] + e.weight

\* Distances are lengths of walks; settled ones are the lengths of shortest
\* walks.
WalkInv ==
  /\ \A v \in DOMAIN dist : <<v, dist[v]>> \in Walks[Cardinality(Settled)]
  /\ rest # << >> =>
        <<current.vertex, current.dist>> \in Walks[Cardinality(Settled) - 1]
  /\ \A v \in Settled : dist[v] = Shortest[v]

GreedyInv == Fit => FrontierInv /\ RelaxedInv /\ WalkInv

LEMMA InitGreedyInv == Init => GreedyInv
<1> SUFFICES ASSUME Init PROVE GreedyInv
  OBVIOUS
<1>1. /\ graph \in Graphs /\ rest = << >>
      /\ DOMAIN dist = {start} \cap DOMAIN graph
      /\ \A v \in DOMAIN dist : dist[v] = 0
      /\ pq = {[dist |-> 0, vertex |-> v] : v \in DOMAIN dist}
  BY DEF Init
<1>2. Settled = {}
  BY <1>1 DEF Settled, Queued
<1>3. FrontierInv
  BY <1>1, <1>2 DEF FrontierInv
<1>4. RelaxedInv
  BY <1>1, <1>2 DEF RelaxedInv
<1>5. WalkInv
  <2>1. Cardinality(Settled) = 0
    BY <1>2, FS_EmptySet
  <2>2. ASSUME NEW v \in DOMAIN dist PROVE <<v, dist[v]>> \in Walks[0]
    BY <1>1, WalkProperties
  <2> QED BY <1>1, <1>2, <2>1, <2>2 DEF WalkInv
<1> QED BY <1>3, <1>4, <1>5 DEF GreedyInv

LEMMA CountWithin ==
  ASSUME graph \in Graphs, NEW S \in SUBSET Reached
  PROVE  IsFiniteSet(S) /\ Order \in Nat /\ Cardinality(S) \in 0 .. Order
<1>1. S \subseteq DOMAIN graph
  BY ReachableIsClosed DEF Reached
<1>2. IsFiniteSet(DOMAIN graph)
  BY GraphsAssumption
<1>3. /\ IsFiniteSet(S) /\ Cardinality(S) \in Nat
      /\ Order \in Nat /\ Cardinality(S) <= Order
  BY <1>1, <1>2, FS_Subset, FS_CardinalityType DEF Order
<1> QED BY <1>3

\* Weights that fit, as the steps of the search use them.
LEMMA FitEdges ==
  ASSUME Fit, graph \in Graphs, NEW v \in Reached, NEW e \in EdgesOf(graph, v)
  PROVE  /\ e.weight \in Int /\ e.weight >= 0
         /\ Shortest[v] + e.weight <= MaxWeight
<1>1. PICK i \in DOMAIN graph[v] : e = graph[v][i]
  BY DEF EdgesOf, Elements
<1>2. e.weight >= 0 /\ Shortest[v] + e.weight <= MaxWeight
  BY <1>1 DEF Fit, NoneNegative, SumsFit
<1>3. e.weight \in Int
  BY EdgesStay DEF Edge
<1> QED BY <1>2, <1>3

\* Between two turns of the loop a walk ends in a settled vertex, at no less
\* than its distance, or some queued distance is no longer than the walk.
LEMMA FrontierBounds ==
  ASSUME QueueInv, GreedyInv, Fit, ~thrown, rest = << >>, start \in DOMAIN graph
  PROVE  \A k \in 0 .. Order : \A w \in Walks[k] :
            \/ w[1] \in Settled /\ dist[w[1]] <= w[2]
            \/ \E p \in pq : p.dist <= w[2]
<1> DEFINE Bounded(w) == \/ w[1] \in Settled /\ dist[w[1]] <= w[2]
                         \/ \E p \in pq : p.dist <= w[2]
           S == {k \in 0 .. Order : \A w \in Walks[k] : Bounded(w)}
<1>1. /\ graph \in Graphs /\ Order \in Nat /\ RelaxedInv
      /\ start \in DOMAIN dist /\ dist \in [DOMAIN dist -> Int]
      /\ pq \subseteq Item
  BY WalkProperties DEF QueueInv, DistInv, FollowedInv, GreedyInv
<1>2. \A v \in DOMAIN dist : v \in Settled \/ [dist |-> dist[v], vertex |-> v] \in pq
  BY DEF Settled, Queued
<1>3. 0 \in S
  <2>1. Walks[0] = {<<start, 0>>} /\ 0 \in 0 .. Order
    BY <1>1, WalkProperties
  <2>2. dist[start] = 0
    BY <1>1 DEF RelaxedInv
  <2>3. Bounded(<<start, 0>>)
    <3>1. CASE start \in Settled
      BY <2>2, <3>1
    <3>2. CASE [dist |-> dist[start], vertex |-> start] \in pq
      BY <2>2, <3>2
    <3> QED BY <1>1, <1>2, <3>1, <3>2
  <2> HIDE DEF Bounded
  <2> QED BY <2>1, <2>3
<1>4. ASSUME NEW k \in 1 .. Order, k - 1 \in S PROVE k \in S
  <2>1. k \in 0 .. Order /\ k - 1 \in 0 .. Order
    BY <1>1
  <2> SUFFICES ASSUME NEW x \in Walks[k] PROVE Bounded(x)
    BY <2>1
  <2>2. CASE x \in Walks[k - 1]
    BY <1>4, <2>2
  <2>3. ASSUME NEW w \in Walks[k - 1], NEW e \in EdgesOf(graph, w[1]),
               x = <<e.dst, w[2] + e.weight>>
        PROVE  Bounded(x)
    <3>1. /\ w[1] \in Reached /\ w[2] \in Int
          /\ e.weight \in Int /\ e.weight >= 0
      BY <1>1, <2>1, WalkProperties, FitEdges
    <3>2. x[1] = e.dst /\ x[2] = w[2] + e.weight
      BY <2>3
    <3>3. CASE \E p \in pq : p.dist <= w[2]
      <4>1. PICK p \in pq : p.dist <= w[2]
        BY <3>3
      <4>2. p.dist \in Int
        BY <1>1 DEF Item
      <4>3. p.dist <= x[2]
        BY <3>1, <3>2, <4>1, <4>2
      <4> QED BY <4>3
    <3>4. CASE w[1] \in Settled /\ dist[w[1]] <= w[2]
      <4>1. Followed(w[1], e)
        BY DEF Followed, Elements
      <4>2. dist[e.dst] <= dist[w[1]] + e.weight /\ e.dst \in DOMAIN dist
        BY <1>1, <3>4, <4>1 DEF RelaxedInv, QueueInv, FollowedInv, Settled
      <4>3. dist[e.dst] <= x[2]
        <5>1. dist[e.dst] \in Int /\ dist[w[1]] \in Int
          BY <1>1, <3>4, <4>2 DEF Settled
        <5> QED BY <3>1, <3>2, <3>4, <4>2, <5>1
      <4>4. CASE e.dst \in Settled
        BY <3>2, <4>3, <4>4
      <4>5. CASE [dist |-> dist[e.dst], vertex |-> e.dst] \in pq
        BY <4>3, <4>5
      <4> QED BY <1>2, <4>2, <4>4, <4>5
    <3>5. Bounded(w)
      BY <1>4
    <3> HIDE DEF Bounded
    <3> QED BY <3>3, <3>4, <3>5 DEF Bounded
  <2> HIDE DEF Bounded
  <2> QED BY <2>1, <2>2, <2>3, <1>1, WalkProperties
<1>5. 0 .. Order \subseteq S
  <2> HIDE DEF S
  <2> QED BY <1>1, <1>3, <1>4, BoundedInduction
<1> QED BY <1>5

\* What depends on the graph and the start only.
LEMMA SameGraph ==
  ASSUME UNCHANGED <<graph, start>>
  PROVE  UNCHANGED <<Reached, Walks, Shortest, Order>> /\ (Fit' <=> Fit)
<1>1. UNCHANGED <<Reached, Walks, Order>>
  BY DEF Reached, Walks, Order
<1>2. UNCHANGED Shortest
  BY <1>1 DEF Shortest
<1>3. Fit' <=> Fit
  BY <1>1, <1>2 DEF Fit, SumsFit, NoneNegative
<1> QED BY <1>1, <1>2, <1>3

\* A stale pair leaves the queue and nothing else changes; otherwise the
\* least of the queued distances is that of a shortest walk, and is settled.
LEMMA PopGreedyInv == QueueInv /\ GreedyInv /\ Pop => GreedyInv'
<1> SUFFICES ASSUME QueueInv, GreedyInv, Pop PROVE GreedyInv'
  OBVIOUS
<1>0. UNCHANGED <<graph, start>>
  BY DEF Pop
<1> SUFFICES ASSUME Fit PROVE (FrontierInv /\ RelaxedInv /\ WalkInv)'
  BY <1>0, SameGraph DEF GreedyInv
<1>1. PICK top \in pq :
        /\ \A p \in pq : NotAfter(top, p)
        /\ pq' = pq \ {top} /\ current' = top
        /\ rest' = IF top.dist > dist[top.vertex] THEN << >> ELSE graph[top.vertex]
        /\ rest = << >>
        /\ UNCHANGED <<graph, start, dist, thrown>>
  BY DEF Pop, Stale
<1> DEFINE u == top.vertex
<1>2. /\ ~thrown /\ top \in Item /\ u \in DOMAIN dist /\ u \in Reached
      /\ top.dist \in Int /\ top.dist >= dist[u]
      /\ graph \in Graphs /\ dist \in [DOMAIN dist -> Int] /\ pq \subseteq Item
  BY <1>1 DEF QueueInv, DistInv, ScanInv, Item
<1>3. start \in DOMAIN graph
  BY <1>2 DEF Reached, Reachable
<1>4. FrontierInv /\ RelaxedInv /\ WalkInv
  BY DEF GreedyInv
<1>5. UNCHANGED <<Reached, Walks, Shortest, Order>>
  BY <1>1, SameGraph
<1>6. \A p \in pq : p.dist \in Int /\ top.dist <= p.dist
  BY <1>1, <1>2 DEF NotAfter, Item
<1>7. \A v, e : Followed(v, e)
  BY <1>1 DEF Followed, Elements
<1>8. \A v \in Settled : v \in DOMAIN dist /\ dist[v] \in Int
  BY <1>2 DEF Settled
<1>9. \A v \in Settled : dist[v] <= top.dist
  BY <1>4 DEF FrontierInv
<1>10. CASE top.dist > dist[u]
  <2>1. rest' = << >>
    BY <1>1, <1>10
  <2>2. \A v \in DOMAIN dist : [dist |-> dist[v], vertex |-> v] # top
    BY <1>2, <1>10
  <2>3. Settled' = Settled
    BY <1>1, <2>2 DEF Settled, Queued
  <2>4. FrontierInv'
    BY <1>1, <1>4, <2>1, <2>3 DEF FrontierInv
  <2>5. RelaxedInv'
    BY <1>1, <1>4, <1>7, <2>3 DEF RelaxedInv
  <2>6. WalkInv'
    BY <1>1, <1>4, <1>5, <2>1, <2>3 DEF WalkInv
  <2> QED BY <2>4, <2>5, <2>6
<1>11. CASE ~(top.dist > dist[u])
  <2>1. rest' = graph[u]
    BY <1>1, <1>11
  <2>2. top.dist = dist[u]
    BY <1>2, <1>11
  <2>3. top = [dist |-> dist[u], vertex |-> u]
    BY <1>2, <2>2 DEF Item
  <2>4. \A v \in DOMAIN dist : [dist |-> dist[v], vertex |-> v] = top <=> v = u
    BY <2>3
  <2>5. Settled' = Settled \cup {u} /\ u \notin Settled
    BY <1>1, <1>2, <2>4 DEF Settled, Queued
  <2>6. /\ Cardinality(Settled') = Cardinality(Settled) + 1
        /\ Cardinality(Settled) + 1 \in 1 .. Order
        /\ Cardinality(Settled) \in Nat
    <3>1. /\ IsFiniteSet(Settled) /\ Cardinality(Settled) \in 0 .. Order
          /\ Order \in Nat
          /\ Settled \subseteq Reached
      <4>1. Settled \subseteq Reached
        BY DEF QueueInv, DistInv, Settled
      <4> QED BY <1>2, <4>1, CountWithin
    <3>2. Cardinality(Settled') \in 0 .. Order
      BY <1>2, <2>5, <3>1, CountWithin
    <3>3. Cardinality(Settled') = Cardinality(Settled) + 1
      BY <2>5, <3>1, FS_AddElement
    <3> QED BY <3>1, <3>2, <3>3
  <2>7. Walks[Cardinality(Settled)] \subseteq Walks[Cardinality(Settled')]
    BY <1>2, <1>3, <2>6, WalkProperties
  <2>8. <<u, dist[u]>> \in Walks[Cardinality(Settled)]
    BY <1>2, <1>4 DEF WalkInv
  <2>9. dist[u] = Shortest[u]
    <3>1. <<u, dist[u]>> \in Walks[Order]
      BY <1>2, <1>3, <2>6, <2>8, WalkProperties
    <3>2. ASSUME NEW w \in Walks[Order], w[1] = u PROVE dist[u] <= w[2]
      <4>1. Order \in 0 .. Order
        BY <1>2, <1>3, WalkProperties
      <4>2. w[2] \in Int
        BY <1>2, <1>3, <4>1, WalkProperties
      <4>3. PICK p \in pq : p.dist <= w[2]
        BY <1>1, <1>2, <1>3, <2>5, <3>2, <4>1, FrontierBounds
      <4> QED BY <1>6, <2>2, <4>2, <4>3
    <3>3. dist[u] \in Int
      BY <1>2
    <3> QED BY <1>2, <1>3, <3>1, <3>2, <3>3, LeastIsShortest
  <2>10. FrontierInv'
    <3>1. \A v \in Settled' : dist[v] <= top.dist
      BY <1>2, <1>9, <2>2, <2>5
    <3>2. \A v \in Settled' : \A p \in pq' : dist[v] <= p.dist
      <4> SUFFICES ASSUME NEW v \in Settled', NEW p \in pq' PROVE dist[v] <= p.dist
        OBVIOUS
      <4>1. p \in pq /\ dist[v] \in Int
        BY <1>1, <1>2, <1>8, <2>5
      <4> QED BY <1>2, <1>6, <3>1, <4>1
    <3>3. \A p \in pq' : top.dist <= p.dist
      BY <1>1, <1>6
    <3> QED BY <1>1, <2>2, <2>5, <3>1, <3>2, <3>3 DEF FrontierInv
  <2>11. RelaxedInv'
    <3>1. \A e \in EdgesOf(graph, u) : ~Followed(u, e)'
      BY <1>1, <2>1 DEF Followed, EdgesOf
    <3> QED BY <1>1, <1>4, <1>7, <2>5, <3>1 DEF RelaxedInv
  <2>12. WalkInv'
    <3>1. \A v \in DOMAIN dist : <<v, dist[v]>> \in Walks[Cardinality(Settled')]
      BY <1>4, <2>7 DEF WalkInv
    <3>2. <<u, top.dist>> \in Walks[Cardinality(Settled') - 1]
      BY <2>2, <2>6, <2>8
    <3>3. \A v \in Settled' : dist[v] = Shortest[v]
      BY <1>4, <2>5, <2>9 DEF WalkInv
    <3> QED BY <1>1, <1>5, <3>1, <3>2, <3>3 DEF WalkInv
  <2> QED BY <2>10, <2>11, <2>12
<1> QED BY <1>10, <1>11

\* Following an edge settles and unsettles no vertex and changes the distance
\* of no settled one; the distance of its end is then no more than that of
\* its source and its weight.
LEMMA RelaxKeepsSettled ==
  ASSUME QueueInv, GreedyInv, Fit, Relax
  PROVE  LET e == Head(rest)
             new_d == current.dist + e.weight
         IN  /\ Settled' = Settled
             /\ \A v \in Settled : v \in DOMAIN dist /\ dist'[v] = dist[v]
             /\ new_d \in Int /\ new_d >= current.dist
             /\ current.vertex \in Settled /\ dist[current.vertex] = current.dist
             /\ dist'[e.dst] <= new_d
             /\ \A v \in DOMAIN dist : dist'[v] <= dist[v]
             /\ \A p \in pq' : p \in pq \/ p.dist = new_d
             /\ \A v \in DOMAIN dist' : \/ v \in DOMAIN dist /\ dist'[v] = dist[v]
                                        \/ v = e.dst /\ dist'[v] = new_d
             /\ \A v \in DOMAIN dist : dist'[v] # dist[v] => new_d < dist[v]
<1> DEFINE e == Head(rest)
           c == current.vertex
           new_d == current.dist + e.weight
<1>1. /\ graph \in Graphs /\ c \in Reached /\ current.dist \in Int
      /\ e \in EdgesOf(graph, c)
      /\ dist' \in [DOMAIN dist' -> Int]
  BY RelaxStep
<1>2. rest # << >> /\ FrontierInv /\ WalkInv
  BY DEF Relax, GreedyInv
<1>3. c \in Settled /\ dist[c] = current.dist
  BY <1>2 DEF FrontierInv
<1>4. /\ e.weight \in Int /\ e.weight >= 0
      /\ Shortest[c] + e.weight <= MaxWeight
  BY <1>1, FitEdges
<1>5. dist[c] = Shortest[c]
  BY <1>2, <1>3 DEF WalkInv
<1>6. Sum(current.dist, e.weight) = new_d
  BY <1>1, <1>3, <1>4, <1>5, MaxWeightAssumption DEF Sum
<1>7. new_d \in Int /\ new_d >= current.dist
  BY <1>1, <1>4
<1>8. \/ /\ Better(e.dst, new_d)
         /\ DOMAIN dist' = DOMAIN dist \cup {e.dst}
         /\ dist'[e.dst] = new_d
         /\ \A u \in DOMAIN dist : u # e.dst => dist'[u] = dist[u]
         /\ pq' = pq \cup {[dist |-> new_d, vertex |-> e.dst]}
      \/ /\ ~Better(e.dst, new_d)
         /\ UNCHANGED <<dist, pq>>
  BY <1>6, RelaxStep
<1>9. dist \in [DOMAIN dist -> Int]
  BY DEF QueueInv, DistInv
<1> HIDE DEF e, new_d
<1>10. CASE ~Better(e.dst, new_d)
  <2>1. UNCHANGED <<dist, pq>>
    BY <1>8, <1>10
  <2>2. Settled' = Settled
    BY <2>1 DEF Settled, Queued
  <2>3. e.dst \in DOMAIN dist /\ dist[e.dst] \in Int /\ ~(new_d < dist[e.dst])
    BY <1>9, <1>10 DEF Better
  <2>4. \A v \in DOMAIN dist : dist[v] \in Int
    BY <1>9
  <2>5. \A v \in Settled : v \in DOMAIN dist
    BY DEF Settled
  <2> QED BY <1>3, <1>7, <2>1, <2>2, <2>3, <2>4, <2>5 DEF e, new_d
<1>11. CASE Better(e.dst, new_d)
  <2>1. /\ DOMAIN dist' = DOMAIN dist \cup {e.dst}
        /\ dist'[e.dst] = new_d
        /\ \A u \in DOMAIN dist : u # e.dst => dist'[u] = dist[u]
        /\ pq' = pq \cup {[dist |-> new_d, vertex |-> e.dst]}
    BY <1>8, <1>11
  <2>2. e.dst \notin Settled
    <3> SUFFICES ASSUME e.dst \in Settled PROVE FALSE
      OBVIOUS
    <3>1. dist[e.dst] <= current.dist /\ e.dst \in DOMAIN dist /\ dist[e.dst] \in Int
      BY <1>2, <1>9 DEF FrontierInv, Settled
    <3>2. new_d < dist[e.dst]
      BY <1>11, <3>1 DEF Better
    <3> QED BY <1>1, <1>7, <3>1, <3>2
  <2>3. \A v \in Settled : v \in DOMAIN dist /\ v # e.dst /\ dist'[v] = dist[v]
    BY <2>1, <2>2 DEF Settled
  <2>4. ASSUME NEW v \in DOMAIN dist', v # e.dst
        PROVE  Queued(v)' <=> Queued(v)
    BY <2>1, <2>4 DEF Queued
  <2>5. ASSUME NEW v \in DOMAIN dist', v = e.dst
        PROVE  Queued(v)'
    BY <2>1, <2>5 DEF Queued
  <2>6. Settled' = Settled
    BY <2>1, <2>2, <2>4, <2>5 DEF Settled
  <2>7. \A v \in DOMAIN dist : dist'[v] <= dist[v] /\ (dist'[v] # dist[v] => new_d < dist[v])
    <3> SUFFICES ASSUME NEW v \in DOMAIN dist
                 PROVE  dist'[v] <= dist[v] /\ (dist'[v] # dist[v] => new_d < dist[v])
      OBVIOUS
    <3>1. CASE v = e.dst
      BY <1>7, <1>9, <1>11, <2>1, <3>1 DEF Better
    <3>2. CASE v # e.dst
      BY <1>9, <2>1, <3>2
    <3> QED BY <3>1, <3>2
  <2>8. \A p \in pq' : p \in pq \/ p.dist = new_d
    BY <2>1
  <2>9. dist'[e.dst] <= new_d
    BY <1>7, <2>1
  <2>10. \A v \in DOMAIN dist' : \/ v \in DOMAIN dist /\ dist'[v] = dist[v]
                                 \/ v = e.dst /\ dist'[v] = new_d
    BY <2>1
  <2> QED BY <1>3, <1>7, <2>3, <2>6, <2>7, <2>8, <2>9, <2>10 DEF e, new_d
<1> QED BY <1>10, <1>11

LEMMA RelaxGreedyInv == QueueInv /\ GreedyInv /\ Relax => GreedyInv'
<1> SUFFICES ASSUME QueueInv, GreedyInv, Relax PROVE GreedyInv'
  OBVIOUS
<1> DEFINE e == Head(rest)
           c == current.vertex
           new_d == current.dist + e.weight
<1>1. /\ graph \in Graphs /\ ~thrown /\ c \in Reached
      /\ current.dist \in Int
      /\ e \in EdgesOf(graph, c) /\ e.weight \in Int /\ e.weight >= 0
      /\ Elements(rest) = {e} \cup Elements(rest')
      /\ UNCHANGED <<graph, start, current, thrown>>
      /\ dist' \in [DOMAIN dist' -> Int]
  BY RelaxStep
<1> SUFFICES ASSUME Fit PROVE (FrontierInv /\ RelaxedInv /\ WalkInv)'
  BY <1>1, SameGraph DEF GreedyInv
<1>2. /\ Settled' = Settled
      /\ \A v \in Settled : v \in DOMAIN dist /\ dist'[v] = dist[v]
      /\ new_d \in Int /\ new_d >= current.dist
      /\ c \in Settled /\ dist[c] = current.dist
      /\ dist'[e.dst] <= new_d
      /\ \A v \in DOMAIN dist : dist'[v] <= dist[v]
      /\ \A p \in pq' : p \in pq \/ p.dist = new_d
      /\ \A v \in DOMAIN dist' : \/ v \in DOMAIN dist /\ dist'[v] = dist[v]
                                 \/ v = e.dst /\ dist'[v] = new_d
      /\ \A v \in DOMAIN dist : dist'[v] # dist[v] => new_d < dist[v]
  BY RelaxKeepsSettled
<1>3. /\ rest # << >> /\ FrontierInv /\ RelaxedInv /\ WalkInv
      /\ dist \in [DOMAIN dist -> Int] /\ pq \subseteq Item
  BY DEF Relax, GreedyInv, QueueInv, DistInv
<1>4. start \in DOMAIN graph
  BY <1>1 DEF Reached, Reachable
<1>5. DOMAIN dist \subseteq DOMAIN dist' /\ e.dst \in DOMAIN dist'
  BY RelaxStep DEF Better
<1> HIDE DEF e, new_d
<1>6. \A v \in Settled : dist[v] <= current.dist /\ dist[v] \in Int
  BY <1>2, <1>3 DEF FrontierInv
<1>7. FrontierInv'
  <2>1. ASSUME NEW p \in pq' PROVE current.dist <= p.dist /\ p.dist \in Int
    <3>1. CASE p \in pq
      BY <1>3, <3>1 DEF FrontierInv, Item
    <3>2. CASE p.dist = new_d
      BY <1>1, <1>2, <3>2
    <3> QED BY <1>2, <3>1, <3>2
  <2>2. ASSUME NEW v \in Settled, NEW p \in pq' PROVE dist[v] <= p.dist
    BY <1>1, <1>6, <2>1
  <2> QED BY <1>1, <1>2, <1>6, <2>1, <2>2 DEF FrontierInv
<1>8. RelaxedInv'
  <2>1. dist'[start] = 0
    <3>1. start \in DOMAIN dist /\ dist[start] = 0
      BY <1>1, <1>3, <1>4 DEF RelaxedInv, QueueInv, FollowedInv
    <3>2. current.dist >= 0
      BY <1>2, <1>3 DEF RelaxedInv
    <3>3. ~(new_d < dist[start])
      BY <1>1, <1>2, <3>1, <3>2
    <3> QED BY <1>2, <3>1, <3>3
  <2>2. ASSUME NEW v \in DOMAIN dist' PROVE dist'[v] >= 0
    <3>1. CASE v \in DOMAIN dist /\ dist'[v] = dist[v]
      BY <1>3, <3>1 DEF RelaxedInv
    <3>2. CASE dist'[v] = new_d
      <4>1. current.dist >= 0
        BY <1>2, <1>3 DEF RelaxedInv
      <4> QED BY <1>1, <1>2, <3>2, <4>1
    <3> QED BY <1>2, <3>1, <3>2
  <2>3. ASSUME NEW u \in Settled, NEW f \in EdgesOf(graph, u), Followed(u, f)'
        PROVE  dist'[f.dst] <= dist[u] + f.weight
    <3>1. CASE Followed(u, f)
      <4>1. dist[f.dst] <= dist[u] + f.weight /\ f.dst \in DOMAIN dist
        BY <1>1, <1>3, <3>1 DEF RelaxedInv, QueueInv, FollowedInv, Settled
      <4>2. /\ dist'[f.dst] <= dist[f.dst]
            /\ dist'[f.dst] \in Int /\ dist[f.dst] \in Int
        BY <1>1, <1>2, <1>3, <1>5, <4>1
      <4>3. dist[u] \in Int /\ f.weight \in Int
        <5>1. u \in Reached
          BY DEF Settled, QueueInv, DistInv
        <5> QED BY <1>1, <1>6, <5>1, FitEdges
      <4> QED BY <4>1, <4>2, <4>3
    <3>2. CASE ~Followed(u, f)
      <4>1. u = c /\ f = e
        BY <1>1, <2>3, <3>2 DEF Followed
      <4> QED BY <1>2, <4>1 DEF new_d
    <3> QED BY <3>1, <3>2
  <2>4. \A u \in Settled' : dist'[u] = dist[u]
    BY <1>2
  <2>5. ASSUME NEW u \in Settled', NEW f \in EdgesOf(graph', u), Followed(u, f)'
        PROVE  dist'[f.dst] <= dist'[u] + f.weight
    BY <1>1, <1>2, <2>3, <2>4, <2>5
  <2>6. start' = start
    BY <1>1
  <2> QED BY <2>1, <2>2, <2>5, <2>6 DEF RelaxedInv
<1>9. WalkInv'
  <2>1. UNCHANGED <<Reached, Walks, Shortest, Order>>
    BY <1>1, SameGraph
  <2>2. Cardinality(Settled) \in 1 .. Order /\ Order \in Nat
    <3>1. Settled \subseteq Reached
      BY DEF QueueInv, DistInv, Settled
    <3>2. IsFiniteSet(Settled) /\ Order \in Nat /\ Cardinality(Settled) \in 0 .. Order
      BY <1>1, <3>1, CountWithin
    <3>3. Cardinality(Settled) # 0
      BY <1>2, <3>2, FS_EmptySet
    <3> QED BY <3>2, <3>3
  <2>3. <<c, current.dist>> \in Walks[Cardinality(Settled) - 1]
    BY <1>3 DEF WalkInv
  <2>4. <<e.dst, new_d>> \in Walks[Cardinality(Settled)]
    <3> DEFINE w == <<c, current.dist>>
    <3>1. w[1] = c /\ w[2] = current.dist
      OBVIOUS
    <3>2. <<e.dst, w[2] + e.weight>> \in Walks[Cardinality(Settled)]
      <4> HIDE DEF w
      <4> QED BY <1>1, <1>4, <2>2, <2>3, <3>1, WalkProperties DEF w
    <3> QED BY <3>1, <3>2 DEF new_d
  <2>5. ASSUME NEW v \in DOMAIN dist'
        PROVE  <<v, dist'[v]>> \in Walks[Cardinality(Settled)]
    <3>1. CASE v \in DOMAIN dist /\ dist'[v] = dist[v]
      BY <1>3, <3>1 DEF WalkInv
    <3>2. CASE v = e.dst /\ dist'[v] = new_d
      BY <2>4, <3>2
    <3> QED BY <1>2, <3>1, <3>2
  <2>6. \A v \in Settled' : dist'[v] = Shortest[v]
    BY <1>2, <1>3 DEF WalkInv
  <2> QED BY <1>1, <1>2, <2>1, <2>3, <2>5, <2>6 DEF WalkInv
<1> QED BY <1>7, <1>8, <1>9

LEMMA NextGreedyInv == QueueInv /\ GreedyInv /\ [Next]_vars => GreedyInv'
<1>1. ASSUME GreedyInv, UNCHANGED vars PROVE GreedyInv'
  <2>1. UNCHANGED <<graph, start, dist, pq, current, rest>>
    BY <1>1 DEF vars
  <2>2. UNCHANGED <<Walks, Shortest, Settled>> /\ (Fit' <=> Fit)
    BY <2>1, SameGraph DEF Settled, Queued
  <2> QED BY <1>1, <2>1, <2>2
          DEF GreedyInv, FrontierInv, RelaxedInv, WalkInv, Followed
<1>2. ASSUME QueueInv, Throw PROVE GreedyInv'
  <2>1. QueueInv' /\ thrown'
    BY <1>2, ThrowQueueInv DEF Throw
  <2>2. ~Fit'
    BY <2>1 DEF QueueInv, ScanInv, Fit
  <2> QED BY <2>2 DEF GreedyInv
<1> QED BY <1>1, <1>2, PopGreedyInv, RelaxGreedyInv DEF Next

LEMMA GreedyInvariant == Spec => [](QueueInv /\ GreedyInv)
<1>1. Init => QueueInv /\ GreedyInv
  BY InitQueueInv, InitGreedyInv
<1>2. QueueInv /\ GreedyInv /\ [Next]_vars => (QueueInv /\ GreedyInv)'
  BY NextQueueInv, NextGreedyInv
<1> QED BY <1>1, <1>2, PTL DEF Spec

\* dijkstra returns the length of a shortest path to every vertex that can be
\* reached, and no other, unless sums exceed what WeightType holds.
THEOREM DijkstraFindsShortest == Spec => []DistancesAreShortest
<1>1. QueueInv /\ GreedyInv => DistancesAreShortest
  <2> SUFFICES ASSUME QueueInv, GreedyInv, Returned, ~thrown, SumsFit
               PROVE  dist = Shortest
    BY DEF DistancesAreShortest
  <2>1. DOMAIN dist = Reached /\ NoneNegative
    BY ReturnedReachedAll
  <2>2. WalkInv
    BY <2>1 DEF GreedyInv, Fit
  <2>3. Settled = DOMAIN dist
    BY DEF Settled, Queued, Returned
  <2>4. \A v \in Reached : dist[v] = Shortest[v]
    BY <2>1, <2>2, <2>3 DEF WalkInv
  <2>5. dist \in [DOMAIN dist -> Int]
    BY DEF QueueInv, DistInv
  <2>6. dist = [v \in Reached |-> dist[v]]
    BY <2>1, <2>5
  <2>7. Shortest = [v \in Reached |-> Shortest[v]]
    BY DEF Shortest
  <2> QED BY <2>4, <2>6, <2>7
<1> QED BY <1>1, GreedyInvariant, PTL

\* The distance of a settled vertex is never revised.
THEOREM DijkstraSettlesOnce == Spec => SettledStaysFinal
<1>1. QueueInv /\ GreedyInv /\ [Next]_vars =>
        [SumsFit /\ NoneNegative =>
          \A v \in DOMAIN dist :
             [dist |-> dist[v], vertex |-> v] \notin pq =>
                v \in DOMAIN dist' /\ dist'[v] = dist[v]]_vars
  <2> SUFFICES ASSUME QueueInv, GreedyInv, Next, Fit, NEW v \in Settled
               PROVE  v \in DOMAIN dist' /\ dist'[v] = dist[v]
    BY DEF Fit, Settled, Queued
  <2>1. v \in DOMAIN dist
    BY DEF Settled
  <2>2. CASE Pop
    BY <2>1, <2>2 DEF Pop
  <2>3. CASE Relax
    BY <2>3, RelaxKeepsSettled DEF Settled
  <2>4. CASE Throw
    <3>1. QueueInv' /\ thrown' /\ UNCHANGED <<graph, start>>
      BY <2>4, ThrowQueueInv DEF Throw
    <3>2. ~Fit'
      BY <3>1 DEF QueueInv, ScanInv, Fit
    <3> QED BY <3>1, <3>2, SameGraph
  <2> QED BY <2>2, <2>3, <2>4 DEF Next
<1> QED BY <1>1, GreedyInvariant, PTL DEF Spec, SettledStaysFinal
=============================================================================
