------------------------- MODULE Traversals_proofs -------------------------
(***************************************************************************)
(* bfs and dfs report exactly the vertices that can be reached, each once, *)
(* in every graph.  Every neighbour of a reported vertex is reported, or   *)
(* waits, or forEachNeighbor is still to report it; what waits is reported *)
(* in the end.  So when nothing waits the reported vertices are a closed   *)
(* set, and include everything that can be reached.                        *)
(*                                                                         *)
(* bfs reports in the order of the distance: a vertex that is marked       *)
(* within k edges while others are not is next to a reported vertex or a   *)
(* waiting one, so all that was reported before is within k - 1 edges, and *)
(* all that waits, next to it, within k.                                   *)
(*                                                                         *)
(* dfs goes deep: every place on the stack was filled by one of the        *)
(* reported vertices, its origin, and origins are later towards the top.   *)
(* A reported vertex with a neighbour not reported is the origin of a      *)
(* place that holds it, so the top of the stack is a neighbour of the last *)
(* of them.                                                                *)
(***************************************************************************)
EXTENDS Traversals, SearchedGraph_proofs

\* What forEachNeighbor is still to report.
Awaited == {e.dst : e \in Elements(rest)}

-----------------------------------------------------------------------------
(* bfs: what is marked, reported and waiting.                              *)

BFSIInv ==
  /\ graph \in Graphs
  /\ visits \in Seq(DOMAIN graph)
  /\ waiting \in Seq(DOMAIN graph)
  /\ rest \in Seq(Edge)
  /\ Awaited \subseteq Reachable(graph, start)
  /\ visited = Elements(visits) \cup Elements(waiting)
  /\ visited \subseteq Reachable(graph, start)
  /\ OnceEach(visits) /\ OnceEach(waiting)
  /\ Elements(visits) \cap Elements(waiting) = {}
  /\ start \in DOMAIN graph => start \in visited
  /\ \A v \in Elements(visits) : Neighbours(graph, v) \subseteq visited \cup Awaited

LEMMA BFSInitIInv == BFSInit => BFSIInv
<1> SUFFICES ASSUME BFSInit PROVE BFSIInv
  OBVIOUS
<1>1. graph \in Graphs /\ visits = << >> /\ rest = << >>
  BY DEF BFSInit
<1>2. Awaited = {} /\ Elements(visits) = {} /\ OnceEach(visits)
  BY <1>1 DEF Awaited, Elements, OnceEach
<1>3. CASE start \in DOMAIN graph
  <2>1. waiting = <<start>> /\ visited = {start}
    BY <1>3 DEF BFSInit
  <2>2. Elements(waiting) = {start} /\ OnceEach(waiting) /\ waiting \in Seq(DOMAIN graph)
    BY <1>3, <2>1 DEF Elements, OnceEach
  <2>3. start \in Reachable(graph, start)
    BY <1>1, <1>3, ReachableIsClosed
  <2> QED BY <1>1, <1>2, <2>1, <2>2, <2>3 DEF BFSIInv
<1>4. CASE start \notin DOMAIN graph
  <2>1. waiting = << >> /\ visited = {}
    BY <1>4 DEF BFSInit
  <2>2. Elements(waiting) = {} /\ OnceEach(waiting) /\ waiting \in Seq(DOMAIN graph)
    BY <2>1 DEF Elements, OnceEach
  <2> QED BY <1>1, <1>2, <1>4, <2>1, <2>2 DEF BFSIInv
<1> QED BY <1>3, <1>4

\* The vertex at the head of the queue moves to the reported ones, and all
\* its neighbours are awaited.
LEMMA BFSVisitIInv == BFSIInv /\ BFSVisit => BFSIInv'
<1> SUFFICES ASSUME BFSIInv, BFSVisit PROVE BFSIInv'
  OBVIOUS
<1> DEFINE u == Head(waiting)
<1>1. /\ graph \in Graphs /\ waiting \in Seq(DOMAIN graph) /\ waiting # << >>
      /\ visits \in Seq(DOMAIN graph)
      /\ waiting' = Tail(waiting) /\ visits' = Append(visits, u) /\ rest' = graph[u]
      /\ UNCHANGED <<graph, start, visited>>
  BY DEF BFSIInv, BFSVisit
<1>2. /\ u \in DOMAIN graph
      /\ Tail(waiting) \in Seq(DOMAIN graph)
      /\ Elements(waiting) = {u} \cup Elements(Tail(waiting))
      /\ OnceEach(Tail(waiting))
      /\ u \notin Elements(Tail(waiting))
  BY <1>1, TakeFirst DEF BFSIInv
<1> HIDE DEF u
<1>3. /\ Append(visits, u) \in Seq(DOMAIN graph)
      /\ Elements(Append(visits, u)) = Elements(visits) \cup {u}
      /\ OnceEach(Append(visits, u))
  <2>1. u \notin Elements(visits)
    BY <1>2 DEF BFSIInv
  <2> QED BY <1>1, <1>2, <2>1, AddLast DEF BFSIInv
<1>4. graph[u] \in Seq(Edge) /\ Awaited' = Neighbours(graph, u)
  <2>1. graph[u] \in Seq(Edge)
    BY <1>1, <1>2, GraphsAssumption
  <2> QED BY <1>1, <2>1 DEF Awaited, Elements, Neighbours
<1>5. Neighbours(graph, u) \subseteq Reachable(graph, start)
  <2>1. u \in Reachable(graph, start)
    BY <1>2 DEF BFSIInv
  <2> QED BY <1>1, <2>1, ReachableIsClosed DEF Closed
<1>6. Awaited = {}
  BY DEF BFSVisit, Awaited, Elements
<1>7. \A v \in Elements(visits) \cup {u} :
         Neighbours(graph, v) \subseteq visited \cup Neighbours(graph, u)
  BY <1>6 DEF BFSIInv
<1> QED BY <1>1, <1>2, <1>3, <1>4, <1>5, <1>7 DEF BFSIInv

\* One awaited neighbour is marked and waits, or was marked before.
LEMMA BFSNeighbourIInv == BFSIInv /\ BFSNeighbour => BFSIInv'
<1> SUFFICES ASSUME BFSIInv, BFSNeighbour PROVE BFSIInv'
  OBVIOUS
<1> DEFINE nxt == Head(rest).dst
<1>1. /\ graph \in Graphs /\ waiting \in Seq(DOMAIN graph)
      /\ rest \in Seq(Edge) /\ rest # << >> /\ rest' = Tail(rest)
      /\ IF nxt \notin visited
           THEN visited' = visited \cup {nxt} /\ waiting' = Append(waiting, nxt)
           ELSE UNCHANGED <<visited, waiting>>
      /\ UNCHANGED <<graph, start, visits>>
  BY DEF BFSIInv, BFSNeighbour, Unvisited, Enqueue
<1>2. Tail(rest) \in Seq(Edge) /\ Awaited = {nxt} \cup Awaited'
  <2>1. /\ Tail(rest) \in Seq(Edge)
        /\ Elements(rest) = {Head(rest)} \cup Elements(Tail(rest))
    BY <1>1, TakeFirst
  <2> QED BY <1>1, <2>1 DEF Awaited
<1>3. nxt \in Reachable(graph, start) /\ nxt \in DOMAIN graph
  BY <1>1, <1>2, ReachableIsClosed DEF BFSIInv
<1> HIDE DEF nxt
<1>4. CASE nxt \notin visited
  <2>1. nxt \notin Elements(waiting) /\ nxt \notin Elements(visits)
    BY <1>4 DEF BFSIInv
  <2>2. /\ waiting' \in Seq(DOMAIN graph)
        /\ Elements(waiting') = Elements(waiting) \cup {nxt}
        /\ OnceEach(waiting')
    <3>1. /\ Append(waiting, nxt) \in Seq(DOMAIN graph)
          /\ Elements(Append(waiting, nxt)) = Elements(waiting) \cup {nxt}
          /\ OnceEach(Append(waiting, nxt))
      <4>1. OnceEach(waiting)
        BY DEF BFSIInv
      <4> QED BY <1>1, <1>3, <2>1, <4>1, AddLast
    <3>2. waiting' = Append(waiting, nxt)
      BY <1>1, <1>4
    <3> QED BY <3>1, <3>2
  <2>3. visited' = visited \cup {nxt}
    BY <1>1, <1>4
  <2>4. \A v \in Elements(visits) : Neighbours(graph, v) \subseteq visited' \cup Awaited'
    BY <1>2, <2>3 DEF BFSIInv
  <2> QED BY <1>1, <1>2, <1>3, <2>1, <2>2, <2>3, <2>4 DEF BFSIInv
<1>5. CASE nxt \in visited
  <2>1. \A v \in Elements(visits) : Neighbours(graph, v) \subseteq visited \cup Awaited'
    BY <1>2, <1>5 DEF BFSIInv
  <2>2. UNCHANGED <<graph, start, visits, visited, waiting>>
    BY <1>1, <1>5
  <2>3. rest' \in Seq(Edge) /\ Awaited' \subseteq Reachable(graph, start)
    BY <1>1, <1>2 DEF BFSIInv
  <2> QED BY <2>1, <2>2, <2>3 DEF BFSIInv
<1> QED BY <1>4, <1>5

LEMMA BFSNextIInv == BFSIInv /\ [BFSNext]_vars => BFSIInv'
<1>1. ASSUME BFSIInv, UNCHANGED vars PROVE BFSIInv'
  BY <1>1 DEF BFSIInv, Awaited, vars
<1> QED BY <1>1, BFSVisitIInv, BFSNeighbourIInv DEF BFSNext

LEMMA BFSInvariant == BFS => []BFSIInv
BY BFSInitIInv, BFSNextIInv, PTL DEF BFS

\* bfs: the callback gets every vertex that can be reached from the start
\* once, and nothing else.
THEOREM BreadthFirstVisitsReachableOnce == BFS => []VisitsReachableOnce
<1>1. BFSIInv => VisitsReachableOnce
  <2> SUFFICES ASSUME BFSIInv, Returned
               PROVE  Reachable(graph, start) \subseteq Elements(visits)
    BY DEF BFSIInv, VisitsReachableOnce
  <2>1. Awaited = {} /\ Elements(waiting) = {}
    BY DEF Returned, Awaited, Elements
  <2>2. Closed(graph, Elements(visits))
    BY <2>1 DEF BFSIInv, Closed
  <2>3. Elements(visits) \subseteq DOMAIN graph
    BY ReachableIsClosed DEF BFSIInv
  <2> QED BY <2>1, <2>2, <2>3, ReachableIsLeast DEF BFSIInv
<1> QED BY <1>1, BFSInvariant, PTL

-----------------------------------------------------------------------------
(* The order of hops.                                                      *)

order == visits \o waiting

\* The vertex whose neighbours forEachNeighbor reports is the last reported;
\* those of the others are all marked.  What waits is next to one reported.
HopsInv ==
  /\ rest # << >> => /\ visits # << >>
                     /\ Awaited \subseteq Neighbours(graph, visits[Len(visits)])
  /\ \A j \in 1 .. Len(visits) - 1 : Neighbours(graph, visits[j]) \subseteq visited
  /\ \A v \in Elements(waiting) :
        v = start \/ \E u \in Elements(visits) : v \in Neighbours(graph, u)
  /\ InOrderOfHops

\* The balls around the start, as their recursive definition says.
LEMMA BallSteps ==
  ASSUME graph \in Graphs, start \in DOMAIN graph
  PROVE  LET N == Cardinality(DOMAIN graph)
         IN  /\ N \in Nat
             /\ DOMAIN Ball = 0 .. N
             /\ Ball[0] = {start}
             /\ \A k \in 1 .. N :
                   Ball[k] = Ball[k - 1] \cup UNION {Neighbours(graph, v) : v \in Ball[k - 1]}
             /\ \A k \in 0 .. N : start \in Ball[k]
<1> DEFINE N == Cardinality(DOMAIN graph)
           V == SUBSET DOMAIN graph
           step == [B \in V |-> B \cup UNION {Neighbours(graph, v) : v \in B}]
           ball(f) == [k \in 0 .. N |-> IF k = 0 THEN {start}
                         ELSE f[k - 1] \cup UNION {Neighbours(graph, v) : v \in f[k - 1]}]
<1>1. N \in Nat
  BY GraphsAssumption, FS_CardinalityType
<1>2. {start} \in V /\ step \in [V -> V]
  BY GraphsAssumption DEF Neighbours
<1> HIDE DEF N
<1>3. PICK g \in [0 .. N -> V] : Iterates(g, N, {start}, step)
  <2> HIDE DEF V, step
  <2> QED BY <1>1, <1>2, RecursiveFunction
<1>4. g = ball(g)
  <2>1. \A k \in 0 .. N : k = 0 \/ k - 1 \in 0 .. N
    BY <1>1
  <2>2. \A k \in 0 .. N : k # 0 => step[g[k - 1]] =
           g[k - 1] \cup UNION {Neighbours(graph, v) : v \in g[k - 1]}
    BY <2>1, <1>3
  <2> QED BY <1>3, <2>2 DEF Iterates
<1>5. Ball = CHOOSE f : f = ball(f)
  BY DEF Ball, N
<1>6. Ball = ball(Ball)
  <2> HIDE DEF ball
  <2> QED BY <1>4, <1>5
<1>7. /\ DOMAIN Ball = 0 .. N
      /\ \A k \in 0 .. N : Ball[k] = IF k = 0 THEN {start}
            ELSE Ball[k - 1] \cup UNION {Neighbours(graph, v) : v \in Ball[k - 1]}
  BY <1>6
<1>8. 0 .. N \subseteq {k \in 0 .. N : start \in Ball[k]}
  <2>1. 0 \in 0 .. N /\ \A k \in 1 .. N : k \in 0 .. N /\ k # 0
    BY <1>1
  <2> DEFINE S == {k \in 0 .. N : start \in Ball[k]}
  <2>2. 0 \in S /\ \A k \in 1 .. N : k - 1 \in S => k \in S
    BY <1>7, <2>1
  <2> HIDE DEF S
  <2>3. 0 .. N \subseteq S
    BY <1>1, <2>2, BoundedInduction
  <2> QED BY <2>3 DEF S
<1> QED BY <1>1, <1>7, <1>8 DEF N

\* The reported and the waiting vertices, in one list.
LEMMA OrderOfVertices ==
  ASSUME BFSIInv
  PROVE  /\ order \in Seq(DOMAIN graph)
         /\ DOMAIN order = 1 .. Len(visits) + Len(waiting)
         /\ Len(visits) \in Nat /\ Len(waiting) \in Nat
         /\ Elements(order) = visited
         /\ \A v \in Elements(visits) : \E i \in 1 .. Len(visits) :
               v = visits[i] /\ v = order[i]
         /\ \A v \in Elements(waiting) :
               \E i \in Len(visits) + 1 .. Len(visits) + Len(waiting) : v = order[i]
<1>1. visits \in Seq(DOMAIN graph) /\ waiting \in Seq(DOMAIN graph)
  BY DEF BFSIInv
<1>2. /\ order \in Seq(DOMAIN graph)
      /\ Len(visits) \in Nat /\ Len(waiting) \in Nat
      /\ DOMAIN visits = 1 .. Len(visits) /\ DOMAIN waiting = 1 .. Len(waiting)
      /\ DOMAIN order = 1 .. Len(visits) + Len(waiting)
      /\ \A i \in 1 .. Len(visits) : order[i] = visits[i]
      /\ \A i \in 1 .. Len(waiting) : order[Len(visits) + i] = waiting[i]
      /\ Elements(order) = Elements(visits) \cup Elements(waiting)
  BY <1>1, Joined DEF order
<1>3. \A i \in 1 .. Len(waiting) :
         Len(visits) + i \in Len(visits) + 1 .. Len(visits) + Len(waiting)
  BY <1>2
<1>4. Elements(order) = visited
  BY <1>2 DEF BFSIInv
<1>5. \A v \in Elements(visits) : \E i \in 1 .. Len(visits) :
         v = visits[i] /\ v = order[i]
  BY <1>2 DEF Elements
<1>6. \A v \in Elements(waiting) :
         \E i \in Len(visits) + 1 .. Len(visits) + Len(waiting) : v = order[i]
  BY <1>2, <1>3 DEF Elements
<1> QED BY <1>2, <1>4, <1>5, <1>6

\* All that was reported is as near to the start as what waits, and as the
\* vertex reported last.
LEMMA ReportedAreNearer ==
  ASSUME BFSIInv, InOrderOfHops, NEW k \in DOMAIN Ball, NEW w \in Ball[k],
         \/ w \in Elements(waiting)
         \/ visits # << >> /\ w = visits[Len(visits)]
  PROVE  Elements(visits) \subseteq Ball[k]
<1> SUFFICES ASSUME NEW v \in Elements(visits) PROVE v \in Ball[k]
  OBVIOUS
<1>1. PICK i \in 1 .. Len(visits) : v = visits[i] /\ v = order[i]
  BY OrderOfVertices
<1>2. /\ DOMAIN order = 1 .. Len(visits) + Len(waiting)
      /\ Len(visits) \in Nat /\ Len(waiting) \in Nat
  BY OrderOfVertices
<1>3. \A m, n \in DOMAIN order : m < n /\ order[n] \in Ball[k] => order[m] \in Ball[k]
  BY DEF InOrderOfHops, order
<1>4. CASE w \in Elements(waiting)
  <2>1. PICK j \in Len(visits) + 1 .. Len(visits) + Len(waiting) : w = order[j]
    BY <1>4, OrderOfVertices
  <2>2. i \in DOMAIN order /\ j \in DOMAIN order /\ i < j
    BY <1>2
  <2> QED BY <1>1, <1>3, <2>1, <2>2
<1>5. CASE w = visits[Len(visits)]
  <2>1. Len(visits) \in DOMAIN order /\ i \in DOMAIN order /\ i <= Len(visits)
    BY <1>2
  <2>2. order[Len(visits)] = visits[Len(visits)]
    <3>1. visits \in Seq(DOMAIN graph) /\ waiting \in Seq(DOMAIN graph)
      BY DEF BFSIInv
    <3>2. Len(visits) \in 1 .. Len(visits)
      BY <1>2
    <3> QED BY <3>1, <3>2, Joined DEF order
  <2>3. CASE i = Len(visits)
    BY <1>1, <1>5, <2>3
  <2>4. CASE i < Len(visits)
    BY <1>1, <1>3, <1>5, <2>1, <2>2, <2>4
  <2> QED BY <1>2, <2>3, <2>4
<1> QED BY <1>4, <1>5

\* No unmarked vertex is nearer to the start than a marked one.
LEMMA UnmarkedAreFarther ==
  ASSUME BFSIInv, HopsInv, start \in DOMAIN graph
  PROVE  \A k \in DOMAIN Ball : \A x \in Ball[k] :
            x \notin visited => visited \subseteq Ball[k]
<1> DEFINE N == Cardinality(DOMAIN graph)
           S == {k \in 0 .. N : \A x \in Ball[k] :
                                   x \notin visited => visited \subseteq Ball[k]}
<1>1. /\ N \in Nat
      /\ DOMAIN Ball = 0 .. N
      /\ Ball[0] = {start}
      /\ \A k \in 1 .. N :
            Ball[k] = Ball[k - 1] \cup UNION {Neighbours(graph, v) : v \in Ball[k - 1]}
      /\ \A k \in 0 .. N : start \in Ball[k]
  BY BallSteps DEF BFSIInv
<1> HIDE DEF N
<1>2. 0 \in S
  <2>1. start \in visited
    BY DEF BFSIInv
  <2> QED BY <1>1, <2>1
<1>3. ASSUME NEW k \in 1 .. N, k - 1 \in S PROVE k \in S
  <2>1. k \in 0 .. N /\ k - 1 \in DOMAIN Ball
    BY <1>1
  <2>2. Ball[k - 1] \subseteq Ball[k]
    BY <1>1
  <2> SUFFICES ASSUME NEW x \in Ball[k], x \notin visited
               PROVE  visited \subseteq Ball[k]
    BY <2>1
  <2>3. CASE x \in Ball[k - 1]
    BY <1>3, <2>2, <2>3
  <2>4. ASSUME NEW w \in Ball[k - 1], x \in Neighbours(graph, w)
        PROVE  visited \subseteq Ball[k]
    <3>1. CASE w \notin visited
      BY <1>3, <2>2, <3>1
    <3>2. CASE w \in visited
      <4>1. w \in Elements(waiting) \/ (visits # << >> /\ w = visits[Len(visits)])
        <5>1. SUFFICES ASSUME w \in Elements(visits)
                       PROVE  visits # << >> /\ w = visits[Len(visits)]
          BY <3>2 DEF BFSIInv
        <5>2. PICK i \in 1 .. Len(visits) : w = visits[i]
          BY <5>1, OrderOfVertices
        <5>3. ~(i \in 1 .. Len(visits) - 1)
          BY <2>4, <5>2 DEF HopsInv
        <5>4. Len(visits) \in Nat
          BY OrderOfVertices
        <5>5. i = Len(visits)
          BY <5>3, <5>4
        <5>6. visits # << >>
          BY <5>4
        <5> QED BY <5>2, <5>5, <5>6
      <4>2. Elements(visits) \subseteq Ball[k - 1]
        <5>1. InOrderOfHops
          BY DEF HopsInv
        <5> QED BY <2>1, <4>1, <5>1, ReportedAreNearer
      <4>3. \A v \in Elements(waiting) : v \in Ball[k]
        BY <1>1, <2>1, <4>2 DEF HopsInv
      <4> QED BY <2>2, <4>2, <4>3 DEF BFSIInv
    <3> QED BY <3>1, <3>2
  <2> QED BY <1>1, <2>3, <2>4
<1>4. 0 .. N \subseteq S
  <2> HIDE DEF S
  <2> QED BY <1>1, <1>2, <1>3, BoundedInduction
<1> QED BY <1>1, <1>4

LEMMA InitHopsInv == BFSInit => HopsInv
<1> SUFFICES ASSUME BFSInit PROVE HopsInv
  OBVIOUS
<1>1. rest = << >> /\ visits = << >> /\ Len(visits) = 0
  BY DEF BFSInit
<1>2. waiting = << >> \/ waiting = <<start>>
  BY DEF BFSInit
<1>3. \A v \in Elements(waiting) : v = start
  BY <1>2 DEF Elements
<1>4. order = waiting /\ \A i, j \in DOMAIN waiting : ~(i < j)
  BY <1>1, <1>2 DEF order
<1>5. InOrderOfHops
  BY <1>4 DEF InOrderOfHops, order
<1> QED BY <1>1, <1>3, <1>5 DEF HopsInv

LEMMA VisitHopsInv == BFSIInv /\ HopsInv /\ BFSVisit => HopsInv'
<1> SUFFICES ASSUME BFSIInv, HopsInv, BFSVisit PROVE HopsInv'
  OBVIOUS
<1> DEFINE u == Head(waiting)
<1>1. /\ graph \in Graphs /\ waiting \in Seq(DOMAIN graph) /\ waiting # << >>
      /\ visits \in Seq(DOMAIN graph) /\ rest = << >>
      /\ waiting' = Tail(waiting) /\ visits' = Append(visits, u) /\ rest' = graph[u]
      /\ UNCHANGED <<graph, start, visited>>
  BY DEF BFSIInv, BFSVisit
<1>2. /\ u \in DOMAIN graph
      /\ Elements(waiting) = {u} \cup Elements(Tail(waiting))
  BY <1>1, TakeFirst
<1>3. waiting = <<u>> \o Tail(waiting)
  BY <1>1
<1> HIDE DEF u
<1>4. /\ Len(visits) \in Nat
      /\ Len(visits') = Len(visits) + 1
      /\ visits'[Len(visits')] = u
      /\ \A j \in 1 .. Len(visits) : visits'[j] = visits[j]
      /\ visits' # << >>
  <2>1. Len(visits) \in Nat
    BY <1>1, LenProperties
  <2>2. /\ Len(Append(visits, u)) = Len(visits) + 1
        /\ Append(visits, u)[Len(visits) + 1] = u
        /\ \A j \in 1 .. Len(visits) : Append(visits, u)[j] = visits[j]
    BY <1>1, <1>2, AppendProperties
  <2>3. visits' = Append(visits, u)
    BY <1>1
  <2>4. visits' # << >>
    BY <2>3
  <2> QED BY <2>1, <2>2, <2>3, <2>4
<1>5. Awaited' = Neighbours(graph, u)
  <2>1. graph[u] \in Seq(Edge)
    BY <1>1, <1>2, GraphsAssumption
  <2> QED BY <1>1, <2>1 DEF Awaited, Elements, Neighbours
<1>6. Elements(visits') = Elements(visits) \cup {u}
  BY <1>1, <1>2, AddLast
<1>7. \A j \in 1 .. Len(visits') - 1 : Neighbours(graph, visits'[j]) \subseteq visited
  <2>1. Awaited = {}
    BY <1>1 DEF Awaited, Elements
  <2>2. \A j \in 1 .. Len(visits) : visits[j] \in Elements(visits)
    BY <1>1, LenProperties DEF Elements
  <2>3. \A j \in 1 .. Len(visits) : Neighbours(graph, visits[j]) \subseteq visited
    BY <2>1, <2>2 DEF BFSIInv
  <2> QED BY <1>4, <2>3
<1>8. \A v \in Elements(waiting') :
         v = start \/ \E w \in Elements(visits') : v \in Neighbours(graph, w)
  BY <1>1, <1>2, <1>6 DEF HopsInv
<1>9. InOrderOfHops'
  <2>1. visits' \o waiting' = visits \o waiting
    BY <1>1, <1>2, <1>3
  <2>2. Ball' = Ball
    BY <1>1 DEF Ball
  <2>3. InOrderOfHops
    BY DEF HopsInv
  <2> QED BY <2>1, <2>2, <2>3 DEF InOrderOfHops
<1> QED BY <1>1, <1>4, <1>5, <1>7, <1>8, <1>9 DEF HopsInv

LEMMA NeighbourHopsInv == BFSIInv /\ HopsInv /\ BFSNeighbour => HopsInv'
<1> SUFFICES ASSUME BFSIInv, HopsInv, BFSNeighbour PROVE HopsInv'
  OBVIOUS
<1> DEFINE nxt == Head(rest).dst
<1>1. /\ graph \in Graphs /\ waiting \in Seq(DOMAIN graph)
      /\ visits \in Seq(DOMAIN graph)
      /\ rest \in Seq(Edge) /\ rest # << >> /\ rest' = Tail(rest)
      /\ IF nxt \notin visited
           THEN visited' = visited \cup {nxt} /\ waiting' = Append(waiting, nxt)
           ELSE UNCHANGED <<visited, waiting>>
      /\ UNCHANGED <<graph, start, visits>>
  BY DEF BFSIInv, BFSNeighbour, Unvisited, Enqueue
<1>2. Awaited = {nxt} \cup Awaited'
  <2>1. Elements(rest) = {Head(rest)} \cup Elements(Tail(rest))
    BY <1>1, TakeFirst
  <2> QED BY <1>1, <2>1 DEF Awaited
<1>3. nxt \in Reachable(graph, start) /\ nxt \in DOMAIN graph
  BY <1>1, <1>2, ReachableIsClosed DEF BFSIInv
<1>4. start \in DOMAIN graph
  BY <1>3 DEF Reachable
<1> HIDE DEF nxt
<1>5. visited \subseteq visited' /\ Ball' = Ball
  BY <1>1 DEF Ball
<1>6. rest' # << >> => /\ visits' # << >>
                       /\ Awaited' \subseteq Neighbours(graph', visits'[Len(visits')])
  BY <1>1, <1>2 DEF HopsInv
<1>7. \A j \in 1 .. Len(visits') - 1 : Neighbours(graph', visits'[j]) \subseteq visited'
  BY <1>1, <1>5 DEF HopsInv
<1>8. CASE nxt \notin visited
  <2>1. waiting' = Append(waiting, nxt)
    BY <1>1, <1>8
  <2>2. Elements(waiting') = Elements(waiting) \cup {nxt}
    BY <1>1, <1>3, <2>1, AddLast
  <2>3. \A v \in Elements(waiting') :
           v = start' \/ \E u \in Elements(visits') : v \in Neighbours(graph', u)
    <3>1. /\ Len(visits) \in DOMAIN visits
          /\ nxt \in Neighbours(graph, visits[Len(visits)])
      <4>1. visits # << >> /\ nxt \in Neighbours(graph, visits[Len(visits)])
        BY <1>1, <1>2 DEF HopsInv
      <4>2. Len(visits) \in 1 .. Len(visits)
        BY <1>1, <4>1, LenProperties, EmptySeq
      <4> QED BY <1>1, <4>1, <4>2, LenProperties
    <3>2. visits[Len(visits)] \in Elements(visits)
      BY <3>1 DEF Elements
    <3> QED BY <1>1, <2>2, <3>1, <3>2 DEF HopsInv
  <2>4. visits' \o waiting' = Append(order, nxt)
    BY <1>1, <1>3, <2>1 DEF order
  <2>5. /\ DOMAIN order = 1 .. Len(order)
        /\ Len(order) \in Nat
        /\ DOMAIN Append(order, nxt) = 1 .. Len(order) + 1
        /\ Append(order, nxt)[Len(order) + 1] = nxt
        /\ \A i \in 1 .. Len(order) : Append(order, nxt)[i] = order[i]
    <3>1. order \in Seq(DOMAIN graph)
      BY OrderOfVertices
    <3> QED BY <1>3, <3>1, AppendProperties, LenProperties
  <2>6. ASSUME NEW i \in 1 .. Len(order) + 1, NEW j \in 1 .. Len(order) + 1, i < j,
               NEW k \in DOMAIN Ball, Append(order, nxt)[j] \in Ball[k]
        PROVE  Append(order, nxt)[i] \in Ball[k]
    <3>1. i \in 1 .. Len(order)
      BY <2>5, <2>6
    <3>2. CASE j \in 1 .. Len(order)
      <4>1. order[j] \in Ball[k]
        BY <2>5, <2>6, <3>2
      <4>2. order[i] \in Ball[k]
        BY <2>5, <2>6, <3>1, <3>2, <4>1 DEF HopsInv, InOrderOfHops, order
      <4> QED BY <2>5, <3>1, <4>2
    <3>3. CASE j = Len(order) + 1
      <4>1. visited \subseteq Ball[k]
        BY <1>4, <1>8, <2>5, <2>6, <3>3, UnmarkedAreFarther
      <4>2. order[i] \in visited
        BY <2>5, <3>1, OrderOfVertices DEF Elements
      <4> QED BY <2>5, <3>1, <4>1, <4>2
    <3> QED BY <2>5, <3>2, <3>3
  <2>7. InOrderOfHops'
    BY <1>5, <2>4, <2>5, <2>6 DEF InOrderOfHops
  <2> QED BY <1>6, <1>7, <2>3, <2>7 DEF HopsInv
<1>9. CASE nxt \in visited
  <2>1. UNCHANGED <<graph, start, visits, visited, waiting>>
    BY <1>1, <1>9
  <2>2. InOrderOfHops'
    BY <1>5, <2>1 DEF HopsInv, InOrderOfHops
  <2> QED BY <1>6, <1>7, <2>1, <2>2 DEF HopsInv
<1> QED BY <1>8, <1>9

LEMMA NextHopsInv == BFSIInv /\ HopsInv /\ [BFSNext]_vars => HopsInv'
<1>1. ASSUME HopsInv, UNCHANGED vars PROVE HopsInv'
  <2>1. UNCHANGED <<graph, start, visited, waiting, visits, rest, Awaited, Ball>>
    BY <1>1 DEF vars, Awaited, Ball
  <2>2. InOrderOfHops'
    BY <1>1, <2>1 DEF HopsInv, InOrderOfHops
  <2> QED BY <1>1, <2>1, <2>2 DEF HopsInv
<1> QED BY <1>1, VisitHopsInv, NeighbourHopsInv DEF BFSNext

\* bfs: the vertices are reported in the order of their distance from the
\* start, counted in edges.
THEOREM BreadthFirstInOrderOfHops == BFS => []InOrderOfHops
<1>1. BFSInit => BFSIInv /\ HopsInv
  BY BFSInitIInv, InitHopsInv
<1>2. BFSIInv /\ HopsInv /\ [BFSNext]_vars => BFSIInv' /\ HopsInv'
  BY BFSNextIInv, NextHopsInv
<1>3. HopsInv => InOrderOfHops
  BY DEF HopsInv
<1> QED BY <1>1, <1>2, <1>3, PTL DEF BFS

-----------------------------------------------------------------------------
(* dfs: what is reported and on the stack.                                 *)

DFSIInv ==
  /\ graph \in Graphs
  /\ visits \in Seq(DOMAIN graph)
  /\ waiting \in Seq(DOMAIN graph)
  /\ rest \in Seq(Edge)
  /\ Awaited \subseteq Reachable(graph, start)
  /\ visited = Elements(visits)
  /\ visited \cup Elements(waiting) \subseteq Reachable(graph, start)
  /\ OnceEach(visits)
  /\ start \in DOMAIN graph => start \in visited \cup Elements(waiting)
  /\ \A v \in Elements(visits) :
        Neighbours(graph, v) \subseteq visited \cup Elements(waiting) \cup Awaited

LEMMA DFSInitIInv == DFSInit => DFSIInv
<1> SUFFICES ASSUME DFSInit PROVE DFSIInv
  OBVIOUS
<1>1. graph \in Graphs /\ visits = << >> /\ rest = << >> /\ visited = {}
  BY DEF DFSInit
<1>2. Awaited = {} /\ Elements(visits) = {} /\ OnceEach(visits)
  BY <1>1 DEF Awaited, Elements, OnceEach
<1>3. CASE start \in DOMAIN graph
  <2>1. waiting = <<start>>
    BY <1>3 DEF DFSInit
  <2>2. Elements(waiting) = {start} /\ waiting \in Seq(DOMAIN graph)
    BY <1>3, <2>1 DEF Elements
  <2>3. start \in Reachable(graph, start)
    BY <1>1, <1>3, ReachableIsClosed
  <2> QED BY <1>1, <1>2, <2>2, <2>3 DEF DFSIInv
<1>4. CASE start \notin DOMAIN graph
  <2>1. waiting = << >>
    BY <1>4 DEF DFSInit
  <2>2. Elements(waiting) = {} /\ waiting \in Seq(DOMAIN graph)
    BY <2>1 DEF Elements
  <2> QED BY <1>1, <1>2, <1>4, <2>2 DEF DFSIInv
<1> QED BY <1>3, <1>4

\* The vertex at the top of the stack moves to the reported ones, and all its
\* neighbours are awaited.
LEMMA DFSVisitIInv == DFSIInv /\ DFSVisit => DFSIInv'
<1> SUFFICES ASSUME DFSIInv, DFSVisit PROVE DFSIInv'
  OBVIOUS
<1> DEFINE u == Head(waiting)
<1>1. /\ graph \in Graphs /\ waiting \in Seq(DOMAIN graph) /\ waiting # << >>
      /\ visits \in Seq(DOMAIN graph)
      /\ u \notin visited /\ visited' = visited \cup {u}
      /\ waiting' = Tail(waiting) /\ visits' = Append(visits, u) /\ rest' = graph[u]
      /\ UNCHANGED <<graph, start>>
  BY DEF DFSIInv, DFSVisit, Mark
<1>2. /\ u \in DOMAIN graph
      /\ Tail(waiting) \in Seq(DOMAIN graph)
      /\ Elements(waiting) = {u} \cup Elements(Tail(waiting))
  BY <1>1, TakeFirst
<1> HIDE DEF u
<1>3. /\ Append(visits, u) \in Seq(DOMAIN graph)
      /\ Elements(Append(visits, u)) = Elements(visits) \cup {u}
      /\ OnceEach(Append(visits, u))
  BY <1>1, <1>2, AddLast DEF DFSIInv
<1>4. graph[u] \in Seq(Edge) /\ Awaited' = Neighbours(graph, u)
  <2>1. graph[u] \in Seq(Edge)
    BY <1>1, <1>2, GraphsAssumption
  <2> QED BY <1>1, <2>1 DEF Awaited, Elements, Neighbours
<1>5. Neighbours(graph, u) \subseteq Reachable(graph, start)
  <2>1. u \in Reachable(graph, start)
    BY <1>2 DEF DFSIInv
  <2> QED BY <1>1, <2>1, ReachableIsClosed DEF Closed
<1>6. Awaited = {}
  BY DEF DFSVisit, Awaited, Elements
<1>7. \A v \in Elements(visits) \cup {u} :
         Neighbours(graph, v)
            \subseteq visited' \cup Elements(waiting') \cup Neighbours(graph, u)
  BY <1>1, <1>2, <1>6 DEF DFSIInv
<1> QED BY <1>1, <1>2, <1>3, <1>4, <1>5, <1>7 DEF DFSIInv

\* A vertex that was reported before leaves the stack.
LEMMA DFSSkipIInv == DFSIInv /\ DFSSkip => DFSIInv'
<1> SUFFICES ASSUME DFSIInv, DFSSkip PROVE DFSIInv'
  OBVIOUS
<1>1. /\ waiting \in Seq(DOMAIN graph) /\ waiting # << >> /\ Head(waiting) \in visited
      /\ waiting' = Tail(waiting)
      /\ UNCHANGED <<graph, start, visited, visits, rest, Awaited>>
  BY DEF DFSIInv, DFSSkip, Popped, Awaited
<1>2. /\ Tail(waiting) \in Seq(DOMAIN graph)
      /\ Elements(waiting) = {Head(waiting)} \cup Elements(Tail(waiting))
  BY <1>1, TakeFirst
<1>3. visited \cup Elements(waiting') = visited \cup Elements(waiting)
  BY <1>1, <1>2
<1> QED BY <1>1, <1>2, <1>3 DEF DFSIInv

\* One awaited neighbour is pushed, or was reported before.
LEMMA DFSNeighbourIInv == DFSIInv /\ DFSNeighbour => DFSIInv'
<1> SUFFICES ASSUME DFSIInv, DFSNeighbour PROVE DFSIInv'
  OBVIOUS
<1> DEFINE nxt == Head(rest).dst
<1>1. /\ graph \in Graphs /\ waiting \in Seq(DOMAIN graph)
      /\ rest \in Seq(Edge) /\ rest # << >> /\ rest' = Tail(rest)
      /\ waiting' = IF nxt \notin visited THEN <<nxt>> \o waiting ELSE waiting
      /\ UNCHANGED <<graph, start, visited, visits>>
  BY DEF DFSIInv, DFSNeighbour, Unvisited, PushOnto
<1>2. Tail(rest) \in Seq(Edge) /\ Awaited = {nxt} \cup Awaited'
  <2>1. /\ Tail(rest) \in Seq(Edge)
        /\ Elements(rest) = {Head(rest)} \cup Elements(Tail(rest))
    BY <1>1, TakeFirst
  <2> QED BY <1>1, <2>1 DEF Awaited
<1>3. nxt \in Reachable(graph, start) /\ nxt \in DOMAIN graph
  BY <1>1, <1>2, ReachableIsClosed DEF DFSIInv
<1> HIDE DEF nxt
<1>4. /\ waiting' \in Seq(DOMAIN graph)
      /\ visited \cup Elements(waiting') = visited \cup Elements(waiting) \cup {nxt}
  <2>1. CASE nxt \notin visited
    <3>1. waiting' = <<nxt>> \o waiting
      BY <1>1, <2>1
    <3>2. /\ <<nxt>> \o waiting \in Seq(DOMAIN graph)
          /\ Elements(<<nxt>> \o waiting) = Elements(waiting) \cup {nxt}
      BY <1>1, <1>3, AddFirst
    <3> QED BY <3>1, <3>2
  <2>2. CASE nxt \in visited
    BY <1>1, <2>2
  <2> QED BY <2>1, <2>2
<1>5. \A v \in Elements(visits) :
         Neighbours(graph, v) \subseteq visited \cup Elements(waiting') \cup Awaited'
  BY <1>2, <1>4 DEF DFSIInv
<1>6. rest' \in Seq(Edge) /\ Awaited' \subseteq Reachable(graph, start)
  BY <1>1, <1>2 DEF DFSIInv
<1> QED BY <1>1, <1>3, <1>4, <1>5, <1>6 DEF DFSIInv

LEMMA DFSNextIInv == DFSIInv /\ [DFSNext]_vars => DFSIInv'
<1>1. ASSUME DFSIInv, UNCHANGED vars PROVE DFSIInv'
  BY <1>1 DEF DFSIInv, Awaited, vars
<1> QED BY <1>1, DFSVisitIInv, DFSSkipIInv, DFSNeighbourIInv DEF DFSNext

LEMMA DFSInvariant == DFS => []DFSIInv
BY DFSInitIInv, DFSNextIInv, PTL DEF DFS

\* dfs: the callback gets every vertex that can be reached from the start
\* once, and nothing else.
THEOREM DepthFirstVisitsReachableOnce == DFS => []VisitsReachableOnce
<1>1. DFSIInv => VisitsReachableOnce
  <2> SUFFICES ASSUME DFSIInv, Returned
               PROVE  Reachable(graph, start) \subseteq Elements(visits)
    BY DEF DFSIInv, VisitsReachableOnce
  <2>1. Awaited = {} /\ Elements(waiting) = {}
    BY DEF Returned, Awaited, Elements
  <2>2. Closed(graph, Elements(visits))
    BY <2>1 DEF DFSIInv, Closed
  <2>3. Elements(visits) \subseteq DOMAIN graph
    BY ReachableIsClosed DEF DFSIInv
  <2> QED BY <2>1, <2>2, <2>3, ReachableIsLeast DEF DFSIInv
<1> QED BY <1>1, DFSInvariant, PTL

-----------------------------------------------------------------------------
(* The depth-first order.                                                  *)

\* What DepthFirstOrder says of the k-th of a list of vertices.
GoesOnAt(list, k) ==
  LET before == {list[i] : i \in 1 .. k - 1}
      open == {j \in 1 .. k - 1 : ~(Neighbours(graph, list[j]) \subseteq before)}
  IN  \E j \in open : /\ \A i \in open : i <= j
                      /\ list[k] \in Neighbours(graph, list[j])

\* The vertex in each place of the stack is a neighbour of its origin, later
\* origins are nearer to the top, and an unreported neighbour has a place from
\* each of its origins, or forEachNeighbor is still to report it.
Origins(origin) ==
  /\ \A p, q \in 1 .. Len(waiting) : p < q => origin[q] <= origin[p]
  /\ \A p \in 1 .. Len(waiting) : waiting[p] \in Neighbours(graph, visits[origin[p]])
  /\ \A j \in 1 .. Len(visits) : \A w \in Neighbours(graph, visits[j]) :
        \/ w \in visited
        \/ \E p \in 1 .. Len(waiting) : origin[p] = j /\ waiting[p] = w
        \/ j = Len(visits) /\ w \in Awaited

OrderInv ==
  /\ visits = << >> => rest = << >> /\ (waiting = << >> \/ waiting = <<start>>)
  /\ visits # << >> =>
        /\ Awaited \subseteq Neighbours(graph, visits[Len(visits)])
        /\ \E origin \in [1 .. Len(waiting) -> 1 .. Len(visits)] : Origins(origin)
  /\ \A k \in 1 .. Len(visits) : k > 1 => GoesOnAt(visits, k)

\* What is at which place of a list without its first element.
LEMMA TailPlaces ==
  ASSUME NEW T, NEW list \in Seq(T), list # << >>
  PROVE  /\ Len(list) \in Nat /\ Len(list) >= 1
         /\ Len(Tail(list)) = Len(list) - 1
         /\ Head(list) = list[1]
         /\ \A i \in 1 .. Len(list) - 1 : Tail(list)[i] = list[i + 1]
BY HeadTailProperties, EmptySeq, LenProperties

\* The vertex at the top is put behind the reported ones: the order goes on
\* as it should, and the places under the top keep their origins.
LEMMA VisitOrder == DFSIInv /\ OrderInv /\ DFSVisit => OrderInv'
<1> SUFFICES ASSUME DFSIInv, OrderInv, DFSVisit PROVE OrderInv'
  OBVIOUS
<1> DEFINE u == Head(waiting)
           n == Len(visits)
<1>1. /\ graph \in Graphs /\ waiting \in Seq(DOMAIN graph) /\ waiting # << >>
      /\ visits \in Seq(DOMAIN graph) /\ rest = << >>
      /\ visited = Elements(visits)
      /\ u \notin visited /\ visited' = visited \cup {u}
      /\ waiting' = Tail(waiting) /\ visits' = Append(visits, u) /\ rest' = graph[u]
      /\ UNCHANGED <<graph, start>>
  BY DEF DFSIInv, DFSVisit, Mark
<1>2. /\ u \in DOMAIN graph
      /\ Len(waiting) \in Nat /\ Len(waiting) >= 1
      /\ Len(waiting') = Len(waiting) - 1
      /\ u = waiting[1]
      /\ \A i \in 1 .. Len(waiting) - 1 : waiting'[i] = waiting[i + 1]
  BY <1>1, TakeFirst, TailPlaces
<1> HIDE DEF u
<1>3. /\ n \in Nat
      /\ Len(visits') = n + 1
      /\ visits'[n + 1] = u
      /\ \A j \in 1 .. n : visits'[j] = visits[j]
      /\ visits' # << >>
      /\ DOMAIN visits = 1 .. n
  <2>1. n \in Nat /\ DOMAIN visits = 1 .. n
    BY <1>1, LenProperties
  <2>2. /\ Len(Append(visits, u)) = n + 1
        /\ Append(visits, u)[n + 1] = u
        /\ \A j \in 1 .. n : Append(visits, u)[j] = visits[j]
        /\ Append(visits, u) # << >>
    BY <1>1, <1>2, AppendProperties
  <2> HIDE DEF n
  <2> QED BY <1>1, <2>1, <2>2
<1>4. visited = {visits[i] : i \in 1 .. n}
  BY <1>1, <1>3 DEF Elements
<1> HIDE DEF n
<1>5. Awaited = {} /\ Awaited' = Neighbours(graph, u)
  <2>1. graph[u] \in Seq(Edge)
    BY <1>1, <1>2, GraphsAssumption
  <2> QED BY <1>1, <2>1 DEF Awaited, Elements, Neighbours
<1>6. ASSUME n > 0
      PROVE  /\ visits # << >>
             /\ \E origin \in [1 .. Len(waiting) -> 1 .. n] : Origins(origin)
  <2>1. visits # << >>
    BY <1>3, <1>6 DEF n
  <2> QED BY <2>1 DEF OrderInv, n
<1>7. \E origin \in [1 .. Len(waiting') -> 1 .. Len(visits')] : Origins(origin)'
  <2>1. CASE n = 0
    <3>1. visits = << >>
      BY <1>1, <1>3, <2>1, EmptySeq DEF n
    <3>2. waiting = <<start>> /\ Len(waiting) = 1
      BY <1>1, <3>1 DEF OrderInv
    <3>3. Len(waiting') = 0 /\ Len(visits') = 1
      BY <1>2, <1>3, <2>1, <3>2
    <3>4. [p \in 1 .. 0 |-> 1] \in [1 .. Len(waiting') -> 1 .. Len(visits')]
      BY <3>3
    <3>5. \A j \in 1 .. Len(visits') : visits'[j] = u /\ j = Len(visits')
      BY <1>3, <2>1
    <3>6. \A f : Origins(f)'
      BY <1>1, <1>5, <3>3, <3>5 DEF Origins
    <3> QED BY <3>4, <3>6
  <2>2. CASE n > 0
    <3>1. PICK old \in [1 .. Len(waiting) -> 1 .. n] : Origins(old)
      BY <1>6, <2>2
    <3>2. PICK origin \in [1 .. Len(waiting') -> 1 .. Len(visits')] :
             \A p \in 1 .. Len(waiting) - 1 : /\ p + 1 \in 1 .. Len(waiting)
                                            /\ old[p + 1] \in 1 .. n
                                            /\ origin[p] = old[p + 1]
      <4>1. \A p \in 1 .. Len(waiting) - 1 : p + 1 \in 1 .. Len(waiting)
        BY <1>2
      <4>2. [p \in 1 .. Len(waiting) - 1 |-> old[p + 1]]
               \in [1 .. Len(waiting') -> 1 .. Len(visits')]
        BY <1>2, <1>3, <4>1
      <4> QED BY <4>1, <4>2
    <3>3. \A p, q \in 1 .. Len(waiting') : p < q => origin[q] <= origin[p]
      <4> SUFFICES ASSUME NEW p \in 1 .. Len(waiting'), NEW q \in 1 .. Len(waiting'), p < q
                   PROVE  origin[q] <= origin[p]
        OBVIOUS
      <4>1. p + 1 < q + 1 /\ p \in 1 .. Len(waiting) - 1 /\ q \in 1 .. Len(waiting) - 1
        BY <1>2
      <4> QED BY <3>1, <3>2, <4>1 DEF Origins
    <3>4. \A p \in 1 .. Len(waiting') :
             waiting'[p] \in Neighbours(graph, visits'[origin[p]])
      <4> SUFFICES ASSUME NEW p \in 1 .. Len(waiting) - 1
                   PROVE  waiting'[p] \in Neighbours(graph, visits'[origin[p]])
        BY <1>2
      <4>1. waiting'[p] = waiting[p + 1] /\ visits'[origin[p]] = visits[old[p + 1]]
        BY <1>2, <1>3, <3>2
      <4>2. waiting[p + 1] \in Neighbours(graph, visits[old[p + 1]])
        BY <3>1, <3>2 DEF Origins
      <4> QED BY <4>1, <4>2
    <3>5. ASSUME NEW j \in 1 .. Len(visits'), NEW w \in Neighbours(graph, visits'[j]),
                 w \notin visited'
          PROVE  \/ \E p \in 1 .. Len(waiting') : origin[p] = j /\ waiting'[p] = w
                 \/ j = Len(visits') /\ w \in Awaited'
      <4>1. CASE j = n + 1
        BY <1>3, <1>5, <3>5, <4>1
      <4>2. CASE j \in 1 .. n
        <5>1. w \in Neighbours(graph, visits[j]) /\ w \notin visited /\ w # u
          BY <1>1, <1>3, <3>5, <4>2
        <5>2. PICK p \in 1 .. Len(waiting) : old[p] = j /\ waiting[p] = w
          BY <1>5, <3>1, <4>2, <5>1 DEF Origins, n
        <5>3. p # 1
          BY <1>2, <5>1, <5>2
        <5>4. /\ p - 1 \in 1 .. Len(waiting') /\ p - 1 \in 1 .. Len(waiting) - 1
              /\ (p - 1) + 1 = p
          BY <1>2, <5>3
        <5>5. origin[p - 1] = j /\ waiting'[p - 1] = w
          BY <1>2, <3>2, <5>2, <5>4
        <5> QED BY <5>4, <5>5
      <4> QED BY <1>3, <4>1, <4>2
    <3>6. Origins(origin)'
      BY <1>1, <3>3, <3>4, <3>5 DEF Origins
    <3> QED BY <3>2, <3>6
  <2> QED BY <1>3, <2>1, <2>2
<1>8. ASSUME NEW k \in 1 .. Len(visits'), k > 1
      PROVE  GoesOnAt(visits', k)
  <2>1. CASE k \in 1 .. n
    <3>1. GoesOnAt(visits, k)
      BY <1>8, <2>1 DEF OrderInv, n
    <3>2. visits'[k] = visits[k] /\ \A i \in 1 .. k - 1 : visits'[i] = visits[i]
      BY <1>3, <2>1
    <3>3. {visits'[i] : i \in 1 .. k - 1} = {visits[i] : i \in 1 .. k - 1}
      BY <3>2
    <3> QED BY <3>1, <3>2, <3>3 DEF GoesOnAt
  <2>2. CASE k = n + 1
    <3>1. n > 0 /\ k - 1 = n
      BY <1>3, <1>8, <2>2
    <3>2. PICK old \in [1 .. Len(waiting) -> 1 .. n] : Origins(old)
      BY <1>6, <3>1
    <3>3. {visits'[i] : i \in 1 .. n} = visited
      BY <1>3, <1>4
    <3>4. 1 \in 1 .. Len(waiting) /\ old[1] \in 1 .. n
      BY <1>2, <3>2
    <3>5. u \in Neighbours(graph, visits[old[1]])
      BY <1>2, <3>2, <3>4 DEF Origins
    <3>6. \A j \in 1 .. n : ~(Neighbours(graph, visits[j]) \subseteq visited) => j <= old[1]
      <4> SUFFICES ASSUME NEW j \in 1 .. n, NEW w \in Neighbours(graph, visits[j]),
                          w \notin visited
                   PROVE  j <= old[1]
        OBVIOUS
      <4>1. PICK p \in 1 .. Len(waiting) : old[p] = j
        BY <1>5, <3>2 DEF Origins, n
      <4>2. CASE p = 1
        BY <3>2, <4>1, <4>2
      <4>3. CASE 1 < p
        BY <3>2, <3>4, <4>1, <4>3 DEF Origins
      <4> QED BY <1>2, <4>2, <4>3
    <3>7. ~(Neighbours(graph, visits[old[1]]) \subseteq visited)
      BY <1>1, <3>5
    <3> QED BY <1>3, <2>2, <3>1, <3>3, <3>4, <3>5, <3>6, <3>7 DEF GoesOnAt
  <2> QED BY <1>3, <2>1, <2>2
<1>9. Awaited' \subseteq Neighbours(graph', visits'[Len(visits')])
  BY <1>1, <1>3, <1>5
<1>10. \A k \in 1 .. Len(visits') : k > 1 => GoesOnAt(visits, k)'
  BY <1>1, <1>8 DEF GoesOnAt
<1> QED BY <1>3, <1>7, <1>9, <1>10 DEF OrderInv

\* As long as nothing is reported the order stays what it is.
LEMMA SameOrder ==
  ASSUME OrderInv, UNCHANGED <<graph, visits>>
  PROVE  \A k \in 1 .. Len(visits') : k > 1 => GoesOnAt(visits, k)'
<1>1. \A k : GoesOnAt(visits, k)' <=> GoesOnAt(visits, k)
  BY DEF GoesOnAt
<1>2. Len(visits') = Len(visits)
  OBVIOUS
<1> QED BY <1>1, <1>2 DEF OrderInv

\* A place that held a reported vertex is gone.
LEMMA SkipOrder == DFSIInv /\ OrderInv /\ DFSSkip => OrderInv'
<1> SUFFICES ASSUME DFSIInv, OrderInv, DFSSkip PROVE OrderInv'
  OBVIOUS
<1>1. /\ waiting \in Seq(DOMAIN graph) /\ waiting # << >> /\ Head(waiting) \in visited
      /\ visits \in Seq(DOMAIN graph) /\ visited = Elements(visits)
      /\ waiting' = Tail(waiting)
      /\ UNCHANGED <<graph, start, visited, visits, rest, Awaited>>
  BY DEF DFSIInv, DFSSkip, Popped, Awaited
<1>2. /\ Len(waiting) \in Nat /\ Len(waiting) >= 1
      /\ Len(waiting') = Len(waiting) - 1
      /\ Head(waiting) = waiting[1]
      /\ \A i \in 1 .. Len(waiting) - 1 : waiting'[i] = waiting[i + 1]
  BY <1>1, TailPlaces
<1>3. visits # << >>
  BY <1>1 DEF Elements
<1>4. PICK old \in [1 .. Len(waiting) -> 1 .. Len(visits)] : Origins(old)
  BY <1>3 DEF OrderInv
<1>5. PICK origin \in [1 .. Len(waiting') -> 1 .. Len(visits)] :
         \A p \in 1 .. Len(waiting) - 1 : /\ p + 1 \in 1 .. Len(waiting)
                                        /\ origin[p] = old[p + 1]
  <2>1. \A p \in 1 .. Len(waiting) - 1 : p + 1 \in 1 .. Len(waiting)
    BY <1>2
  <2>2. [p \in 1 .. Len(waiting) - 1 |-> old[p + 1]] \in [1 .. Len(waiting') -> 1 .. Len(visits)]
    BY <1>2, <2>1
  <2> QED BY <2>1, <2>2
<1>6. \A p, q \in 1 .. Len(waiting') : p < q => origin[q] <= origin[p]
  <2> SUFFICES ASSUME NEW p \in 1 .. Len(waiting'), NEW q \in 1 .. Len(waiting'), p < q
               PROVE  origin[q] <= origin[p]
    OBVIOUS
  <2>1. p + 1 < q + 1 /\ p \in 1 .. Len(waiting) - 1 /\ q \in 1 .. Len(waiting) - 1
    BY <1>2
  <2> QED BY <1>4, <1>5, <2>1 DEF Origins
<1>7. ASSUME NEW p \in 1 .. Len(waiting')
      PROVE  waiting'[p] \in Neighbours(graph, visits[origin[p]])
  <2>1. p \in 1 .. Len(waiting) - 1
    BY <1>2
  <2>2. waiting[p + 1] \in Neighbours(graph, visits[old[p + 1]])
    BY <1>4, <1>5, <2>1 DEF Origins
  <2> QED BY <1>2, <1>5, <2>1, <2>2
<1>8. ASSUME NEW j \in 1 .. Len(visits), NEW w \in Neighbours(graph, visits[j]),
             w \notin visited
      PROVE  \/ \E p \in 1 .. Len(waiting') : origin[p] = j /\ waiting'[p] = w
             \/ j = Len(visits) /\ w \in Awaited
  <2> SUFFICES ASSUME ~(j = Len(visits) /\ w \in Awaited)
               PROVE  \E p \in 1 .. Len(waiting') : origin[p] = j /\ waiting'[p] = w
    OBVIOUS
  <2>1. PICK p \in 1 .. Len(waiting) : old[p] = j /\ waiting[p] = w
    BY <1>4, <1>8 DEF Origins
  <2>2. p # 1
    BY <1>1, <1>2, <1>8, <2>1
  <2>3. /\ p - 1 \in 1 .. Len(waiting') /\ p - 1 \in 1 .. Len(waiting) - 1
        /\ (p - 1) + 1 = p
    BY <1>2, <2>2
  <2>4. origin[p - 1] = j /\ waiting'[p - 1] = w
    BY <1>2, <1>5, <2>1, <2>3
  <2> QED BY <2>3, <2>4
<1>9. Origins(origin)'
  BY <1>1, <1>6, <1>7, <1>8 DEF Origins
<1>10. \A k \in 1 .. Len(visits') : k > 1 => GoesOnAt(visits, k)'
  BY <1>1, SameOrder
<1>11. Awaited' \subseteq Neighbours(graph', visits'[Len(visits')])
  BY <1>1, <1>3 DEF OrderInv
<1> QED BY <1>1, <1>3, <1>9, <1>10, <1>11 DEF OrderInv

\* A new place at the top has the last reported vertex as its origin.
LEMMA NeighbourOrder == DFSIInv /\ OrderInv /\ DFSNeighbour => OrderInv'
<1> SUFFICES ASSUME DFSIInv, OrderInv, DFSNeighbour PROVE OrderInv'
  OBVIOUS
<1> DEFINE nxt == Head(rest).dst
           n == Len(visits)
<1>1. /\ graph \in Graphs /\ waiting \in Seq(DOMAIN graph)
      /\ visits \in Seq(DOMAIN graph)
      /\ rest \in Seq(Edge) /\ rest # << >> /\ rest' = Tail(rest)
      /\ waiting' = IF nxt \notin visited THEN <<nxt>> \o waiting ELSE waiting
      /\ UNCHANGED <<graph, start, visited, visits>>
  BY DEF DFSIInv, DFSNeighbour, Unvisited, PushOnto
<1>2. Awaited = {nxt} \cup Awaited'
  <2>1. Elements(rest) = {Head(rest)} \cup Elements(Tail(rest))
    BY <1>1, TakeFirst
  <2> QED BY <1>1, <2>1 DEF Awaited
<1>3. nxt \in DOMAIN graph
  BY <1>1, <1>2, ReachableIsClosed DEF DFSIInv
<1> HIDE DEF nxt
<1>4. visits # << >> /\ n \in Nat /\ n \in 1 .. n
  <2>1. visits # << >>
    BY <1>1 DEF OrderInv
  <2> QED BY <1>1, <2>1, LenProperties, EmptySeq
<1>5. nxt \in Neighbours(graph, visits[n]) /\ Awaited' \subseteq Neighbours(graph, visits[n])
  BY <1>2, <1>4 DEF OrderInv
<1>6. PICK old \in [1 .. Len(waiting) -> 1 .. n] : Origins(old)
  BY <1>4 DEF OrderInv
<1>7. Len(waiting) \in Nat
  BY <1>1, LenProperties
<1>8. \E origin \in [1 .. Len(waiting') -> 1 .. n] : Origins(origin)'
  <2>1. CASE nxt \in visited
    <3>1. waiting' = waiting
      BY <1>1, <2>1
    <3>2. ASSUME NEW j \in 1 .. n, NEW w \in Neighbours(graph, visits[j])
          PROVE  \/ w \in visited
                 \/ \E p \in 1 .. Len(waiting) : old[p] = j /\ waiting[p] = w
                 \/ j = n /\ w \in Awaited'
      BY <1>2, <1>6, <2>1 DEF Origins
    <3>3. Origins(old)'
      BY <1>1, <1>6, <3>1, <3>2 DEF Origins
    <3> QED BY <1>6, <3>1, <3>3
  <2>2. CASE nxt \notin visited
    <3>1. waiting' = <<nxt>> \o waiting
      BY <1>1, <2>2
    <3>2. /\ Len(waiting') = Len(waiting) + 1
          /\ waiting'[1] = nxt
          /\ \A i \in 1 .. Len(waiting) : waiting'[i + 1] = waiting[i]
      <4>1. <<nxt>> \in Seq(DOMAIN graph) /\ Len(<<nxt>>) = 1 /\ <<nxt>>[1] = nxt
        BY <1>3
      <4>2. /\ Len(waiting') = Len(<<nxt>>) + Len(waiting)
            /\ \A i \in 1 .. Len(<<nxt>>) + Len(waiting) :
                 waiting'[i] = IF i <= Len(<<nxt>>) THEN <<nxt>>[i]
                                                  ELSE waiting[i - Len(<<nxt>>)]
        BY <1>1, <3>1, <4>1, ConcatProperties
      <4>3. \A i \in 1 .. Len(waiting) : /\ i + 1 \in 1 .. 1 + Len(waiting)
                                       /\ ~(i + 1 <= 1) /\ (i + 1) - 1 = i
        BY <1>7
      <4>4. 1 \in 1 .. 1 + Len(waiting)
        BY <1>7
      <4> QED BY <1>7, <4>1, <4>2, <4>3, <4>4
    <3>3. PICK origin \in [1 .. Len(waiting') -> 1 .. n] :
             /\ origin[1] = n
             /\ \A p \in 1 .. Len(waiting) : origin[p + 1] = old[p]
      <4> DEFINE f == [p \in 1 .. Len(waiting) + 1 |-> IF p = 1 THEN n ELSE old[p - 1]]
      <4>1. \A p \in 1 .. Len(waiting) + 1 : p = 1 \/ p - 1 \in 1 .. Len(waiting)
        BY <1>7
      <4>2. f \in [1 .. Len(waiting') -> 1 .. n]
        BY <1>4, <3>2, <4>1
      <4>3. /\ 1 \in 1 .. Len(waiting) + 1
            /\ \A p \in 1 .. Len(waiting) : /\ p + 1 \in 1 .. Len(waiting) + 1
                                          /\ p + 1 # 1 /\ (p + 1) - 1 = p
        BY <1>7
      <4>4. f[1] = n /\ \A p \in 1 .. Len(waiting) : f[p + 1] = old[p]
        BY <4>3
      <4> HIDE DEF f
      <4> QED BY <4>2, <4>4
    <3>4. \A p \in 1 .. Len(waiting') :
             p = 1 \/ (p - 1 \in 1 .. Len(waiting) /\ (p - 1) + 1 = p)
      BY <1>7, <3>2
    <3>5. \A p \in 1 .. Len(waiting) : p + 1 \in 1 .. Len(waiting') /\ old[p] \in 1 .. n
      BY <1>7, <3>2
    <3>6. ASSUME NEW p \in 1 .. Len(waiting'), NEW q \in 1 .. Len(waiting'), p < q
          PROVE  origin[q] <= origin[p]
      <4>1. q - 1 \in 1 .. Len(waiting) /\ (q - 1) + 1 = q
        BY <3>4, <3>6
      <4>2. CASE p = 1
        <5>1. origin[p] = n /\ origin[q] = old[q - 1] /\ old[q - 1] \in 1 .. n
          BY <3>3, <3>5, <4>1, <4>2
        <5> QED BY <1>4, <5>1
      <4>3. CASE p - 1 \in 1 .. Len(waiting) /\ (p - 1) + 1 = p
        <5>1. origin[q] = old[q - 1] /\ origin[p] = old[p - 1]
          BY <3>3, <4>1, <4>3
        <5>2. p - 1 < q - 1
          BY <3>6
        <5> QED BY <1>6, <4>1, <4>3, <5>1, <5>2 DEF Origins
      <4> QED BY <3>4, <4>2, <4>3
    <3>7. ASSUME NEW p \in 1 .. Len(waiting')
          PROVE  waiting'[p] \in Neighbours(graph, visits[origin[p]])
      <4>1. CASE p = 1
        BY <1>5, <3>2, <3>3, <4>1
      <4>2. CASE p - 1 \in 1 .. Len(waiting) /\ (p - 1) + 1 = p
        <5>1. origin[p] = old[p - 1] /\ waiting'[p] = waiting[p - 1]
          BY <3>2, <3>3, <4>2
        <5> QED BY <1>6, <4>2, <5>1 DEF Origins
      <4> QED BY <3>4, <4>1, <4>2
    <3>8. ASSUME NEW j \in 1 .. n, NEW w \in Neighbours(graph, visits[j]),
                 w \notin visited, ~(j = n /\ w \in Awaited')
          PROVE  \E p \in 1 .. Len(waiting') : origin[p] = j /\ waiting'[p] = w
      <4>1. CASE \E p \in 1 .. Len(waiting) : old[p] = j /\ waiting[p] = w
        <5>1. PICK p \in 1 .. Len(waiting) : old[p] = j /\ waiting[p] = w
          BY <4>1
        <5> QED BY <3>2, <3>3, <3>5, <5>1
      <4>2. CASE j = n /\ w \in Awaited
        <5>1. w = nxt /\ 1 \in 1 .. Len(waiting')
          BY <1>2, <1>7, <3>2, <3>8, <4>2
        <5> QED BY <3>2, <3>3, <4>2, <5>1
      <4> QED BY <1>6, <3>8, <4>1, <4>2 DEF Origins
    <3>9. Origins(origin)'
      BY <1>1, <3>6, <3>7, <3>8 DEF Origins
    <3> QED BY <3>3, <3>9
  <2> QED BY <2>1, <2>2
<1>9. \A k \in 1 .. Len(visits') : k > 1 => GoesOnAt(visits, k)'
  BY <1>1, SameOrder
<1> QED BY <1>1, <1>4, <1>5, <1>8, <1>9 DEF OrderInv

LEMMA NextOrder == DFSIInv /\ OrderInv /\ [DFSNext]_vars => OrderInv'
<1>1. ASSUME OrderInv, UNCHANGED vars PROVE OrderInv'
  <2>1. UNCHANGED <<graph, start, visited, waiting, visits, rest, Awaited>>
    BY <1>1 DEF vars, Awaited
  <2>2. \A k \in 1 .. Len(visits') : k > 1 => GoesOnAt(visits, k)'
    BY <1>1, <2>1, SameOrder
  <2>3. \A origin : Origins(origin)' <=> Origins(origin)
    BY <2>1 DEF Origins
  <2> QED BY <1>1, <2>1, <2>2, <2>3 DEF OrderInv
<1> QED BY <1>1, VisitOrder, SkipOrder, NeighbourOrder DEF DFSNext

\* dfs: the search goes on from the last reported vertex that still has a
\* neighbour not reported.
THEOREM DepthFirstGoesDeep == DFS => []DepthFirstOrder
<1>1. DFSInit => DFSIInv /\ OrderInv
  BY DFSInitIInv DEF DFSInit, OrderInv
<1>2. DFSIInv /\ OrderInv /\ [DFSNext]_vars => DFSIInv' /\ OrderInv'
  BY DFSNextIInv, NextOrder
<1>3. DFSIInv /\ OrderInv => DepthFirstOrder
  <2>1. ASSUME DFSIInv PROVE DOMAIN visits = 1 .. Len(visits)
    BY <2>1, LenProperties DEF DFSIInv
  <2> QED BY <2>1 DEF OrderInv, DepthFirstOrder, GoesOnAt
<1> QED BY <1>1, <1>2, <1>3, PTL DEF DFS
=============================================================================
