------------------------------ MODULE Dijkstra ------------------------------
(***************************************************************************)
(* BaseGraph::dijkstra, one step per turn of its loop and one per call     *)
(* that forEachNeighbor makes to the lambda in it.                         *)
(*                                                                         *)
(* WeightType is taken to be a signed integer narrower than int: a sum     *)
(* above MaxWeight wraps when it is converted back (for int the overflow   *)
(* is undefined).  With a bound that no sum reaches, weights are exact.    *)
(***************************************************************************)
EXTENDS SearchedGraph, FiniteSets

CONSTANT MaxWeight

ASSUME MaxWeightAssumption == MaxWeight \in Nat
\* Vertices are numbers here, the queue compares them when distances tie.
ASSUME VertexAssumption == Vertex \subseteq Nat

VARIABLES
  graph, start,  \* the arguments
  dist,          \* vertex -> the least distance seen
  pq,            \* the queue: pairs [dist, vertex]
  current,       \* the pair taken last
  rest,          \* what forEachNeighbor still reports of its vertex
  thrown         \* std::invalid_argument left the function

vars == <<graph, start, dist, pq, current, rest, thrown>>

Item == [dist : Int, vertex : Vertex]

\* A pair is pushed only when it lowers dist of its vertex, so none is pushed
\* twice and the queue is a set.
Init ==
  /\ graph \in Graphs
  /\ start \in Starts
  /\ dist = [v \in {start} \cap DOMAIN graph |-> 0]
  /\ pq = {[dist |-> 0, vertex |-> v] : v \in {start} \cap DOMAIN graph}
  /\ current = [dist |-> 0, vertex |-> start]
  /\ rest = << >>
  /\ thrown = FALSE

\* Mutant: std::less, which makes it a queue of the farthest.
Farther(p, q) == p.dist > q.dist \/ (p.dist = q.dist /\ p.vertex >= q.vertex)

\* std::greater on pairs puts the least one at the top.
NotAfter(p, q) == p.dist < q.dist \/ (p.dist = q.dist /\ p.vertex <= q.vertex)

\* The pair was pushed before a better one of the same vertex.
Stale(p) == p.dist > dist[p.vertex]

Pop ==
  /\ rest = << >>
  /\ \E top \in pq :
       /\ \A p \in pq : NotAfter(top, p)
       /\ pq' = pq \ {top}
       /\ current' = top
       /\ rest' = IF Stale(top) THEN << >> ELSE graph[top.vertex]
  /\ UNCHANGED <<graph, start, dist, thrown>>

Sum(d, weight) ==
  IF d + weight > MaxWeight THEN d + weight - 2 * (MaxWeight + 1) ELSE d + weight

\* Mutants: a distance that is no better counts as better; one that is better
\* does not replace the first.
NoWorse(v, new_d) == v \notin DOMAIN dist \/ new_d <= dist[v]
FirstSeen(v, new_d) == v \notin DOMAIN dist

Better(v, new_d) == v \notin DOMAIN dist \/ new_d < dist[v]

\* Mutant: the sum is compared with 0, not the weight.
NegativeSum(weight) == current.dist + weight < 0

Negative(weight) == weight < 0

Relax ==
  LET v == Head(rest).dst
      new_d == Sum(current.dist, Head(rest).weight)
  IN  /\ rest # << >>
      /\ ~Negative(Head(rest).weight)
      /\ rest' = Tail(rest)
      /\ IF Better(v, new_d)
           THEN /\ dist' = [u \in DOMAIN dist \cup {v} |->
                              IF u = v THEN new_d ELSE dist[u]]
                /\ pq' = pq \cup {[dist |-> new_d, vertex |-> v]}
           ELSE UNCHANGED <<dist, pq>>
      /\ UNCHANGED <<graph, start, current, thrown>>

\* The exception leaves the function; what it had computed is gone.
Throw ==
  /\ rest # << >>
  /\ Negative(Head(rest).weight)
  /\ thrown' = TRUE
  /\ dist' = << >>
  /\ pq' = {}
  /\ rest' = << >>
  /\ UNCHANGED <<graph, start, current>>

Next == Pop \/ Relax \/ Throw

Spec == Init /\ [][Next]_vars

\* The search is one sequential call.
FairSpec == Spec /\ WF_vars(Next)

Returned == pq = {} /\ rest = << >>

-----------------------------------------------------------------------------
(* Properties.                                                             *)

Reached == Reachable(graph, start)

\* The walks from the start of up to k edges, by their ends and their lengths.
Walks ==
  LET walks[k \in 0 .. Cardinality(DOMAIN graph)] ==
        IF k = 0 THEN {<<start, 0>>}
        ELSE walks[k - 1] \cup
               UNION {{<<graph[w[1]][i].dst, w[2] + graph[w[1]][i].weight>> :
                         i \in DOMAIN graph[w[1]]} : w \in walks[k - 1]}
  IN  walks

\* The exact length of a shortest path to each vertex, if no weight is
\* negative: the least of the lengths of the walks with no more edges than
\* there are vertices.
Shortest ==
  LET walks == Walks[Cardinality(DOMAIN graph)]
      lengths(v) == {w[2] : w \in {u \in walks : u[1] = v}}
  IN  [v \in Reached |-> CHOOSE d \in lengths(v) : \A e \in lengths(v) : d <= e]

NoneNegative == \A v \in Reached : \A i \in DOMAIN graph[v] : graph[v][i].weight >= 0

\* No sum the search makes can wrap.  It is not enough that the distances fit:
\* an edge off the shortest paths is added to the distance of its source too.
SumsFit ==
  \A v \in Reached : \A i \in DOMAIN graph[v] :
     Shortest[v] + graph[v][i].weight <= MaxWeight

\* The function returns the distance of every vertex that can be reached, and
\* no other, whatever outdated pairs the queue held.
DistancesAreShortest ==
  Returned /\ ~thrown /\ SumsFit => dist = Shortest

\* The function throws if and only if some edge that can be reached has a
\* negative weight, however late it gets to it; one that cannot be reached
\* does no harm.
ThrowsOnNegativeEdge == Returned => (thrown <=> ~NoneNegative)

\* A vertex with no better pair in the queue has its final distance: the
\* greedy choice is never revised.
SettledStaysFinal ==
  [][SumsFit /\ NoneNegative =>
       \A v \in DOMAIN dist :
          [dist |-> dist[v], vertex |-> v] \notin pq =>
             v \in DOMAIN dist' /\ dist'[v] = dist[v]]_vars

\* The loop ends, around cycles of weight 0 and even when sums wrap.
Returns == <>Returned
=============================================================================
