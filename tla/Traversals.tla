----------------------------- MODULE Traversals -----------------------------
(***************************************************************************)
(* BaseGraph::bfs and BaseGraph::dfs, one step per turn of the loop and    *)
(* one per call that forEachNeighbor makes to the lambda in it.  The two   *)
(* keep the same state and differ in where a vertex waits and when it is   *)
(* marked: bfs marks it when it is pushed, dfs when it leaves the stack,   *)
(* so that it may be on the stack more than once.                          *)
(***************************************************************************)
EXTENDS SearchedGraph, FiniteSets

VARIABLES
  graph, start,  \* the arguments
  visited,       \* the marked vertices
  waiting,       \* q of bfs, or s of dfs; what is taken next is its head
  visits,        \* the vertices passed to the callback, in order
  rest           \* what forEachNeighbor still reports of the last of them

vars == <<graph, start, visited, waiting, visits, rest>>

\* Mutant of bfs: only the vertices already reported count as visited.
NotReported(v) == v \notin Elements(visits)

\* Mutant of dfs: a vertex is pushed only once.
NowhereYet(v) == v \notin visited /\ v \notin Elements(waiting)

Unvisited(v) == v \notin visited

Returned == waiting = << >> /\ rest = << >>

-----------------------------------------------------------------------------
(* bfs.  A start that is no vertex returns at once.                        *)

BFSInit ==
  /\ graph \in Graphs
  /\ start \in Starts
  /\ visited = {start} \cap DOMAIN graph
  /\ waiting = IF start \in DOMAIN graph THEN <<start>> ELSE << >>
  /\ visits = << >>
  /\ rest = << >>

BFSVisit ==
  /\ rest = << >>
  /\ waiting # << >>
  /\ waiting' = Tail(waiting)
  /\ visits' = Append(visits, Head(waiting))
  /\ rest' = graph[Head(waiting)]
  /\ UNCHANGED <<graph, start, visited>>

\* Mutant: the vertex goes to the front.
PushFront(q, v) == <<v>> \o q

Enqueue(q, v) == Append(q, v)

BFSNeighbour ==
  LET nxt == Head(rest).dst
  IN  /\ rest # << >>
      /\ rest' = Tail(rest)
      /\ IF Unvisited(nxt)
           THEN /\ visited' = visited \cup {nxt}
                /\ waiting' = Enqueue(waiting, nxt)
           ELSE UNCHANGED <<visited, waiting>>
      /\ UNCHANGED <<graph, start, visits>>

BFSNext == BFSVisit \/ BFSNeighbour

BFS == BFSInit /\ [][BFSNext]_vars

-----------------------------------------------------------------------------
(* dfs.  Again a start that is no vertex returns at once.                  *)

DFSInit ==
  /\ graph \in Graphs
  /\ start \in Starts
  /\ visited = {}
  /\ waiting = IF start \in DOMAIN graph THEN <<start>> ELSE << >>
  /\ visits = << >>
  /\ rest = << >>

\* Mutant: nothing is marked.
MarkNothing(set, v) == set

Mark(set, v) == set \cup {v}

DFSVisit ==
  /\ rest = << >>
  /\ waiting # << >>
  /\ Head(waiting) \notin visited
  /\ waiting' = Tail(waiting)
  /\ visited' = Mark(visited, Head(waiting))
  /\ visits' = Append(visits, Head(waiting))
  /\ rest' = graph[Head(waiting)]
  /\ UNCHANGED <<graph, start>>

\* Mutant: the loop goes on before it popped.
Unpopped(s) == s

Popped(s) == Tail(s)

DFSSkip ==
  /\ rest = << >>
  /\ waiting # << >>
  /\ Head(waiting) \in visited
  /\ waiting' = Popped(waiting)
  /\ UNCHANGED <<graph, start, visited, visits, rest>>

PushOnto(s, v) == <<v>> \o s

DFSNeighbour ==
  LET nxt == Head(rest).dst
  IN  /\ rest # << >>
      /\ rest' = Tail(rest)
      /\ waiting' = IF Unvisited(nxt) THEN PushOnto(waiting, nxt) ELSE waiting
      /\ UNCHANGED <<graph, start, visited, visits>>

DFSNext == DFSVisit \/ DFSSkip \/ DFSNeighbour

DFS == DFSInit /\ [][DFSNext]_vars

\* The search is one sequential call.
FairDFS == DFS /\ WF_vars(DFSNext)

-----------------------------------------------------------------------------
(* Properties.                                                             *)

\* Of both: the callback gets no vertex twice and none that cannot be reached,
\* and by the end it got all that can, whatever loops, parallel edges and
\* cycles the graph has, and however often a vertex is on the stack of dfs.
VisitsReachableOnce ==
  /\ OnceEach(visits)
  /\ Elements(visits) \subseteq Reachable(graph, start)
  /\ Returned => Elements(visits) = Reachable(graph, start)

\* The vertices within k edges of the start.
Ball ==
  LET ball[k \in 0 .. Cardinality(DOMAIN graph)] ==
        IF k = 0 THEN {start}
        ELSE ball[k - 1] \cup UNION {Neighbours(graph, v) : v \in ball[k - 1]}
  IN  ball

\* Of bfs: vertices are reported, and wait, in the order of their distance from
\* the start in edges.
InOrderOfHops ==
  LET order == visits \o waiting
  IN  \A i, j \in DOMAIN order : i < j =>
        \A k \in DOMAIN Ball : order[j] \in Ball[k] => order[i] \in Ball[k]

\* Of dfs: the search goes on from the vertex it reported last as long as that
\* one has a neighbour it has not reported, and returns to the one before only
\* then.
DepthFirstOrder ==
  \A k \in DOMAIN visits : k > 1 =>
    LET before == {visits[i] : i \in 1 .. k - 1}
        open == {j \in 1 .. k - 1 : ~(Neighbours(graph, visits[j]) \subseteq before)}
    IN  \E j \in open : /\ \A i \in open : i <= j
                        /\ visits[k] \in Neighbours(graph, visits[j])

\* Of dfs: the loop ends.  Every turn of it takes a vertex from the stack, and
\* only a vertex reported for the first time adds to it.
Returns == <>Returned
=============================================================================
