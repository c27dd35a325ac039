----------------------------- MODULE NaiveGraph -----------------------------
(***************************************************************************)
(* NaiveGraph, the adjacency list that README.md names the readability and *)
(* behaviour reference of the library: for every vertex the list of its    *)
(* edges [dst, weight] in the order of the calls, parallel edges included. *)
(* A graph starts empty or as the copy of a RawGraph, the record of its    *)
(* reverseIdMap and edgeList.                                              *)
(***************************************************************************)
EXTENDS Naturals, SequencesExt

CONSTANTS EdgeCalls,    \* the calls <<u, v, weight>> made to addEdge
          VertexCalls,  \* the vertices passed to addVertex
          Sources       \* the RawGraphs a graph may be constructed from

VARIABLES
  isDirected,  \* fixed by the constructor
  adjList      \* vertex -> list of edges

WithVertex(adj, u) ==
  [x \in DOMAIN adj \cup {u} |-> IF x \in DOMAIN adj THEN adj[x] ELSE << >>]

WithEntry(adj, u, v, w) == [adj EXCEPT ![u] = Append(@, [dst |-> v, weight |-> w])]

WithEdge(directed, adj, u, v, w) ==
  LET there == WithEntry(WithVertex(WithVertex(adj, u), v), u, v, w)
  IN  IF directed \/ u = v THEN there ELSE WithEntry(there, v, u, w)

\* Mutant: the direction of the source is kept, and its reverse entries with it.
FromRawUndirected(raw) ==
  LET add(adj, e) == WithEdge(FALSE, adj, raw.reverseIdMap[e.src],
                              raw.reverseIdMap[e.dst], e.weight)
  IN  FoldLeft(add, FoldLeft(WithVertex, << >>, raw.reverseIdMap), raw.edgeList)

\* The vertices in the order of their ids, then every entry as a directed edge.
FromRaw(raw) ==
  LET add(adj, e) == WithEdge(TRUE, adj, raw.reverseIdMap[e.src],
                              raw.reverseIdMap[e.dst], e.weight)
  IN  FoldLeft(add, FoldLeft(WithVertex, << >>, raw.reverseIdMap), raw.edgeList)

InitFromRaw(raw) ==
  /\ isDirected = TRUE
  /\ adjList = FromRaw(raw)

Init ==
  \/ isDirected \in BOOLEAN /\ adjList = << >>
  \/ \E raw \in Sources : InitFromRaw(raw)

AddVertex(u) ==
  /\ adjList' = WithVertex(adjList, u)
  /\ UNCHANGED isDirected

AddEdge(u, v, w) ==
  /\ adjList' = WithEdge(isDirected, adjList, u, v, w)
  /\ UNCHANGED isDirected

Next ==
  \/ \E x \in VertexCalls : AddVertex(x)
  \/ \E c \in EdgeCalls : AddEdge(c[1], c[2], c[3])

Spec == Init /\ [][Next]_<<isDirected, adjList>>

-----------------------------------------------------------------------------
(* Queries.                                                                *)

GetDegree(u) == IF u \in DOMAIN adjList THEN Len(adjList[u]) ELSE 0

Total(S) ==
  LET sum[T \in SUBSET S] ==
        IF T = {} THEN 0
        ELSE LET x == CHOOSE y \in T : TRUE IN Len(adjList[x]) + sum[T \ {x}]
  IN  sum[S]

\* Integer division: a loop of an undirected graph counts for half an edge.
NumEdges ==
  IF isDirected THEN Total(DOMAIN adjList) ELSE Total(DOMAIN adjList) \div 2
=============================================================================
