----------------------------- MODULE SimpleGraph -----------------------------
(***************************************************************************)
(* What a storage structure that keeps at most one edge per ordered pair   *)
(* of vertices promises: the vertices it was told of, and a weight for     *)
(* each ordered pair joined by an edge.  An undirected graph stores each   *)
(* edge in both directions.  This is the observable content that           *)
(* hasVertex, hasEdge, getDegree, forEachNeighbor and traverseEntireGraph  *)
(* report, whatever the layout behind them.                                *)
(***************************************************************************)
EXTENDS Integers

CONSTANTS EdgeCalls,    \* the calls <<u, v, weight>> made to addEdge
          VertexCalls,  \* the vertices passed to addVertex
          KeepLeast     \* a repeated edge: TRUE keeps the smaller weight,
                        \* FALSE the one of the last call

VARIABLES isDirected, verts, weightOf

Init ==
  /\ isDirected \in BOOLEAN
  /\ verts = {}
  /\ weightOf = << >>

AddVertex(x) ==
  /\ verts' = verts \cup {x}
  /\ UNCHANGED <<isDirected, weightOf>>

Merged(pair, w) ==
  IF KeepLeast /\ pair \in DOMAIN weightOf /\ weightOf[pair] < w
    THEN weightOf[pair]
    ELSE w

AddEdge(u, v, w) ==
  LET pairs == IF isDirected THEN {<<u, v>>} ELSE {<<u, v>>, <<v, u>>}
  IN  /\ verts' = verts \cup {u, v}
      /\ weightOf' = [p \in DOMAIN weightOf \cup pairs |->
                        IF p \in pairs THEN Merged(p, w) ELSE weightOf[p]]
      /\ UNCHANGED isDirected

Next ==
  \/ \E x \in VertexCalls : AddVertex(x)
  \/ \E c \in EdgeCalls : AddEdge(c[1], c[2], c[3])

Spec == Init /\ [][Next]_<<isDirected, verts, weightOf>>

\* Converting the structure to another one may only forget that the graph is
\* undirected: the edges stay, and from now on they are added in one direction.
BecomeDirected ==
  /\ isDirected' = TRUE
  /\ UNCHANGED <<verts, weightOf>>

ConvertibleSpec == Init /\ [][Next \/ BecomeDirected]_<<isDirected, verts, weightOf>>
=============================================================================
