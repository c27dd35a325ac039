--------------------------- MODULE MCCBListGraph ---------------------------
(* Parallel edges in both directions, a loop, and a vertex on its own: with  *)
(* chunks of two entries a vertex fills up to three of them.                 *)
EXTENDS CBListGraph

CONSTANTS a, b, c

MCVertex == {a, b, c}
MCEdgeCalls == {<<a, b, 1>>, <<a, b, 2>>, <<b, a, 1>>, <<c, a, 1>>, <<a, a, 1>>}
MCVertexCalls == {c}

\* What is left of a directed RawGraph after addVertex(c), addEdge(a, b, 2),
\* addEdge(a, a, 1), addEdge(a, b, 1), and of an undirected one after
\* addEdge(a, b, 2).
MCSources ==
  {[reverseIdMap |-> <<c, a, b>>,
    edgeList |-> << [src |-> 2, dst |-> 3, weight |-> 2],
                    [src |-> 2, dst |-> 2, weight |-> 1],
                    [src |-> 2, dst |-> 3, weight |-> 1] >>],
   [reverseIdMap |-> <<a, b>>,
    edgeList |-> << [src |-> 1, dst |-> 2, weight |-> 2],
                    [src |-> 2, dst |-> 1, weight |-> 2] >>]}
=============================================================================
