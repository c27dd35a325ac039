-------------------------- MODULE VirtualCSRGraph --------------------------
(***************************************************************************)
(* VirtualCSRGraph: StaticCSRGraph behind virtual functions.  It takes the *)
(* maps and the ids of a VirtualRawGraph, and its direction, as they are.  *)
(***************************************************************************)
EXTENDS CSRArrays

LOCAL Dynamic == INSTANCE DynamicCSRGraph

BuildFromEdgeList(raw) == BuildCSR(Len(raw.reverseIdMap), raw.edgeList)

\* Copied or moved: the moved maps are built on where they are now.
FromRaw(raw) ==
  [isDirected |-> raw.isDirected, idMap |-> raw.idMap,
   reverseIdMap |-> raw.reverseIdMap, csr |-> BuildFromEdgeList(raw)]

HasEdge(g, u, v) == Dynamic!HasEdge(g, u, v)
HasEdgeWithWeight(g, u, v, w) == Dynamic!HasEdgeWithWeight(g, u, v, w)
GetDegree(g, u) == Dynamic!GetDegree(g, u)
Traversal(g) == Dynamic!Traversal(g)
NumEdges(g) == Dynamic!NumEdges(g)
=============================================================================
