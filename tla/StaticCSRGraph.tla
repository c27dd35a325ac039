--------------------------- MODULE StaticCSRGraph ---------------------------
(***************************************************************************)
(* StaticCSRGraph: the compressed arrays of a DynamicCSRGraph, built once, *)
(* from a RawGraph or taken over from a DynamicCSRGraph, and never changed.*)
(* Its queries repeat those of DynamicCSRGraph on the same arrays.         *)
(***************************************************************************)
EXTENDS CSRArrays, VertexRegistry

LOCAL Dynamic == INSTANCE DynamicCSRGraph

Empty(directed) ==
  [isDirected |-> directed, idMap |-> << >>, reverseIdMap |-> << >>,
   csr |-> Arrays([i \in {0} |-> 0], << >>)]

Vertices(raw) == RegisteredAll(EmptyRegistry, raw.reverseIdMap)

BuildFromEdgeList(reg, edges) == BuildCSR(Len(reg.reverseIdMap), edges)

\* The graph is directed whatever the source was.
FromRaw(raw) ==
  LET reg == Vertices(raw)
      id(i) == reg.idMap[raw.reverseIdMap[i]]
      entry(e) == [src |-> id(e.src), dst |-> id(e.dst), weight |-> e.weight]
  IN  [isDirected |-> TRUE, idMap |-> reg.idMap, reverseIdMap |-> reg.reverseIdMap,
       csr |-> BuildFromEdgeList(reg, [k \in DOMAIN raw.edgeList |-> entry(raw.edgeList[k])])]

FromDynamic(dyn) ==
  [isDirected |-> dyn.isDirected, idMap |-> dyn.idMap,
   reverseIdMap |-> dyn.reverseIdMap, csr |-> dyn.csr]

HasEdge(g, u, v) == Dynamic!HasEdge(g, u, v)
HasEdgeWithWeight(g, u, v, w) == Dynamic!HasEdgeWithWeight(g, u, v, w)
GetDegree(g, u) == Dynamic!GetDegree(g, u)
Traversal(g) == Dynamic!Traversal(g)
NumEdges(g) == Dynamic!NumEdges(g)
=============================================================================
