-------------------------- MODULE DynamicCSRGraph --------------------------
(***************************************************************************)
(* DynamicCSRGraph: the compressed arrays, built again from edgeBuffer by  *)
(* every insertion; the buffer keeps every edge ever added.  A graph is    *)
(* the record of its fields, an operation a function of it.  A RawGraph is *)
(* the record of its isDirected, idMap, reverseIdMap and edgeList.         *)
(***************************************************************************)
EXTENDS CSRArrays, VertexRegistry

Empty(directed) ==
  [isDirected |-> directed, idMap |-> << >>, reverseIdMap |-> << >>,
   csr |-> Arrays([i \in {0} |-> 0], << >>), edgeBuffer |-> << >>]

GetOrRegisterVertex(g, x) ==
  LET reg == Registered([idMap |-> g.idMap, reverseIdMap |-> g.reverseIdMap], x)
  IN  [g EXCEPT !.idMap = reg.idMap, !.reverseIdMap = reg.reverseIdMap]

Rebuild(g) == [g EXCEPT !.csr = BuildCSR(Len(g.reverseIdMap), g.edgeBuffer)]

\* The vertices in the order of their ids, the entries through the new idMap;
\* the graph is directed whatever the source was.
FromRaw(raw) ==
  LET g == FoldLeft(GetOrRegisterVertex, Empty(TRUE), raw.reverseIdMap)
      id(i) == g.idMap[raw.reverseIdMap[i]]
      entry(e) == [src |-> id(e.src), dst |-> id(e.dst), weight |-> e.weight]
  IN  Rebuild([g EXCEPT !.edgeBuffer =
                 [k \in DOMAIN raw.edgeList |-> entry(raw.edgeList[k])]])

AddVertex(g, x) ==
  IF x \in DOMAIN g.idMap THEN g ELSE Rebuild(GetOrRegisterVertex(g, x))

\* Mutant: the buffer is emptied before it is filled, as after finalize().
AddEdgeToEmptied(g, u, v, w) ==
  LET h == GetOrRegisterVertex(GetOrRegisterVertex(g, u), v)
  IN  Rebuild([h EXCEPT !.edgeBuffer =
                 << [src |-> h.idMap[u], dst |-> h.idMap[v], weight |-> w] >>])

AddEdge(g, u, v, w) ==
  LET h == GetOrRegisterVertex(GetOrRegisterVertex(g, u), v)
      forward == [src |-> h.idMap[u], dst |-> h.idMap[v], weight |-> w]
      reverse == [src |-> h.idMap[v], dst |-> h.idMap[u], weight |-> w]
  IN  Rebuild([h EXCEPT !.edgeBuffer =
                 @ \o IF g.isDirected \/ u = v THEN <<forward>>
                      ELSE <<forward, reverse>>])

-----------------------------------------------------------------------------
(* Queries; a vertex that is not registered has no edges.                  *)

RowOf(g, u) == IF u \in DOMAIN g.idMap THEN Row(g.csr, g.idMap[u]) ELSE << >>

HasEdge(g, u, v) ==
  v \in DOMAIN g.idMap /\ BinarySearch(RowOf(g, u), g.idMap[v])

HasEdgeWithWeight(g, u, v, w) ==
  /\ v \in DOMAIN g.idMap
  /\ [dst |-> g.idMap[v], weight |-> w] \in ToSet(RowOf(g, u))

GetDegree(g, u) == Len(RowOf(g, u))

\* The edges that traverseEntireGraph reports.
Traversal(g) ==
  UNION {{[src |-> u, dst |-> g.reverseIdMap[c.dst], weight |-> c.weight] :
            c \in ToSet(RowOf(g, u))} : u \in DOMAIN g.idMap}

NumEdges(g) == IF g.isDirected THEN Len(g.csr.cells) ELSE Len(g.csr.cells) \div 2
=============================================================================
