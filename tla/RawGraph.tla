------------------------------ MODULE RawGraph ------------------------------
(***************************************************************************)
(* RawGraph: one flat list of directed edges [src, dst, weight] between    *)
(* ids; the other structures are constructed from it.  Ids count from 1.   *)
(***************************************************************************)
EXTENDS VertexRegistry

CONSTANTS Vertex,       \* what VertexType ranges over
          EdgeCalls,    \* the calls <<u, v, weight>> made to addEdge
          VertexCalls,  \* the vertices passed to addVertex
          MaxEntries    \* bound on the length of edgeList

ASSUME RawCallsAssumption == /\ EdgeCalls \subseteq Vertex \X Vertex \X Nat
                             /\ VertexCalls \subseteq Vertex

VARIABLES
  isDirected,    \* fixed by the constructor
  idMap,         \* vertex -> id
  reverseIdMap,  \* id -> vertex
  edgeList

vars == <<isDirected, idMap, reverseIdMap, edgeList>>

Init ==
  /\ isDirected \in BOOLEAN
  /\ idMap = << >>
  /\ reverseIdMap = << >>
  /\ edgeList = << >>

Registry == [idMap |-> idMap, reverseIdMap |-> reverseIdMap]

GetOrRegisterVertex(reg, x) == Registered(reg, x)
Adopt(reg) == idMap' = reg.idMap /\ reverseIdMap' = reg.reverseIdMap

AddVertex(x) ==
  /\ Adopt(GetOrRegisterVertex(Registry, x))
  /\ UNCHANGED <<isDirected, edgeList>>

AddEdge(u, v, w) ==
  LET reg == GetOrRegisterVertex(GetOrRegisterVertex(Registry, u), v)
      i == reg.idMap[u]
      j == reg.idMap[v]
      forward == [src |-> i, dst |-> j, weight |-> w]
      reverse == [src |-> j, dst |-> i, weight |-> w]
      added == IF isDirected \/ i = j THEN <<forward>> ELSE <<forward, reverse>>
  IN  /\ Len(edgeList) + Len(added) <= MaxEntries
      /\ Adopt(reg)
      /\ edgeList' = edgeList \o added
      /\ UNCHANGED isDirected

Next ==
  \/ \E x \in VertexCalls : AddVertex(x)
  \/ \E c \in EdgeCalls : AddEdge(c[1], c[2], c[3])

Spec == Init /\ [][Next]_vars

-----------------------------------------------------------------------------
(* Queries.                                                                *)

\* Mutant: the edges are reported at their other end.
EdgesInto(x) ==
  LET into == SelectSeq(edgeList, LAMBDA e : e.dst = idMap[x])
  IN  [k \in DOMAIN into |-> [dst |-> reverseIdMap[into[k].src],
                              weight |-> into[k].weight]]

\* hasEdge without and with a weight, getDegree, numEdges: scans of the list.
HasEdge(u, v) ==
  /\ {u, v} \subseteq DOMAIN idMap
  /\ \E e \in ToSet(edgeList) : e.src = idMap[u] /\ e.dst = idMap[v]

HasEdgeWithWeight(u, v, w) ==
  /\ {u, v} \subseteq DOMAIN idMap
  /\ [src |-> idMap[u], dst |-> idMap[v], weight |-> w] \in ToSet(edgeList)

NumEdges == IF isDirected THEN Len(edgeList) ELSE Len(edgeList) \div 2

\* What forEachNeighbor reports.
Reported(x) ==
  LET of == SelectSeq(edgeList, LAMBDA e : e.src = idMap[x])
  IN  [k \in DOMAIN of |-> [dst |-> reverseIdMap[of[k].dst], weight |-> of[k].weight]]

-----------------------------------------------------------------------------
(* Properties.                                                             *)

Reference == INSTANCE NaiveGraph
               WITH adjList <- [x \in DOMAIN idMap |-> Reported(x)],
                    Sources <- {}

\* The scans of the flat list report for every vertex the list that
\* NaiveGraph keeps, in the same order, after any calls.
ImplementsNaiveGraph == Reference!Spec
=============================================================================
