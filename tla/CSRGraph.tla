------------------------------ MODULE CSRGraph ------------------------------
(***************************************************************************)
(* CSRGraph (include/graphs/CSRGraph.hpp): edges are staged in edgeBuffer  *)
(* and served only after finalize() built the compressed arrays from them. *)
(* Any later addVertex or addEdge withdraws the arrays until the next      *)
(* finalize().                                                             *)
(***************************************************************************)
EXTENDS CSRArrays, VertexRegistry

CONSTANTS Vertex,       \* what VertexType ranges over
          EdgeCalls,    \* the calls <<u, v, weight>> made to addEdge
          VertexCalls,  \* the vertices passed to addVertex
          MaxStaged,    \* bound on the edges in edgeBuffer
          MaxOnce       \* the same for a caller who adds nothing later

ASSUME CSRCallsAssumption == /\ EdgeCalls \subseteq Vertex \X Vertex \X Nat
                             /\ VertexCalls \subseteq Vertex
ASSUME CSRBoundsAssumption == MaxStaged \in Nat /\ MaxOnce \in Nat

VARIABLES
  isDirected,    \* fixed by the constructor
  idMap,         \* vertex -> id
  reverseIdMap,  \* id -> vertex
  csr,           \* offsets, columnIndices and values
  edgeBuffer,    \* staged edges
  isFinalized,
  buildOnce      \* ghost: TRUE if the caller adds nothing after finalize(), as
                 \* the tests do; FALSE if it calls in any order

vars == <<isDirected, idMap, reverseIdMap, csr, edgeBuffer, isFinalized, buildOnce>>

Init ==
  /\ isDirected \in BOOLEAN
  /\ idMap = << >>
  /\ reverseIdMap = << >>
  /\ csr = NoArrays
  /\ edgeBuffer = << >>
  /\ isFinalized = FALSE
  /\ buildOnce \in BOOLEAN

Registry == [idMap |-> idMap, reverseIdMap |-> reverseIdMap]
GetOrRegisterVertex(reg, x) == Registered(reg, x)

MayAdd == buildOnce => csr = NoArrays

\* Mutant: the arrays built for fewer vertices stay in service.
AddVertexInService(x) ==
  LET reg == GetOrRegisterVertex(Registry, x)
  IN  /\ MayAdd
      /\ idMap' = reg.idMap
      /\ reverseIdMap' = reg.reverseIdMap
      /\ UNCHANGED <<isDirected, csr, edgeBuffer, isFinalized, buildOnce>>

AddVertex(x) ==
  LET reg == GetOrRegisterVertex(Registry, x)
  IN  /\ MayAdd
      /\ idMap' = reg.idMap
      /\ reverseIdMap' = reg.reverseIdMap
      /\ isFinalized' = FALSE
      /\ UNCHANGED <<isDirected, csr, edgeBuffer, buildOnce>>

\* The edges that addEdge stages.
Staged(i, j, w) ==
  LET forward == [src |-> i, dst |-> j, weight |-> w]
      reverse == [src |-> j, dst |-> i, weight |-> w]
  IN  IF isDirected \/ i = j THEN <<forward>> ELSE <<forward, reverse>>

AddEdge(u, v, w) ==
  LET reg == GetOrRegisterVertex(GetOrRegisterVertex(Registry, u), v)
      staged == Staged(reg.idMap[u], reg.idMap[v], w)
  IN  /\ MayAdd
      /\ Len(edgeBuffer) + Len(staged) <= IF buildOnce THEN MaxOnce ELSE MaxStaged
      /\ idMap' = reg.idMap
      /\ reverseIdMap' = reg.reverseIdMap
      /\ edgeBuffer' = edgeBuffer \o staged
      /\ isFinalized' = FALSE
      /\ UNCHANGED <<isDirected, csr, buildOnce>>

\* A second call in a row returns at once.
Finalize ==
  /\ IF isFinalized
       THEN UNCHANGED <<csr, edgeBuffer, isFinalized>>
       ELSE /\ csr' = BuildCSR(Len(reverseIdMap), edgeBuffer)
            /\ edgeBuffer' = << >>
            /\ isFinalized' = TRUE
  /\ UNCHANGED <<isDirected, idMap, reverseIdMap, buildOnce>>

Next ==
  \/ \E x \in VertexCalls : AddVertex(x)
  \/ \E c \in EdgeCalls : AddEdge(c[1], c[2], c[3])
  \/ Finalize

Spec == Init /\ [][Next]_vars

-----------------------------------------------------------------------------
(* Queries.                                                                *)

NumVertices == Len(reverseIdMap)
Ids == 1 .. NumVertices

\* The three overloads answer "no" or 0 while edges are staged.
HasEdge(i, j) == isFinalized /\ BinarySearch(Row(csr, i), j)

HasEdgeWithWeight(i, j, w) ==
  isFinalized /\ \E k \in DOMAIN Row(csr, i) : Row(csr, i)[k] = [dst |-> j, weight |-> w]

GetDegree(i) == IF isFinalized THEN csr.offsets[i] - csr.offsets[i - 1] ELSE 0

NumEdges ==
  LET rawEdges == IF isFinalized THEN Len(csr.cells) ELSE Len(edgeBuffer)
  IN  IF isDirected THEN rawEdges ELSE rawEdges \div 2

\* traverseEntireGraph and forEachNeighbor report the cells of every row.
Served == IF isFinalized THEN EdgesOf(NumVertices, csr) ELSE {}

-----------------------------------------------------------------------------
(* Properties.                                                             *)

\* Whenever the arrays are served they are the ones of all registered
\* vertices: no query indexes offsets or reverseIdMap out of bounds, although
\* vertices may have been registered since an earlier finalize().
ServedArraysFitVertices ==
  isFinalized =>
    /\ edgeBuffer = << >>
    /\ WellFormedArrays(NumVertices, csr)
    /\ \A k \in DOMAIN csr.cells : csr.cells[k].dst \in Ids

\* The binary search, the linear search with a weight, the degree and the
\* iteration agree on the edges of each vertex.  An undirected graph is served
\* symmetric, weights included, and numEdges counts its unordered pairs where
\* it has no loops.
QueriesAgree ==
  /\ \A i \in Ids :
       /\ \A j \in Ids :
            HasEdge(i, j) <=> \E e \in Served : HasEdgeWithWeight(i, j, e.weight)
       /\ GetDegree(i) = Cardinality({j \in Ids : HasEdge(i, j)})
  /\ isFinalized /\ ~isDirected =>
       /\ \A e \in Served : [src |-> e.dst, dst |-> e.src, weight |-> e.weight] \in Served
       /\ (\A e \in Served : e.src # e.dst) =>
             NumEdges = Cardinality({{e.src, e.dst} : e \in Served})

\* finalize() serves what was staged since the last one: of parallel edges the
\* lightest, and nothing else.  The counting sort, the row sort and the
\* removal of repetitions together amount to this set.
FinalizeServesStaged ==
  [][~isFinalized /\ isFinalized' =>
       Served' = LeastEdges(ToSet(edgeBuffer))]_vars

\* README.md:23-25 describes edges that are staged, then sorted, and from then
\* on looked up: an edge that was staged or served is found after finalize().
FinalizeKeepsEdges ==
  [][isFinalized' =>
       \A e \in ToSet(edgeBuffer)
                  \cup IF csr = NoArrays THEN {}
                       ELSE EdgesOf(Cardinality(DOMAIN csr.offsets) - 1, csr) :
          HasEdge(e.src, e.dst)']_vars

-----------------------------------------------------------------------------
(* What the structure promises to a caller who builds it once.             *)

EdgeSet == IF isFinalized THEN Served ELSE LeastEdges(ToSet(edgeBuffer))
EndsOf(e) == <<reverseIdMap[e.src], reverseIdMap[e.dst]>>

Contents ==
  [p \in {EndsOf(e) : e \in EdgeSet} |->
     (CHOOSE e \in EdgeSet : EndsOf(e) = p).weight]

Abstract == INSTANCE SimpleGraph
              WITH verts <- IF buildOnce THEN DOMAIN idMap ELSE {},
                   weightOf <- IF buildOnce THEN Contents ELSE << >>,
                   KeepLeast <- TRUE

\* To the caller who adds nothing after finalize() staging and the arrays are
\* invisible: the structure is a set of vertices and one weight per joined
\* pair, the least of its addEdge calls.
ImplementsSimpleGraph == Abstract!Spec
=============================================================================
