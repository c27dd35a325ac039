---------------------------- MODULE Conversions ----------------------------
(***************************************************************************)
(* A RawGraph and what is constructed from it: a DynamicCSRGraph, which may *)
(* be extended, and a StaticCSRGraph, from the RawGraph or from the dynamic *)
(* graph.  A dynamic or static graph may also start empty.                  *)
(***************************************************************************)
EXTENDS RawGraph

VARIABLES
  stage,   \* which structure the caller works with: "raw", "dynamic", "static"
  graph,   \* the dynamic or the static graph
  thrown   \* a call of the static graph threw

convertedVars == <<stage, graph, thrown>>
rawVars == <<isDirected, idMap, reverseIdMap, edgeList>>

Dynamic == INSTANCE DynamicCSRGraph
Static == INSTANCE StaticCSRGraph
Virtual == INSTANCE VirtualCSRGraph

RawValue == [isDirected |-> isDirected, idMap |-> idMap,
             reverseIdMap |-> reverseIdMap, edgeList |-> edgeList]

NoGraph == [stage |-> "raw"]

InitConversions ==
  /\ Init
  /\ thrown = FALSE
  /\ \/ stage = "raw" /\ graph = NoGraph
     \/ stage = "dynamic" /\ graph = Dynamic!Empty(isDirected)
     \/ stage = "static" /\ graph = Static!Empty(isDirected)

BuildRaw ==
  /\ stage = "raw"
  /\ Next
  /\ UNCHANGED convertedVars

\* Construction reads the RawGraph and leaves it alone, moved or not.
ConstructDynamic ==
  /\ stage = "raw"
  /\ stage' = "dynamic"
  /\ graph' = Dynamic!FromRaw(RawValue)
  /\ UNCHANGED <<rawVars, thrown>>

ConstructStatic ==
  /\ stage = "raw"
  /\ stage' = "static"
  /\ graph' = Static!FromRaw(RawValue)
  /\ UNCHANGED <<rawVars, thrown>>

AddVertexDynamic(x) ==
  /\ stage = "dynamic"
  /\ graph' = Dynamic!AddVertex(graph, x)
  /\ UNCHANGED <<rawVars, stage, thrown>>

AddEdgeDynamic(u, v, w) ==
  /\ stage = "dynamic"
  /\ Len(graph.edgeBuffer) + (IF graph.isDirected THEN 1 ELSE 2) <= MaxEntries
  /\ graph' = Dynamic!AddEdge(graph, u, v, w)
  /\ UNCHANGED <<rawVars, stage, thrown>>

\* By copy or by move: the caller goes on with the static graph.
Freeze ==
  /\ stage = "dynamic"
  /\ stage' = "static"
  /\ graph' = Static!FromDynamic(graph)
  /\ UNCHANGED <<rawVars, thrown>>

\* addVertex, addEdge and addEdgeDynamic of a static graph.
MutateStatic ==
  /\ stage = "static"
  /\ thrown' = TRUE
  /\ UNCHANGED <<rawVars, stage, graph>>

NextConversions ==
  \/ BuildRaw
  \/ ConstructDynamic
  \/ ConstructStatic
  \/ \E x \in VertexCalls : AddVertexDynamic(x)
  \/ \E c \in EdgeCalls : AddEdgeDynamic(c[1], c[2], c[3])
  \/ Freeze
  \/ MutateStatic

SpecConversions == InitConversions /\ [][NextConversions]_<<rawVars, convertedVars>>

-----------------------------------------------------------------------------
(* Properties.                                                             *)

RawEdges ==
  {[src |-> reverseIdMap[e.src], dst |-> reverseIdMap[e.dst], weight |-> e.weight] :
     e \in ToSet(edgeList)}

\* The weight of every joined pair in a set of edges, the least of each pair.
Weights(edges) ==
  LET least == Dynamic!LeastEdges(edges)
  IN  [p \in {<<e.src, e.dst>> : e \in least} |->
         (CHOOSE e \in least : <<e.src, e.dst>> = p).weight]

Abstract == INSTANCE SimpleGraph
              WITH isDirected <- IF stage = "raw" THEN isDirected ELSE graph.isDirected,
                   verts <- IF stage = "raw" THEN DOMAIN idMap ELSE DOMAIN graph.idMap,
                   weightOf <- Weights(CASE stage = "raw" -> RawEdges
                                         [] stage = "dynamic" -> Dynamic!Traversal(graph)
                                         [] stage = "static" -> Static!Traversal(graph)),
                   KeepLeast <- TRUE

\* From the first call on the RawGraph to the last on the static graph the
\* caller has one graph: constructing a structure from another keeps the
\* vertices, isolated ones included, and of parallel edges the least weight;
\* rebuilding after every insertion keeps it so; a refused mutation changes
\* nothing.  Only the direction may be lost.
ConversionsKeepContents == Abstract!ConvertibleSpec

\* The answers of a compressed graph about any two vertices, registered or
\* not, are those of the RawGraph, but that it keeps one edge per pair.
AnswersAsRaw(g, hasEdge(_, _, _), hasEdgeWithWeight(_, _, _, _), getDegree(_, _)) ==
  \A u \in Vertex :
    /\ getDegree(g, u) = Cardinality({v \in Vertex : HasEdge(u, v)})
    /\ \A v \in Vertex :
         /\ hasEdge(g, u, v) <=> HasEdge(u, v)
         /\ \A w \in {e.weight : e \in RawEdges} :
              hasEdgeWithWeight(g, u, v, w) <=>
                [src |-> u, dst |-> v, weight |-> w] \in Dynamic!LeastEdges(RawEdges)

\* Whatever is constructed from a RawGraph, on whichever way, answers as the
\* RawGraph does: the compressed graphs by binary search over rows they sorted
\* themselves, NaiveGraph with the same lists of neighbours in the same order.
\* numEdges is that of the RawGraph, parallel edges aside, if it is directed.
ConstructedAnswerAlike ==
  stage = "raw" =>
    LET dynamic == Dynamic!FromRaw(RawValue)
        frozen == Static!FromDynamic(dynamic)
        static == Static!FromRaw(RawValue)
        virtual == Virtual!FromRaw(RawValue)
    IN  /\ AnswersAsRaw(dynamic, Dynamic!HasEdge, Dynamic!HasEdgeWithWeight, Dynamic!GetDegree)
        /\ AnswersAsRaw(frozen, Static!HasEdge, Static!HasEdgeWithWeight, Static!GetDegree)
        /\ AnswersAsRaw(static, Static!HasEdge, Static!HasEdgeWithWeight, Static!GetDegree)
        /\ AnswersAsRaw(virtual, Virtual!HasEdge, Virtual!HasEdgeWithWeight, Virtual!GetDegree)
        /\ Virtual!Traversal(virtual) = Static!Traversal(static)
        /\ Reference!FromRaw(RawValue) = [x \in DOMAIN idMap |-> Reported(x)]
        /\ Cardinality({<<e.src, e.dst>> : e \in RawEdges}) = Len(edgeList) =>
             /\ Virtual!NumEdges(virtual) = NumEdges
             /\ isDirected => Static!NumEdges(static) = NumEdges
                              /\ Dynamic!NumEdges(dynamic) = NumEdges

\* README.md:10-13 has the layout be the only thing that changes between the
\* structures: a graph without loops and parallel edges has as many edges after
\* it was constructed from a RawGraph as it had there.
ConversionKeepsNumEdges ==
  /\ stage = "raw"
  /\ Cardinality({{e.src, e.dst} : e \in ToSet(edgeList)}) = NumEdges
  /\ \A e \in ToSet(edgeList) : e.src # e.dst
  => Static!NumEdges(Static!FromRaw(RawValue)) = NumEdges
=============================================================================
