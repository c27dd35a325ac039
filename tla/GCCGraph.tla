------------------------------ MODULE GCCGraph ------------------------------
(***************************************************************************)
(* GCCGraph (include/graphs/GCCGraph.hpp): the registry of vertices, the   *)
(* per-vertex storage -- a list of small chunks that is promoted to a B+   *)
(* tree -- and the Global Traversal Chain through the nodes of all         *)
(* vertices.                                                               *)
(*                                                                         *)
(* The class is single-threaded.  A call of addEdge registers both ends    *)
(* and leaves the directed insertions still to do in `todo'; each step     *)
(* then runs one insertDirectedEdge, and the loop of promoteToBPlusTree is *)
(* one step per item, with the items not inserted yet in `bulk'.  No call  *)
(* starts before the previous one has returned.                            *)
(*                                                                         *)
(* Ids count from 1, so that an id indexes reverseIdMap and vertexTable.   *)
(***************************************************************************)
EXTENDS GCCNodes

CONSTANTS Vertex,       \* what VertexType ranges over
          Weight,       \* what WeightType ranges over
          EdgeCalls,    \* the calls <<u, v, weight>> made to addEdge
          VertexCalls,  \* the vertices passed to addVertex
          SmallChunkPromotionThreshold  \* chunks a vertex may have

ASSUME WeightAssumption == Weight \subseteq Nat
ASSUME CallsAssumption == /\ EdgeCalls \subseteq Vertex \X Vertex \X Weight
                          /\ VertexCalls \subseteq Vertex
ASSUME PromotionThresholdAssumption ==
          SmallChunkPromotionThreshold \in Nat /\ SmallChunkPromotionThreshold >= 1

VARIABLES
  isDirected,     \* fixed by the constructor
  idMap,          \* vertex -> id
  reverseIdMap,   \* id -> vertex
  vertexTable,    \* id -> VertexEntry
  gtHead,         \* where traverseEntireGraph starts
  gtChainDirty,   \* the chain must be rebuilt before it is walked
  todo,           \* insertDirectedEdge calls the running addEdge still makes
  bulk            \* items the running promoteToBPlusTree still inserts

vars == <<isDirected, idMap, reverseIdMap, vertexTable, gtHead, gtChainDirty,
          todo, bulk>>

registryVars == <<isDirected, idMap, reverseIdMap>>

-----------------------------------------------------------------------------
(* Data.                                                                   *)

Entry == [dst : Nat, weight : Weight]

\* A chain pointer always leads to the first node of some vertex; which
\* struct it was cast from is fixed when the pointer is made.
Pointer == [kind : {"Null", "Chunk", "Leaf"}, vertexIdx : Nat]
NullPointer == [kind |-> "Null", vertexIdx |-> 0]

\* gtNext is that of the last node: the traversal reads no other.
VertexEntry == [size : Nat, level : Nat, nodes : Seq(Seq(Entry)),
                gtNext : Pointer]
EmptyEntry == [size |-> 0, level |-> 0, nodes |-> << >>,
               gtNext |-> NullPointer]

DirectedInsert == [src : Nat, dst : Nat, weight : Weight]

Ids == DOMAIN vertexTable

-----------------------------------------------------------------------------
(* Registration.                                                           *)

\* getOrRegisterVertex acts on these four fields together.
Registry == [idMap |-> idMap, reverseIdMap |-> reverseIdMap,
             vertexTable |-> vertexTable, gtChainDirty |-> gtChainDirty]

\* Mutant: the id is read after the vertex was appended.
GetOrRegisterVertexAfterPush(reg, x) ==
  IF x \in DOMAIN reg.idMap THEN reg
  ELSE [idMap |-> [y \in DOMAIN reg.idMap \cup {x} |->
                     IF y = x THEN Len(reg.reverseIdMap) + 2 ELSE reg.idMap[y]],
        reverseIdMap |-> Append(reg.reverseIdMap, x),
        vertexTable |-> Append(reg.vertexTable, EmptyEntry),
        gtChainDirty |-> TRUE]

GetOrRegisterVertex(reg, x) ==
  IF x \in DOMAIN reg.idMap THEN reg
  ELSE LET id == Len(reg.reverseIdMap) + 1
       IN  [idMap |-> [y \in DOMAIN reg.idMap \cup {x} |->
                         IF y = x THEN id ELSE reg.idMap[y]],
            reverseIdMap |-> Append(reg.reverseIdMap, x),
            vertexTable |-> Append(reg.vertexTable, EmptyEntry),
            gtChainDirty |-> TRUE]

Adopt(reg) ==
  /\ idMap' = reg.idMap
  /\ reverseIdMap' = reg.reverseIdMap
  /\ vertexTable' = reg.vertexTable
  /\ gtChainDirty' = reg.gtChainDirty

-----------------------------------------------------------------------------
(* Calls.                                                                  *)

Init ==
  /\ isDirected \in BOOLEAN
  /\ idMap = << >>
  /\ reverseIdMap = << >>
  /\ vertexTable = << >>
  /\ gtHead = NullPointer
  /\ gtChainDirty = TRUE
  /\ todo = << >>
  /\ bulk = {}

AddVertex(x) ==
  /\ todo = << >>
  /\ Adopt(GetOrRegisterVertex(Registry, x))
  /\ UNCHANGED <<isDirected, gtHead, todo, bulk>>

\* Mutant: the direction back is forgotten.
InsertionsOneWay(i, j, w) == << [src |-> i, dst |-> j, weight |-> w] >>

\* The calls of insertDirectedEdge that addEdge makes.
Insertions(i, j, w) ==
  LET forward == [src |-> i, dst |-> j, weight |-> w]
      reverse == [src |-> j, dst |-> i, weight |-> w]
  IN  IF isDirected \/ i = j THEN <<forward>> ELSE <<forward, reverse>>

AddEdge(u, v, w) ==
  LET reg == GetOrRegisterVertex(GetOrRegisterVertex(Registry, u), v)
  IN  /\ todo = << >>
      /\ Adopt(reg)
      /\ todo' = Insertions(reg.idMap[u], reg.idMap[v], w)
      /\ UNCHANGED <<isDirected, gtHead, bulk>>

-----------------------------------------------------------------------------
(* insertDirectedEdge, for the insertion at the head of todo.              *)

Inserting == todo # << >> /\ bulk = {}
Insertion == Head(todo)
Source == vertexTable[Insertion.src]
NewEntry == [dst |-> Insertion.dst, weight |-> Insertion.weight]

\* Mutant: of several chunks only the last is searched.
HitsInTail(ve, d) ==
  LET n == IF ve.level = 0 THEN Len(ve.nodes) ELSE Route(ve.nodes, d)
  IN  IF n = 0 THEN {}
      ELSE {<<n, i>> : i \in {k \in DOMAIN ve.nodes[n] : ve.nodes[n][k].dst = d}}

\* The slots tryUpdateExisting compares equal to d: it scans every chunk, or
\* the one leaf the descent reaches.
Hits(ve, d) ==
  LET scanned == IF ve.level = 0 THEN DOMAIN ve.nodes ELSE {Route(ve.nodes, d)}
  IN  UNION {{<<n, i>> : i \in {k \in DOMAIN ve.nodes[n] :
                                  ve.nodes[n][k].dst = d}} : n \in scanned}

FirstOf(slots, p) ==
  /\ p \in slots
  /\ \A q \in slots : p[1] < q[1] \/ (p[1] = q[1] /\ p[2] <= q[2])

\* The weight is overwritten in place; the chain keeps its shape.
UpdateExisting ==
  /\ Inserting
  /\ \E p \in Hits(Source, Insertion.dst) :
       /\ FirstOf(Hits(Source, Insertion.dst), p)
       /\ vertexTable' = [vertexTable EXCEPT ![Insertion.src].nodes[p[1]][p[2]]
                                                = NewEntry]
  /\ todo' = Tail(todo)
  /\ UNCHANGED <<registryVars, gtHead, gtChainDirty, bulk>>

InsertsNew == Inserting /\ Hits(Source, Insertion.dst) = {}

NumChunks == Len(Source.nodes)
TailHasRoom == NumChunks > 0 /\ ~Full(Source.nodes[NumChunks])

\* Mutant: the chain is not marked.
InsertReturnsUnmarked ==
  /\ UNCHANGED gtChainDirty
  /\ todo' = Tail(todo)

\* The last two assignments of the branches below.
InsertReturns ==
  /\ gtChainDirty' = TRUE
  /\ todo' = Tail(todo)

InsertIntoTailChunk ==
  /\ InsertsNew
  /\ Source.level = 0
  /\ TailHasRoom
  /\ vertexTable' = [vertexTable EXCEPT
       ![Insertion.src].nodes[NumChunks] = InsertSorted(@, NewEntry),
       ![Insertion.src].size = @ + 1]
  /\ InsertReturns
  /\ UNCHANGED <<registryVars, gtHead, bulk>>

InsertIntoNewChunk ==
  /\ InsertsNew
  /\ Source.level = 0
  /\ ~TailHasRoom
  /\ NumChunks < SmallChunkPromotionThreshold
  /\ vertexTable' = [vertexTable EXCEPT
       ![Insertion.src].nodes = Append(@, <<NewEntry>>),
       ![Insertion.src].size = @ + 1,
       ![Insertion.src].gtNext = NullPointer]
  /\ InsertReturns
  /\ UNCHANGED <<registryVars, gtHead, bulk>>

\* std::unique on the items sorted by (key, weight): the first of each key.
LeastPerKey(items) ==
  {e \in items : \A f \in items : f.dst = e.dst => e.weight <= f.weight}

\* promoteToBPlusTree up to its loop: the chunks are deleted, their entries
\* and the new one are collected, and the tree is one empty leaf.
PromoteToBPlusTree ==
  /\ InsertsNew
  /\ Source.level = 0
  /\ ~TailHasRoom
  /\ NumChunks >= SmallChunkPromotionThreshold
  /\ bulk' = LeastPerKey(AllEntries(Source.nodes) \cup {NewEntry})
  /\ vertexTable' = [vertexTable EXCEPT
       ![Insertion.src] = [size |-> 0, level |-> 1, nodes |-> << << >> >>,
                           gtNext |-> NullPointer]]
  /\ UNCHANGED <<registryVars, gtHead, gtChainDirty, todo>>

\* bplusInsert: every leaf split counts as one level.  A split of the last
\* leaf makes the new leaf the last one, and its gtNext is null.
BPlusInsert(ve, e) ==
  LET r == Route(ve.nodes, e.dst)
      split == Splits(ve.nodes[r])
  IN  [size |-> ve.size + 1,
       level |-> IF split THEN ve.level + 1 ELSE ve.level,
       nodes |-> InsertIntoLeaf(ve.nodes, r, e),
       gtNext |-> IF split /\ r = Len(ve.nodes) THEN NullPointer
                  ELSE ve.gtNext]

\* One turn of the loop of promoteToBPlusTree, which takes the items in
\* ascending order; after the last one insertDirectedEdge returns.
InsertPromotedItem ==
  \E e \in bulk :
     /\ \A f \in bulk : e.dst <= f.dst
     /\ bulk' = bulk \ {e}
     /\ vertexTable' = [vertexTable EXCEPT
                          ![Insertion.src] = BPlusInsert(@, e)]
     /\ IF bulk' = {} THEN InsertReturns ELSE UNCHANGED <<gtChainDirty, todo>>
     /\ UNCHANGED <<registryVars, gtHead>>

InsertIntoTree ==
  /\ InsertsNew
  /\ Source.level > 0
  /\ vertexTable' = [vertexTable EXCEPT
                       ![Insertion.src] = BPlusInsert(@, NewEntry)]
  /\ InsertReturns
  /\ UNCHANGED <<registryVars, gtHead, bulk>>

InsertDirectedEdge ==
  \/ UpdateExisting
  \/ InsertIntoTailChunk
  \/ InsertIntoNewChunk
  \/ PromoteToBPlusTree
  \/ InsertPromotedItem
  \/ InsertIntoTree

-----------------------------------------------------------------------------
(* The Global Traversal Chain.                                             *)

Occupied(table) == {i \in DOMAIN table : table[i].size # 0}

HeadNode(table, i) ==
  [kind |-> IF table[i].level = 0 THEN "Chunk" ELSE "Leaf", vertexIdx |-> i]

\* Mutant: vertices without edges are linked in as well.
ChainAfterAnyVertex(table, i) ==
  IF i < Len(table) THEN HeadNode(table, i + 1) ELSE NullPointer

\* The head node of the first occupied vertex after i.
ChainAfter(table, i) ==
  LET later == {j \in Occupied(table) : j > i}
  IN  IF later = {} THEN NullPointer
      ELSE HeadNode(table, CHOOSE j \in later : \A k \in later : j <= k)

\* traverseEntireGraph rebuilds a dirty chain before it walks it; the walk
\* changes nothing, so on a clean chain the call is no step.
TraverseEntireGraph ==
  /\ todo = << >>
  /\ gtChainDirty
  /\ gtHead' = ChainAfter(vertexTable, 0)
  /\ vertexTable' = [i \in Ids |->
       IF i \in Occupied(vertexTable)
         THEN [vertexTable[i] EXCEPT !.gtNext = ChainAfter(vertexTable, i)]
         ELSE vertexTable[i]]
  /\ gtChainDirty' = FALSE
  /\ UNCHANGED <<registryVars, todo, bulk>>

Next ==
  \/ \E x \in VertexCalls : AddVertex(x)
  \/ \E c \in EdgeCalls : AddEdge(c[1], c[2], c[3])
  \/ InsertDirectedEdge
  \/ TraverseEntireGraph

Spec == Init /\ [][Next]_vars

-----------------------------------------------------------------------------
(* Queries.                                                                *)

\* findEdgeWeight: the weights a search for d in the nodes of ve returns, at
\* most one: each chunk in turn, or the leaf the descent reaches.
FindEdgeWeight(ve, d) ==
  LET scanned == IF ve.level = 0 THEN DOMAIN ve.nodes ELSE {Route(ve.nodes, d)}
      found == {n \in scanned : Find(ve.nodes[n], d) # 0}
      first == CHOOSE n \in found : \A m \in found : n <= m
  IN  IF found = {} THEN {}
      ELSE {ve.nodes[first][Find(ve.nodes[first], d)].weight}

\* The pointers traverseEntireGraph follows, one for each vertex whose nodes it
\* visits, up to the first null pointer.  at[k] is the pointer after k of them;
\* the walk is cut off after one pointer more than there are ids.
ChainWalk ==
  LET at[k \in 0 .. Len(vertexTable)] ==
        IF k = 0 THEN gtHead
        ELSE LET p == at[k - 1]
             IN  IF p.kind = "Null" THEN NullPointer
                 ELSE vertexTable[p.vertexIdx].gtNext
      ends == {k \in DOMAIN at : at[k].kind = "Null"}
      length == IF ends = {} THEN Len(vertexTable) + 1
                ELSE CHOOSE k \in ends : \A l \in ends : k <= l
  IN  [k \in 1 .. length |-> at[k - 1]]

-----------------------------------------------------------------------------
(* Properties.                                                             *)

\* Every id kept anywhere in the structure -- in a node, a chain pointer or a
\* pending insertion -- is the id of a registered vertex, and idMap and
\* reverseIdMap are inverse to each other.
TypeOK ==
  /\ isDirected \in BOOLEAN
  /\ reverseIdMap \in Seq(Vertex)
  /\ DOMAIN idMap = RangeOf(reverseIdMap)
  /\ \A i \in DOMAIN reverseIdMap : idMap[reverseIdMap[i]] = i
  /\ vertexTable \in Seq(VertexEntry)
  /\ Len(vertexTable) = Len(reverseIdMap)
  /\ \A i \in Ids : AllKeys(vertexTable[i].nodes) \subseteq Ids
  /\ gtHead \in Pointer
  /\ gtChainDirty \in BOOLEAN
  /\ todo \in Seq(DirectedInsert)
  /\ Len(todo) <= 2
  /\ \A k \in DOMAIN todo : todo[k].src \in Ids /\ todo[k].dst \in Ids
  /\ bulk \subseteq Entry
  /\ \A e \in bulk : e.dst \in Ids
  /\ bulk # {} => todo # << >> /\ Source.level > 0

\* A chain that is not marked dirty leads from gtHead through the nodes of
\* every vertex with edges, in order of id, whatever insertions, in-place
\* updates, promotions and registrations came after the last rebuild.  In
\* particular no link of it leads to a deleted chunk: a link to a promoted
\* vertex is a link to its first leaf.
CleanChain ==
  bulk = {} /\ ~gtChainDirty =>
    /\ gtHead = ChainAfter(vertexTable, 0)
    /\ \A i \in Occupied(vertexTable) :
          vertexTable[i].gtNext = ChainAfter(vertexTable, i)

\* The walk of traverseEntireGraph on a clean chain ends, enters the nodes of
\* a vertex only at its first node, and visits each vertex that has edges
\* once and no other.
TraversalVisitsAll ==
  bulk = {} /\ ~gtChainDirty =>
    LET walk == ChainWalk
    IN  /\ Len(walk) = Cardinality(Occupied(vertexTable))
        /\ {p.vertexIdx : p \in RangeOf(walk)} = Occupied(vertexTable)
        /\ \A k \in DOMAIN walk :
              walk[k] = HeadNode(vertexTable, walk[k].vertexIdx)

\* hasEdge, which searches by halving in each chunk or in one leaf, finds
\* exactly the edges that forEachNeighbor reports by walking all the nodes,
\* with the same weight; this holds in every representation a vertex goes
\* through.
LookupFindsWhatIterationReports ==
  \A i \in Ids, d \in Ids :
     FindEdgeWeight(vertexTable[i], d) =
        {e.weight : e \in {f \in AllEntries(vertexTable[i].nodes) : f.dst = d}}

\* getDegree is the number of distinct neighbours, and no neighbour is stored
\* twice: an edge is only inserted where the search found none.
SizeCountsNeighbours ==
  \A i \in Ids :
     LET ve == vertexTable[i]
         slots == UNION {{<<n, k>> : k \in DOMAIN ve.nodes[n]} :
                           n \in DOMAIN ve.nodes}
     IN  /\ ve.size = Cardinality(AllKeys(ve.nodes))
         /\ ve.size = Cardinality(slots)

\* Chunks are filled one after the other and hold ascending keys; leaves hold
\* fewer than BPlusTreeOrder keys, ascending along the whole chain of leaves;
\* level counts the leaves.
NodesWellFormed ==
  \A i \in Ids :
     LET ve == vertexTable[i]
         nodes == ve.nodes
     IN  IF ve.level = 0
           THEN /\ Len(nodes) <= SmallChunkPromotionThreshold
                /\ \A n \in DOMAIN nodes :
                      /\ Ascending(nodes[n])
                      /\ Len(nodes[n]) \in 1 .. SmallChunkCapacity
                      /\ n < Len(nodes) => Full(nodes[n])
           ELSE /\ ve.level = Len(nodes)
                /\ AscendingChain(nodes)
                /\ \A n \in DOMAIN nodes :
                      /\ Len(nodes[n]) < BPlusTreeOrder
                      /\ Len(nodes) > 1 => nodes[n] # << >>

\* A vertex is in a tree exactly when it has more neighbours than its chunks
\* could hold; getVertexLevel is positive for no other vertex.
PromotedWhenChunksAreFull ==
  bulk = {} => \A i \in Ids :
     vertexTable[i].level > 0 <=>
        vertexTable[i].size > SmallChunkCapacity * SmallChunkPromotionThreshold

-----------------------------------------------------------------------------
(* What the structure promises.                                            *)

\* The edges, the pending ones of the running call taking effect at its start.
PendingBulk == {[src |-> Insertion.src, dst |-> e.dst, weight |-> e.weight] :
                   e \in bulk}
Pending == IF bulk = {} THEN RangeOf(todo) ELSE PendingBulk \cup RangeOf(Tail(todo))
Stored ==
  UNION {{[src |-> i, dst |-> e.dst, weight |-> e.weight] :
            e \in AllEntries(vertexTable[i].nodes)} : i \in Ids}

EdgeSet ==
  Pending \cup {e \in Stored :
                  ~ \E p \in Pending : p.src = e.src /\ p.dst = e.dst}

EndsOf(e) == <<reverseIdMap[e.src], reverseIdMap[e.dst]>>

Contents ==
  [p \in {EndsOf(e) : e \in EdgeSet} |->
     (CHOOSE e \in EdgeSet : EndsOf(e) = p).weight]

Abstract == INSTANCE SimpleGraph
              WITH verts <- DOMAIN idMap,
                   weightOf <- Contents,
                   KeepLeast <- FALSE

\* Chunks, trees, promotion and the chain are invisible: the structure is a
\* set of vertices and one weight per joined pair, that of the last addEdge;
\* of an undirected graph the same in both directions, although each of them
\* is stored, updated and promoted on its own.
ImplementsSimpleGraph == Abstract!Spec
=============================================================================
