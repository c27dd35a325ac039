# GraphProject in TLA+

A specification of the graph storage structures of GraphProject and of the
searches they share, checked with TLC on small instances and, for part of it,
proved with TLAPS for every value of the parameters. Line numbers are those of
`src/include/graphs/`.

## 1. Inventory of the code

GraphProject is a header-only, single-threaded C++20 library: six storage
structures behind one compile-time interface (`Concepts.hpp`), three searches
inherited by all of them (`BaseGraph.hpp`), virtual copies of two structures
that exist for timing, generators of random edge lists, benchmarks and tests.
There is no I/O, no thread and no persistence: what is hard is sequences of
calls, the limits of fixed arrays, and pointers and flags that must be kept
current across calls.

| component | state | operations | what makes it correct |
|---|---|---|---|
| GCCGraph (storage) | registry `idMap`/`reverseIdMap`, `vertexTable` (level, size, chunks or leaves), `gtHead`, `gtChainDirty` | `addVertex`, `addEdge` (one or two `insertDirectedEdge`), promotion, `traverseEntireGraph` with the lazy rebuild of the chain, lookups, iteration | one weight per edge, in every representation; the chain is current unless it is marked dirty; both directions of an undirected edge agree |
| GCCGraph (B+ tree) | nodes with keys, children, `parent`, `next`; root, first leaf | descend, update, insert, split upwards, grow | the chain of leaves is the frontier of the tree; a descent ends in the one leaf that may hold the key; each loop ends |
| CSRGraph | registry, `edgeBuffer`, `offsets`/`columnIndices`/`values`, `isFinalized` | `addVertex`, `addEdge`, `finalize`, lookups | served arrays fit the vertices and hold exactly the staged edges, least weight of parallel ones |
| BaseGraph searches | visited set, queue / stack / priority queue, distances | `bfs`, `dfs`, `dijkstra` | each reachable vertex once and in the right order; shortest distances; `dijkstra` throws on negative edges; they return |
| NaiveGraph | map vertex to list of neighbours | `addVertex`, `addEdge`, queries, from RawGraph | the reference for RawGraph and CBListGraph |
| RawGraph | registry, one edge list | the same | lists per vertex as in NaiveGraph |
| CBListGraph, ChunkArena | registry, heads, chained chunks in an arena, `num_edges_` | the same | lists per vertex as in NaiveGraph; chunks filled in order |
| DynamicCSRGraph | as CSRGraph, but the buffer is kept and rebuilt from on each insertion | `addVertex`, `addEdge`, from RawGraph | always current |
| StaticCSRGraph | registry and arrays | built from RawGraph or DynamicCSRGraph (copied or moved); mutation throws | same edges as its source |
| vgraphs | as RawGraph and StaticCSRGraph, virtual | the same | same answers as the CRTP versions |
| GraphGenerator | the random engine | five edge-list generators: uniform, strict, R-MAT, grid, pointer-chasing chain | edges within the graph asked for, no duplicates in the strict one, one cycle, a mesh, termination |
| benchmarks, `data/`, tests, results | none | timing, plots, tests | out of scope |

How they interact: the searches call `hasVertex` and `forEachNeighbor` of the
structure they are inherited by, and the callback of the caller; the
constructors of NaiveGraph, CBListGraph, DynamicCSRGraph and StaticCSRGraph
consume a RawGraph; StaticCSRGraph also consumes a DynamicCSRGraph. The
structures share nothing at run time.

The hazards this code is exposed to are listed in `PROJECT.json`, each at its
line, with the properties that would catch it. The main ones: chunks deleted by
a promotion while the traversal chain still names them; a split that leaves
`gtNext` on the wrong node; parent pointers after an inner split; separators
and `upper_bound`; entries lost in a promotion; two directions of an edge
taking different paths; `finalize()` after `finalize()`; a vertex registered
after `finalize()`; chunk boundaries; vertices several times on the stack;
stale pairs in the priority queue; sums that wrap; direction and counters lost
in a conversion; an index that is stale after an insertion; a row of a grid that
runs into the next; a generator that draws for ever.

## 2. Modules

    GCCNodes ----- GCCGraph ------ implements ---> SimpleGraph
        |  \                                        ^     ^
        |   LeafChain <--- implements --- BPlusTree |     |
        |                                           |     |
    VertexRegistry, CSRArrays ----- CSRGraph -------+     |
        |      \                    (as built once)       |
        |       DynamicCSRGraph, StaticCSRGraph,          |
        |       VirtualCSRGraph                           |
        |              \                                  |
        +-- RawGraph -- Conversions ----------------------+
                |                    (as one graph, whose direction may be lost)
                +--- implements ---> NaiveGraph <--- implements --- CBListGraph

    SearchedGraph --- Traversals, Dijkstra

    GraphGenerator

- **SimpleGraph** is the abstract promise: a set of vertices and one weight
  per joined pair. The constant `KeepLeast` says which weight a parallel edge
  leaves: the last (GCCGraph, in-place update) or the least (CSR, sort and
  unique).
- **GCCNodes** has what chunks and leaves do with ascending entries: `Full`,
  `InsertSorted`, `Find`, `Route` (the leaf a descent by `upper_bound` ends in),
  the split of a leaf. It is pure and shared by GCCGraph, LeafChain and
  BPlusTree.
- **GCCGraph** is the class. Ids count from 1. The nodes of a vertex are a
  sequence of sequences of entries: its chunks at level 0, its leaves
  otherwise. `addEdge` registers both ends and leaves its directed insertions
  in `todo`, one step each; the loop of `promoteToBPlusTree` is one step per
  item, in ascending order, with the remaining items in `bulk`. Every path of
  `insertDirectedEdge` is an action: `UpdateExisting`, `InsertIntoTailChunk`,
  `InsertIntoNewChunk`, `PromoteToBPlusTree`, `InsertPromotedItem`,
  `InsertIntoTree`. A chain pointer is a vertex and its head node, or null, and
  `ChainAfter` is the rebuild of the chain. In GCCGraph a tree is its chain of
  leaves; that the tree behaves as this chain is shown by BPlusTree.
- **LeafChain** is that chain alone, as a state machine with the operations
  insert and update.
- **BPlusTree** is the tree in a heap of nodes, one step per turn of each loop
  (`Descend`, `InsertInLeaf`, `InsertInParent`, `GrowRoot`, `NextItem`).
  `ImplementsLeafChain` maps it to LeafChain by the sequence of leaves that
  `next` threads.
- **VertexRegistry** is `getOrRegisterVertex` of the CSR structures and
  RawGraph: ids in the order of first mention, `idMap` and `reverseIdMap`.
- **CSRArrays / CSRGraph**: `BuildCSR` is `finalize()` with its counting sort,
  the sort of the rows and the removal of repetitions, row by row as the code
  does them; of std::sort only the result is modelled, each cell at the place
  that the number of cells before it gives (`SortedPlace`).
  CSRGraph has one action per public operation; the ghost variable `buildOnce`
  marks the callers that add nothing after `finalize()`, for whom it promises
  more.
- **DynamicCSRGraph, StaticCSRGraph, VirtualCSRGraph**: a graph is the record of
  its fields, an operation or a constructor a function of it, so that several
  graphs exist side by side. They differ where the code does: the dynamic one
  rebuilds after each insertion from a buffer it keeps, the static one takes
  over arrays, the virtual one keeps the direction and takes the registry as it
  is.
- **Conversions** composes them with RawGraph: the caller fills a RawGraph,
  constructs a dynamic or static graph from it (or starts with an empty one),
  extends the dynamic one, freezes it by copy or by move, and calls the
  mutations of the static one, which throw.
- **SearchedGraph** has a graph as a search sees it: the list that
  `forEachNeighbor` reports for each vertex. **Traversals** (`bfs` and `dfs`,
  the specifications `BFS` and `DFS` over the same variables) and **Dijkstra**
  make one step per vertex taken from the container and one per neighbour
  reported, so that every state within the lambda exists. The calls to the
  caller's callback are the sequence `visits`.
- **NaiveGraph, RawGraph, CBListGraph**: the three list-like structures; the
  first is the specification of the other two. NaiveGraph and CBListGraph start
  empty or from a RawGraph (`FromRaw`).
- **GraphGenerator** runs one of the five functions: one step per draw that is
  kept, per bit of an R-MAT edge, per cell of the grid, per link of the chain.
  What the random engine returns is a choice; a draw that is rejected changes
  nothing and is no step.
- **MC\*** modules and configurations give the small instances.
- **\*_proofs** hold theorems and their lemmas.

`map` in `PROJECT.json` names the lines of every definition. Each module also
holds a few definitions named for a mistake (`SplitsLate`, `RouteLeft`,
`FinalizeServesStaged`'s `CellLessById`, ...): plausible wrong versions of the
definition that follows them, listed under `mutants`. They are used in no
specification; with one of them in place of the right definition the property
listed with it fails.

## 3. What is checked

No run replaces a definition; constants are below. "States" are distinct
states.

| run | question | instance | states |
|---|---|---|---|
| `gcc_graph` | does GCCGraph implement a map from edges to last weights, with sizes, lookups and chain right throughout? | hub with four targets, a loop of two weights and another vertex; chunks of 2, at most 2 chunks, order 3; directed and undirected; any order of calls, repeated | 73,697 |
| `gcc_tree` | does the B+ tree implement the chain of leaves and keep what the chain promises, and does every call end? | order 3, keys 1..8, any five promoted, the others in any order, one overwritten | 21,772 |
| `csr_graph` | are the served arrays right after any sequence of staging and finalizing, and is a graph built once a map from edges to least weights? | three vertices, parallel edges, loop, four staged edges at most, five if built once | 189,196 |
| `csr_refinalize` | *violated*: does `finalize()` keep what it served? | as `csr_graph` | |
| `bfs` | each reachable vertex once, by hops | all graphs on 4 vertices with up to 2 neighbours each, or 4 with a repetition, from a vertex and from one that is not there | 203,808 |
| `dfs` | each reachable vertex once, depth first; returns | all graphs on 4 vertices with up to 2 neighbours each, in either order, or 4 with a repetition | 1,167,612 |
| `dijkstra` | shortest distances, throwing, settled vertices, returning | 3 vertices, weights 0, 1, 3 and -1, parallel edges, sums beyond the largest weight | 252,416 |
| `conversions` | does RawGraph keep the lists of the reference; does all that is built from it answer as it does; is it one graph from the first call on the RawGraph to the last on the static one? | three vertices, parallel edges, loop, an isolated vertex, five entries | 128,229 |
| `conversion_count` | *violated*: does a conversion keep `numEdges`? | as `conversions`, four entries | |
| `cblist` | same lists and count as the reference, chunks filled, empty or from a RawGraph | chunks of 2, five edges, two RawGraphs | 9,726 |
| `generators` | are the edge lists legal, the chain one cycle, the grid a mesh, and do they return? | 1 to 5 vertices; strict up to one edge more than there are pairs; R-MAT below and at a power of two; grids of one row, one column and 3 x 4 | 7,246 |

Why the bounds are enough. Chunk capacity, promotion threshold and tree order
are parameters; 2, 2 and 3 are the least with which a chunk has a middle, a
vertex has a chunk that is not its last, and a split leaves both halves
populated. With them the hub goes through both chunks, promotion, and splits of
leaves after it, with the keys of new neighbours falling before, between and
after those it has. In `gcc_tree` eight keys at order 3 split inner nodes and
make the root grow more than once. Chunks of 2 instead of 14 give a CBListGraph
vertex three chunks. Three vertices give the CSR rows that are empty, first,
middle and last. For `dfs` four vertices allow a vertex to be on the stack
several times at different depths; the priority queue of `dijkstra` needs three
for a detour that beats a direct edge and leaves a stale pair. Five
entries give the RawGraph three parallel entries of a pair beside a loop, and
the dynamic graph built from it room to grow. The generators' cases lie at their
ends: one vertex, where a loop cannot be avoided; a number of vertices that is
no power of two, where bits beyond it wrap; the ends of rows and columns; all
pairs and one more. The counters
that the code does not bound are bounded by `MaxStaged`, `MaxOnce`,
`MaxEntries` and `MaxEdges` in the guards; GCCGraph needs none, its states are
finite. Numbers of vertices stay far below the width of the generators'
integers.

Symmetry (`gcc_graph`) permutes the targets that differ in nothing. The runs of
the searches and of the generators do not check deadlock because a search or a
generator returns and stops; in all others every call can be followed by
another, and deadlock is checked.

### Properties

*GCCGraph.* `CleanChain` and `TraversalVisitsAll` say the chain is right
whenever it is not marked dirty and that its walk meets every vertex that has
edges, once. `LookupFindsWhatIterationReports` relates the halving search and
the descent to the walk over all nodes. `SizeCountsNeighbours` relates the
counter to the distinct neighbours and to the occupied slots.
`NodesWellFormed` bounds nodes and orders their keys; `PromotedWhenChunksAreFull` says
which representation a vertex has. `ImplementsSimpleGraph` counts a pending
insertion as done from the start of its call, so that every step after the first
is invisible; it says that both directions of an undirected edge agree, too.

*B+ tree.* `Balanced`, `ParentsAndChildrenAgree`, `ChainIsFrontier`,
`DescentFollowsRoute` between calls; throughout, `ImplementsLeafChain` and what the
chain promises: `LeavesOrdered`, `RouteFindsKeys`, `CountsMatch`;
`EveryCallReturns`, a promotion among the calls, under fairness.

*CSR.* `ServedArraysFitVertices` and `QueriesAgree` about the arrays in service;
`FinalizeServesStaged` about the step of `finalize()`; `ImplementsSimpleGraph`
for graphs built once.

*Conversions.* `ConstructedAnswerAlike` compares, for every RawGraph, the answers
of all structures that could be constructed from it now, by either way into a
static graph. `ConversionsKeepContents` is SimpleGraph again, with the one
freedom that a step may turn an undirected graph into the directed graph with
the same edges. `ImplementsNaiveGraph` for RawGraph and CBListGraph says the
lists agree entry by entry; `ChainsAreFilled` that no chunk but the last has
room; `NumEdgesAsReference` that the counter is the reference's but for loops of
undirected graphs.

*Generators.* `EdgesAreLegal` in every state; `ChainIsOneCycle` (no part of the
vertices is closed, so it is not several cycles) and `GridIsMesh` when they
return; `Returns` also says that the strict generator does *not* return when
asked for more edges than there are pairs.

*Searches.* `VisitsReachableOnce`, `InOrderOfHops`, `DepthFirstOrder`;
`DistancesAreShortest` (where no sum exceeds the largest weight),
`ThrowsOnNegativeEdge` (if and only if an edge that can be reached is
negative), `SettledStaysFinal`, `Returns`.

### Fairness

`FairSpec` of BPlusTree is weak fairness of the steps of a running call (not of
the start of calls); that of `dfs` (`FairDFS`) and Dijkstra is weak fairness of the
next step. A call of this library runs in the thread of its caller and has
nothing to wait for, so its next step is taken: nothing stronger is assumed.

`FairSpec` of GraphGenerator is weak fairness of its next step, and that is
more: a step is a draw that is kept, so the random engine is assumed not to
return what is rejected for ever. As the draws are independent and each pair has
a positive probability, this holds with probability one.

## 4. What is proved

The proofs are for every set of vertices, weights and calls, every chunk
capacity >= 1, promotion threshold >= 1 and tree order >= 3 (the `static_assert`s
of the code), and for the searches every set of graphs with finitely many
vertices and neighbours, which a graph in memory has. The assumptions are the
named `ASSUME`s of GCCNodes, GCCGraph, BPlusTree, SearchedGraph, CSRGraph
and GraphGenerator; TLC evaluates them in the runs.

- **GCCGraph_proofs**: `GraphInvariant` (`Spec => []IInv`), and from it
  `TypeCorrect` (`TypeOK`), `NodesStayWellFormed` (`NodesWellFormed`) and
  `ChainIsCurrent` (`CleanChain`). `TypeOK` is not inductive: that an insertion
  keeps the keys of the nodes registered ids, and that nodes keep to their
  arrays, needs the nodes to be well formed (chunks filled one after the other,
  leaves short of the order and ascending along the chain), and a promoted item
  goes into the leaf of its route only if it is not in the tree yet. `IInv`
  therefore adds `EntryOK` for each vertex and, for a running promotion, items
  of one key each that are in no leaf. `CleanChain` is preserved because each
  insertion of an entry marks the chain, while the in-place update and the
  registration of a known vertex change no head node.

  `ContentsInvariant` adds `UniqueInv` to `IInv`: no key is in two nodes of a
  vertex, the directed insertions of one call have different sources, and a tree
  has, together with the items its promotion still holds, more entries than
  chunks have room for. `IInv` does not imply the first, because chunks, unlike
  leaves, are in no order: the key of a new entry is new because
  `insertDirectedEdge` has looked in every chunk before. From it follow
  `DegreeCountsNeighbours` (`SizeCountsNeighbours`: disjoint nodes with injective
  keys add up to the number of neighbours), `PromotionIsExact`
  (`PromotedWhenChunksAreFull`: sizes never fall, and a vertex without a tree is
  within its chunks), `LookupIsExact` (`LookupFindsWhatIterationReports`) and
  `GraphImplementsSimpleGraph`. For the lookups the search by halving is shown to
  return the slot of the key in any ascending array (`FindProperties` of
  GCCNodes_proofs, by induction on the width of the part that is left), and the
  node that is searched to be the only one with the key.
  `TraversalIsComplete` (`TraversalVisitsAll`) follows from the first invariant:
  after k pointers the walk has visited the vertices with edges that come before
  the one the next pointer names, so that the first null pointer comes after all
  of them.

  The refinement maps the stored edges, overridden by those that `todo` and
  `bulk` still hold, to one weight per pair. Every internal step moves an edge
  from the pending to the stored (`InsertionKeepsEdges`), with the same weight
  whichever path it takes; a call adds its edges in place of those between the
  same ids (`AddedWeights`), and ids name vertices uniquely.
- **GCCNodes_proofs**: the lemmas about nodes: insertion keeps entries
  ascending, a route separates the leaves below a key from those above, a leaf
  that splits gives two shorter ones in order with the same keys, and `Find`
  returns what it is asked for.
- **BPlusTree_proofs**: `TreeInvariant` (`Spec => []IInv`), and from it
  `TreeImplementsLeafChain` (`ImplementsLeafChain`) and `DescentsFollowRoute`
  (`DescentFollowsRoute`). `IInv` says that there are, for the nodes of the heap,
  bounds `lo` and `hi` of the keys below each (0 for none above), a height, and
  a chain of leaves such that a child has its parent's height less one and the
  bounds that the separators to its left and right give it; that parent and child
  links are inverse; that consecutive leaves share a bound, and that a node on
  the path of a descent has the key within its bounds. None of the properties is
  inductive without the bounds: that an insertion into the leaf where the descent
  ends keeps the chain ascending needs the separators above, whose order needs
  that of the keys below. While a split is on its way up (`pc = "propagate"`) the
  new right node hangs in no parent, and the left one has, for its parent, still
  the upper bound of both: `SeenHi`. Each action has a lemma on the nodes it
  leaves (`LinkKeepsShape`, `InnerSplitKeepsShape`, `GrowRootKeepsShape`, ...)
  with the witnesses it needs: a leaf split inserts the right node into the
  chain and gives it the promoted key as lower bound, an inner split divides
  bounds and children, a new root has no bounds. Of these steps, only the one
  that writes a leaf changes what the chain holds, and it does what `Insert` or
  `Update` of LeafChain does there.

  `ChainInvariant` is the invariant of LeafChain itself, by finite cardinality for
  the counts; through the refinement the tree has what the chain promises, after
  every step: `LeavesStayOrdered`, `RouteMissesNoKey` and `SizeAndLevelCount`.

  What concerns whole layers of the tree follows by induction down from the root
  and up from each node: a layer whose nodes have height h > 0, with bounds that
  do not overlap, has below it a layer of height h - 1 of the same kind
  (`LevelBelow`), and a node, through its parent, is in the layer that its height
  gives (`LayersCover`). So the layers above the height of the root have no
  leaf, the last has all of them, and being in order of bounds, as the chain is, it
  equals the chain (`SameAscending`). From this come `TreeStaysBalanced`
  (`Balanced`), `ParentsMatchChildren` (`ParentsAndChildrenAgree`) and
  `ChainIsLastLayer` (`ChainIsFrontier`).
- **CSRGraph_proofs**: for any number of vertices and staged edges. A place, of an
  edge in the scattering pass or of a cell in a sorted row, is a count of the
  elements that come before; for any order of m elements these counts are 1 to m,
  each once (`PlacesAreAll`), so that the scattered array has every edge, in the
  row of its source, and a sorted row has the cells of the unsorted one, in order.
  Of a sorted row the first cell per id is the lightest. The rows, built one
  behind the other, are those between the offsets, so `finalize()` serves
  `LeastEdges` of what was staged (`BuiltArraysServe`), which is
  `FinalizeServesLightest` (`FinalizeServesStaged`).

  `IInv` says that `idMap` and `reverseIdMap` are inverse, that staged edges join
  registered vertices, that arrays in service were built for as many vertices as
  are registered and nothing is staged beside them, and that what is staged or
  served has both directions if the graph is undirected. The first is needed
  for the others: arrays fit because every id in the buffer was given out before
  the build. From it follow `ArraysFitVertices` (`ServedArraysFitVertices`) and
  `AnswersAgree` (`QueriesAgree`), with the halving of `std::lower_bound` shown to
  find a cell of an ascending row (`BinarySearchFinds`).

  `CSRImplementsSimpleGraph` (`ImplementsSimpleGraph`): for graphs built once,
  `addEdge` changes the weights as SimpleGraph's does, because the lightest of
  the edges with one more is the lighter of the two (`StagingMerges`) and ids name
  vertices uniquely, and `finalize()` changes nothing.
- **Traversals_proofs**: `VisitsReachableOnce` for every graph, of `bfs` and of
  `dfs`. In both, what has been visited or waits is reachable, and the neighbours
  of a visited vertex are visited, waiting, or still to be reported: when the
  container is empty the visited vertices are closed under edges and contain the
  start, so they are all that is reachable. They differ in when a vertex is
  marked (`BFSIInv`, `DFSIInv`).

  `BreadthFirstInOrderOfHops` (`InOrderOfHops`): the vertices reported and
  waiting are in order of hops, and those waiting span no more than two
  consecutive numbers of hops, because each waiting vertex is next to a reported
  one, and the neighbours of all reported vertices but the last are marked.
  `DepthFirstGoesDeep` (`DepthFirstOrder`): every place of the stack remembers the
  visited vertex that put it there; these come in the order of visits, and the
  unreported neighbours of a visited vertex are all on the stack above what
  earlier vertices put there.
- **Dijkstra_proofs**: without any assumption on the weights, every vertex with a
  distance that is not settled has its pair in the queue, and the edges of a
  settled one have been followed (`QueueInv`), so that the search meets every
  edge that can be reached: `DijkstraThrowsOnNegativeEdge`
  (`ThrowsOnNegativeEdge`). If no edge is negative and the sums fit, a settled
  vertex is no farther than any pair in the queue, and distances are lengths of
  walks (`GreedyInv`). It follows that a settled distance is not revised
  (`DijkstraSettlesOnce`) and that at the end the distances satisfy the
  inequality of every edge, so that no walk, of any length, is shorter
  (`DijkstraFindsShortest`).
- **SearchedGraph_proofs**: reachability, lists, and induction over the numbers.
  The library's induction theorems take a predicate and cannot be used; here
  induction is over a set of numbers (`SetInduction`), from the well-foundedness
  of < on Nat, and what a recursive function computes is had by `RecursiveFunction`
  (there is one) and the equation it satisfies.
- **GraphGenerator_proofs**: for all sizes and all draws. `GeneratedEdgesAreLegal`
  (`EdgesAreLegal`): the invariant says where the cell, the bits and the indices
  of a running function are; the rest is arithmetic: a row's last cell has no
  right neighbour, `s % n` is a vertex, and `(t + 1) % n` another one than `t`.
  `ChainGoesThroughAll` (`ChainIsOneCycle`): the edges follow the shuffled
  vertices (`ChainInv`), which are all of them because an injection between sets
  of one size is a surjection; a set that no edge leaves has, with the vertex at
  one place, those at all later ones, then the first, then all.
  `GridJoinsNeighbours` (`GridIsMesh`): before cell k the edges are those between
  a cell below k and the ones ahead of it, each once (`GridInv`); what a cell adds
  has no end below it, so it is new, and the cells at distance one are those
  ahead of one another because a number below width * height is that of one cell.

Only model-checked: `ConstructedAnswerAlike`, `ConversionsKeepContents` and
`ImplementsNaiveGraph` of the conversions, and what CBListGraph promises
(`ChainsAreFilled`, `NumEdgesAsReference`, `ImplementsNaiveGraph`); there the
definitions flatten lists and fold over edge lists. Out of the prover's reach
are the liveness properties: `EveryCallReturns` and the three `Returns`.

## 5. Findings

1. **A second `finalize()` loses the graph** (`CSRGraph.hpp:142`, run
   `csr_refinalize`). The buffer is emptied after the build; anything added
   later leads to a rebuild from what was staged since. With everything added
   before the first `finalize()`, as in the tests and the benchmarks, the
   structure is right (`ImplementsSimpleGraph` of `csr_graph`). The other
   structures extend the graph.
2. **A conversion loses the direction** (`StaticCSRGraph.hpp:102`, run
   `conversion_count`): what is constructed from an undirected RawGraph is
   directed, holds both entries of each edge and counts two where the RawGraph
   counts one. DynamicCSRGraph, NaiveGraph and CBListGraph do the same, and
   extend the graph one way only afterwards; VirtualCSRGraph keeps the
   direction.

Differences that are no findings: a parallel edge replaces the weight in
GCCGraph, keeps the least in CSR, and is kept beside the first in the list-like
structures. The README of the repository announces the CSR's removal of
duplicates, and each is modelled as it is (`KeepLeast`, NaiveGraph). An
undirected loop is one edge in CBListGraph and none in NaiveGraph, which halves
the number of its entries (`CBListGraph.hpp:153`); nothing in the repository
promises either, and `NumEdgesAsReference` leaves such loops out.

## 6. Not modelled, and why

- Memory layout, alignment, prefetching, capacities of vectors,
  `memoryUsageBytes`: no behaviour depends on them.
- Allocation failure: a node or chunk can always be allocated.
- Graphs that have been moved from, move assignment and the destructor of
  GCCGraph: no caller in the repository goes on with a graph it has moved from
  or assigns to one that holds edges, so there is no behaviour to compare. The
  defaulted moves leave `gtHead`, counters and buffers in the moved-from graph
  (hazards without a property).
- VirtualRawGraph and the searches of VirtualBaseGraph: statement by statement
  those of RawGraph and BaseGraph, for timing; a second copy of the modules
  would show nothing new.
- A callback that changes the graph it is called from: the interface passes
  const graphs to the searches, and no caller does.
- Floating point: weights are integers. Only comparison and, in `dijkstra`,
  addition matter; there the sum of a narrow signed type wraps.
- The order of unordered maps decides no result but the order in which
  NaiveGraph's vertices are traversed.
- Generators asked for no vertices: `num_vertices - 1` wraps and the chain reads
  an empty vector. No caller asks for it, and `CallsAssumption` leaves it out.
- Weights of generated edges, and the distributions of the random engine.
- Benchmarks, the array experiments under `data/`, notebooks and build files.

## 7. What is done and what is left

Done, in this order: GCCNodes, SimpleGraph, GCCGraph; LeafChain, BPlusTree;
CSRArrays, CSRGraph; the searches; the list-like structures and the first
proofs; then the other CSR structures, the conversions, the generators, and the
proofs that GCCGraph implements SimpleGraph and that generated edges are legal;
then the proofs about the lookups, the traversal, the order of the searches, the
shortest distances, the B+ tree, and the chain and the grid of the generators;
last those about `finalize()` and CSRGraph.

Left, by importance:

1. *CBListGraph implements NaiveGraph*, for every capacity, as a theorem.
2. *What is constructed from one RawGraph answers alike*, as a theorem; what
   `BuildCSR` serves is proved and can be cited.
3. *Moves and destruction*, should a caller come to rely on them.
