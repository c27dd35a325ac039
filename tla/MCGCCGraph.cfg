SPECIFICATION Spec
CONSTANTS
  hub = hub
  t1 = t1
  t2 = t2
  t3 = t3
  t4 = t4
  other = other
  Vertex <- MCVertex
  Weight <- MCWeight
  EdgeCalls <- MCEdgeCalls
  VertexCalls <- MCVertexCalls
  SmallChunkCapacity = 2
  SmallChunkPromotionThreshold = 2
  BPlusTreeOrder = 3
SYMMETRY TargetSymmetry
INVARIANTS
  TypeOK
  CleanChain
  TraversalVisitsAll
  LookupFindsWhatIterationReports
  SizeCountsNeighbours
  NodesWellFormed
  PromotedWhenChunksAreFull
PROPERTY ImplementsSimpleGraph
