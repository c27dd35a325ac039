SPECIFICATION FairDFS
CONSTANTS
  Vertex <- MCVertex
  Graphs <- ListsInAnyOrder
  Starts <- MCStarts
INVARIANTS
  VisitsReachableOnce
  DepthFirstOrder
PROPERTY Returns
CHECK_DEADLOCK FALSE
