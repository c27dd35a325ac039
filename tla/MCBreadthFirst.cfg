SPECIFICATION BFS
CONSTANTS
  Vertex <- MCVertex
  Graphs <- AscendingLists
  Starts <- MCStarts
INVARIANTS
  VisitsReachableOnce
  InOrderOfHops
CHECK_DEADLOCK FALSE
