SPECIFICATION FairSpec
CONSTANTS
  Weights = {0, 1, 3}
  MaxWeight = 5
  Vertex <- MCVertex
  Graphs <- MCGraphs
  Starts <- MCStarts
INVARIANTS
  DistancesAreShortest
  ThrowsOnNegativeEdge
PROPERTIES
  SettledStaysFinal
  Returns
CHECK_DEADLOCK FALSE
