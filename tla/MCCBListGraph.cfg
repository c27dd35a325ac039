SPECIFICATION Spec
CONSTANTS
  a = a
  b = b
  c = c
  Vertex <- MCVertex
  EdgeCalls <- MCEdgeCalls
  VertexCalls <- MCVertexCalls
  Sources <- MCSources
  Capacity = 2
  MaxEdges = 5
INVARIANTS
  ChainsAreFilled
  NumEdgesAsReference
PROPERTY ImplementsNaiveGraph
