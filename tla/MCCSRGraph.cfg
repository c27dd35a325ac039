SPECIFICATION Spec
CONSTANTS
  a = a
  b = b
  c = c
  Vertex <- MCVertex
  EdgeCalls <- MCEdgeCalls
  VertexCalls <- MCVertexCalls
  MaxStaged = 4
  MaxOnce = 5
INVARIANTS
  ServedArraysFitVertices
  QueriesAgree
PROPERTIES
  FinalizeServesStaged
  ImplementsSimpleGraph
