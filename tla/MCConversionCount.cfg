SPECIFICATION SpecConversions
CONSTANTS
  a = a
  b = b
  c = c
  Vertex <- MCVertex
  EdgeCalls <- MCEdgeCalls
  VertexCalls <- MCVertexCalls
  MaxEntries = 4
INVARIANT ConversionKeepsNumEdges
