SPECIFICATION FairSpec
CONSTANTS
  SmallChunkCapacity = 1
  BPlusTreeOrder = 3
  MaxKey = 8
  PromotedItems = 5
  PutCalls <- MCPutCalls
  Promotions <- MCPromotions
INVARIANTS
  Balanced
  ParentsAndChildrenAgree
  ChainIsFrontier
  DescentFollowsRoute
  LeavesOrdered
  RouteFindsKeys
  CountsMatch
PROPERTIES
  ImplementsLeafChain
  EveryCallReturns
