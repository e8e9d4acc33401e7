SPECIFICATION AnySpec
CONSTANTS
  Order = 3
  Keys <- MCKeys5
  DataRrn <- MCDataRrn
  Setups <- MCFailing
  MaxNodes = 7
  MaxFree = 2
  NoOp = NoOp
INVARIANTS
  MemorySafe
  CacheHoldsTree
  NodeBounds
  NoNodeLost
PROPERTIES
  KeepsPromise
CHECK_DEADLOCK FALSE
