SPECIFICATION FairSpec
CONSTANTS
  c1 = c1
  c2 = c2
  c3 = c3
  c4 = c4
  v1 = v1
  v2 = v2
  Cells <- MCCells
  Null = Null
  Values <- MCValues
  NoValue = NoValue
  MemFails = TRUE
INVARIANTS
  TypeOK
  Linked
  NothingLost
PROPERTIES
  IsFifo
  QueueCallsReturn
CHECK_DEADLOCK FALSE
