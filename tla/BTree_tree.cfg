SPECIFICATION FairSpec
CONSTANTS
  Order = 3
  Keys <- MCKeys5
  DataRrn <- MCDataRrn
  Setups <- MCTall
  MaxNodes = 7
  MaxFree = 4
  NoOp = NoOp
INVARIANTS
  TypeOK
  LeafListOrdered
  Balanced
PROPERTIES
  KeepsPromise
  CallsReturn
CHECK_DEADLOCK FALSE
