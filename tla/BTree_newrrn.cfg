SPECIFICATION Spec
CONSTANTS
  Order = 3
  Keys <- MCKeys3
  DataRrn <- MCDataRrn
  Setups <- MCNew
  MaxNodes = 5
  MaxFree = 2
  NoOp = NoOp
INVARIANTS
  NewRrnIsNew
CHECK_DEADLOCK FALSE
