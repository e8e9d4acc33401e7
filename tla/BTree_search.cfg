SPECIFICATION WarmSpec
CONSTANTS
  Order = 3
  Keys <- MCKeys3
  DataRrn <- MCDataRrn
  Setups <- MCLow
  MaxNodes = 5
  MaxFree = 3
  NoOp = NoOp
PROPERTIES
  AllValuesFound
CHECK_DEADLOCK FALSE
