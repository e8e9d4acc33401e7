SPECIFICATION Spec
CONSTANTS
  o1 = o1
  o2 = o2
  Owners <- MCTwoOwners
  NoOwner = NoOwner
  NumPages = 3
  MaxGrow = 1
  MaxSem = 2
  MaxExtra = 1
INVARIANTS
  ReclaimedPageNotUsed
CHECK_DEADLOCK FALSE
