SPECIFICATION Spec
CONSTANTS
  t1 = t1
  t2 = t2
  k1 = k1
  k2 = k2
  k3 = k3
  v1 = v1
  v2 = v2
  Tables <- MCTables
  Keys <- MCKeys
  Values <- MCValues
  Cut <- MCWhole
  Bucket <- MCBucket
  NumBuckets = 2
  NumPages = 24
  NoTable = NoTable
  NoValue = NoValue
INVARIANTS
  KeysListed
CHECK_DEADLOCK FALSE
