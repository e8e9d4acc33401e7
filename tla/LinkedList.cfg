SPECIFICATION Spec
CONSTANTS
  c1 = c1
  c2 = c2
  c3 = c3
  c4 = c4
  Cells <- MCCells
  Null = Null
  Width = 2
  Behind = {0, 1}
  NoValue = NoValue
  NoFile = NoFile
  MemFails = TRUE
SYMMETRY MCSymmetry
INVARIANTS
  ListLinked
PROPERTIES
  IsLifo
CHECK_DEADLOCK FALSE
