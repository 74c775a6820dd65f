SPECIFICATION Spec
CONSTANTS
  o1 = o1
  o2 = o2
  t1 = t1
  t2 = t2
  Pools <- MCPools2
  Objects = {o1, o2}
  Tasks = {t1, t2}
  Segments = 2
  SegUnits = 1
  Sizes <- MCSizes1
  GenMax = 1
  BorrowBound = 2
  FreeRace = TRUE
SYMMETRY MCSymmetry
INVARIANTS
  RaceOnlyLeaks
