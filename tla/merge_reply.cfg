SPECIFICATION Spec
CONSTANTS
  o1 = o1
  Pools <- MCPools2
  Objects = {o1}
  Tasks = {}
  Segments = 2
  SegUnits = 1
  Sizes <- MCSizes1
  GenMax = 1
  BorrowBound = 2
  FreeRace = FALSE
INVARIANTS
  NoFalseCorruption
