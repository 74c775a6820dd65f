SPECIFICATION Spec
CONSTANTS
  o1 = o1
  o2 = o2
  o3 = o3
  Pools <- MCPools2
  Objects = {o1, o2, o3}
  Tasks = {}
  Segments = 3
  SegUnits = 2
  Sizes <- MCSizes2
  GenMax = 1
  BorrowBound = 2
  FreeRace = FALSE
SYMMETRY MCSymmetry
INVARIANTS
  LiveBlocksDisjoint
  PoolTableConsistent
  MaintenanceAnswersBusy
PROPERTIES
  PinnedNeverMoves
