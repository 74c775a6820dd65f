SPECIFICATION FairSpec
CONSTANTS
  o1 = o1
  o2 = o2
  t1 = t1
  t2 = t2
  Pools <- MCPools2
  Objects = {o1, o2}
  Tasks = {t1, t2}
  Segments = 2
  SegUnits = 2
  Sizes <- MCSizesBig
  GenMax = 3
  BorrowBound = 2
  FreeRace = FALSE
INVARIANTS
  TypeOK
  MaintenanceExcludesBorrows
  BorrowsConserved
  BorrowedStaysPut
PROPERTIES
  ImplementsStableAccess
  MaintenanceEnds
  PausedPoolDrains
