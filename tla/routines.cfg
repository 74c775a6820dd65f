SPECIFICATION Spec
CONSTANTS
  Bytes = 24
  Values <- MCValues
  Contents <- MCContents
  MaxObjects = 5
  SlotSpan = 8
  OffSpan = 4
  ZoneSizes <- MCZoneSizes
  FreeCap = 4
INVARIANTS
  TypeOK
  MoveExact
  SortExact
