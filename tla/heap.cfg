SPECIFICATION Spec
CONSTANTS
  o1 = o1
  o2 = o2
  o3 = o3
  Pools <- MCPools2
  Objects = {o1, o2, o3}
  Segments = 3
  SegUnits = 4
  Payloads <- MCPayloads123
  Partial <- MCPartial
  WordSpan = 256
SYMMETRY MCSymmetry
INVARIANTS
  TypeOK
  ValidateAccepts
  FreeFindsNeighbours
  PackingNeverRefused
  SplitRefusesOnlyImpossible
  TargetMetHonest
  CompactionNeverCosts
