SPECIFICATION AdviceSpec
CONSTANTS
  o1 = o1
  o2 = o2
  NoAdvice = NoAdvice
  Pools <- MCPools2
  Objects = {o1, o2}
  Segments = 2
  SegUnits = 3
  Payloads <- MCPayloads
  Partial <- MCNoPartial
  WordSpan = 256
  Watched = {0}
  Queries <- MCQueries
  Thresholds <- MCThresholds
  EpochBound = 2
  BorrowBound = 1
  AgeBound = 1
  Ceiling = 8
SYMMETRY MCSymmetry
INVARIANTS
  AdviceTypeOK
  EstimateExact
  VerdictHonest
PROPERTIES
  SuppressionSound
