SPECIFICATION Spec
CONSTANTS
  o1 = o1
  o2 = o2
  o3 = o3
  Pools <- MCPools2
  Objects = {o1, o2, o3}
  Segments = 1
  SegUnits = 5
  Payloads <- MCPayloads123
  Partial <- MCWrapping
  WordSpan = 256
SYMMETRY MCSymmetry
INVARIANTS
  TargetMetHonest
