SPECIFICATION Spec
CONSTANTS
  o1 = o1
  o2 = o2
  o3 = o3
  Pools <- MCPools2
  Objects = {o1, o2, o3}
  Segments = 1
  SegUnits = 9
  Payloads <- MCPayloads12
  Partial <- MCTargets
  WordSpan = 256
SYMMETRY MCSymmetry
INVARIANTS
  NoNeedlessMoves
