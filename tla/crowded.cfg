SPECIFICATION CallSpec
CONSTANTS
  o1 = o1
  o2 = o2
  o3 = o3
  Pools <- MCPools3
  Objects = {o1, o2, o3}
  Segments = 6
  SegUnits = 4
  Payloads <- MCPayloads
  Partial <- MCNoPartial
  WordSpan = 256
CHECK_DEADLOCK FALSE
INVARIANTS
  FreeRunsCapped
