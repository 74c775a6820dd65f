SPECIFICATION Spec
CONSTANTS
  o1 = o1
  o2 = o2
  h1 = h1
  h2 = h2
  a1 = a1
  a2 = a2
  Pools <- MCPools2
  Objects = {o1, o2}
  Pointers = {h1, h2}
  Accesses = {a1, a2}
  ObjSize = 2
  Offsets <- MCOffsets1
  GenBound = 2
PROPERTIES
  DestructorsPaired
