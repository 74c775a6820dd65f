SPECIFICATION Spec
CONSTANTS
  PoolCount = 1
  SlotCount = 1
  GenMax = 1
INVARIANTS
  AuditsAcceptUndamaged
