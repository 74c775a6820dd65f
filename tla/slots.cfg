SPECIFICATION Spec
CONSTANTS
  PoolCount = 2
  SlotCount = 3
  GenMax = 3
INVARIANTS
  TypeOK
  FreeListExact
  LiveListsExact
  CallbackSafe
  StaleRefused
