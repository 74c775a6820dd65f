SPECIFICATION Spec
CONSTANTS
  Zone = 14
  SlCount = 2
  FlMax = 4
INVARIANTS
  IndexExact
  FindKeepsContract
  AuditsAccept
  DamageFound
PROPERTIES
  ImplementsBlockPool
