SPECIFICATION Spec
CONSTANTS
  CycleChunk = 2
  Costs <- MCCosts
  Addresses <- MCAddresses
  SpuriousWakeups = TRUE
INVARIANTS
  TypeOK
  LocksHeldExactly
CHECK_DEADLOCK FALSE
