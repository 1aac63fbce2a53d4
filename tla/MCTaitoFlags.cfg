SPECIFICATION Spec
CONSTANTS
  CycleChunk = 2
  Costs <- MCCosts
  Addresses <- MCAddresses
  SpuriousWakeups = FALSE
INVARIANTS
  FlagsUsedByOneThread
