SPECIFICATION Spec
CONSTANTS
  CycleChunk = 3
  Costs <- MCCosts
  Addresses <- MCAddresses
  Senders = {}
INVARIANTS
  HookOnlyWhenPopulated
