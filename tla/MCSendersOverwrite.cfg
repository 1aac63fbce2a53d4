SPECIFICATION Spec
CONSTANTS
  CycleChunk = 3
  Costs <- MCCosts
  Addresses <- MCAddresses
  Senders = {s1}
PROPERTIES
  PostedNotOverwritten
