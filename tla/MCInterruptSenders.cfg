SPECIFICATION FairSpec
CONSTANTS
  CycleChunk = 3
  Costs <- MCCosts
  Addresses <- MCAddresses
  Senders = {s1, s2}
INVARIANTS
  TypeOK
  IntLockHeldExactly
  PendingNeverHalted
  PollNeverOverdue
PROPERTIES
  SendReturns
  PostedIsConsumed
  QuitIsHonoured
