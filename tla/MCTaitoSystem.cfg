SPECIFICATION FairSpec
CONSTANTS
  CycleChunk = 2
  Costs <- MCCosts
  Addresses <- MCAddresses
  SpuriousWakeups = FALSE
INVARIANTS
  SomeThreadRuns
  VideoSignalNotLost
  BufferEmptyWhenSent
  RenderedFrameIsWhole
  NoLockNeededAfterQuit
PROPERTIES
  ImplementsHandshake
  FramesKeepComing
  EscQuits
  ResetIsHonoured
