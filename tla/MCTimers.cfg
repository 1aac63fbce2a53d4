SPECIFICATION Spec
CONSTANTS
  NsPerSec = 5
  CycleTime = 1
  CycleChunk = 2
  Costs <- MCCosts
  NsPerLine = 1
  TopLines = 2
  BottomLines = 1
  Horizon = 12
  MaxSignals = 1
INVARIANTS
  TypeOK
  CyclesKeepTime
  CpuWaitsForClock
  InterruptsOnSchedule
PROPERTIES
  CpuSleepEnds
  FrontEndSleepEnds
