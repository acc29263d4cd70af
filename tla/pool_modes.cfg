SPECIFICATION FairSpec
CONSTANTS
  RequestedThreads = 0
  CoreCount = 2
  Ops <- MCModeOps
  LoopSizes <- MCWide
  BatchSizes <- MCNoBatch
  BodyMayThrow = TRUE
  MaxCalls = 3
  NextQueueMod = 4
PROPERTIES CallsReturn TasksGetRun
