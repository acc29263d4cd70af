SPECIFICATION KFairSpec
CONSTANTS
  RequestedThreads = 3
  CoreCount = 0
  Ops <- MCKernelOps
  LoopSizes <- MCKernelSizes
  BatchSizes <- MCNone
  BodyMayThrow = FALSE
  MaxCalls = 2
  NextQueueMod = 4
INVARIANTS StartTogether ResultsComplete
PROPERTY RoundsEnd
