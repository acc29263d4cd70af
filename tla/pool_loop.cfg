SPECIFICATION Spec
CONSTANTS
  RequestedThreads = 3
  CoreCount = 2
  Ops <- MCLoopOps
  LoopSizes <- MCFew
  BatchSizes <- MCBatch
  BodyMayThrow = FALSE
  MaxCalls = 2
  NextQueueMod = 4
INVARIANTS IInv PendingExact RunsAtMostOnce JoinComplete FrameAlive
PROPERTY FJSpec
