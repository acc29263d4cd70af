SPECIFICATION Spec
CONSTANTS
  RequestedThreads = 3
  CoreCount = 2
  ListSizes <- MCLists
  LoopSizes <- MCSizes
  MaxCalls = 1
INVARIANT LoopLeavesNoThread
