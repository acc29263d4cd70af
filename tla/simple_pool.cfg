SPECIFICATION FairSpec
CONSTANTS
  RequestedThreads = 3
  CoreCount = 2
  ListSizes <- MCLists
  LoopSizes <- MCSizes
  MaxCalls = 3
INVARIANT DestructorJoins
PROPERTIES FJSpec CallsReturn
