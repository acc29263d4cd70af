SPECIFICATION FairSpec
CONSTANTS
  Cores = 3
  Confs <- MCConfs
  MaxThreads = 4
  MaxBatches = 2
INVARIANTS StartTogether MeasuredAlone TotalIsAllWork OwnCores LeftClean
PROPERTY RunEnds
