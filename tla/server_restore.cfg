SPECIFICATION Spec
CONSTANTS
  Cores = 3
  Confs <- MCRefusing
  MaxThreads = 1
  MaxBatches = 1
INVARIANT EverythingRestored
