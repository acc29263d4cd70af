SPECIFICATION RSpec
CONSTANTS
  Machines <- DesktopMachines
  Builds <- DesktopBuilds
  Costs <- MCCosts
  Delays <- MCDelays
  Ticks <- MCTicks
  CHUNK_TARGET = 20
  MAX_CHUNK_ITERS = 32
  L2_TARGET_SIZE = 32
  MaxChunks = 2
INVARIANTS ForceScalarHolds
CHECK_DEADLOCK FALSE
