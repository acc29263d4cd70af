SPECIFICATION ASpec
CONSTANTS
  Lanes32 = 4
  Lanes64 = 2
  FP4_SIMD_CHUNK_SIZE = 8
  KernelSet <- MCKernelSet
  Widths <- MCWidths
  Heights <- MCHeights
  Depths <- MCDepths
  Threads = 2
  Totals <- MCTotals
  PartCounts <- MCPartCounts
  MatmulSet <- MCMatmulSet
  Shapes <- MCShapes
  Team = 2
  kBlockSize = 16
  MaxProduct = 3
  Int32Max = 48
  MaxIters = 2
  DotKernels <- MCDotKernels
  Contents <- MCContents
  HalfSet <- MCHalfSet
  FloatSet <- MCFloatSet
  Unit = 2
  Reals <- MCReals
  Factors <- MCFactors
  VectorSet <- MCVectorSet
  Machines <- MCMachines
  Builds <- MCBuilds
  Costs <- MCCosts
  Delays <- MCDelays
  Ticks <- MCTicks
  CHUNK_TARGET = 20
  MAX_CHUNK_ITERS = 32
  L2_TARGET_SIZE = 32
  MaxChunks = 2
INVARIANTS RaceFree CoversRegion InsideArrays Tiling ProductsExact
  NormalKept NearestHalf NearestFP4 VectorIsScalar
  SumsInRange DotExact KernelsSupported ChunkBounded OpsCounted
PROPERTIES SweepEnds
CHECK_DEADLOCK FALSE
