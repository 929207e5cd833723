SPECIFICATION Spec
CONSTANTS
  P = 97
  Root = 8
  LogCells = 3
  LogCellSize = 1
  LogN1 = 2
  Shift = 7
  NumBuckets = 8
  NumDigits = 2
  Q = 103
  Word = 16
  NLimbs = 2
  N0 = 9
  GenX = 2
  GenY = 42
  FrN0 = 15
  LogM1 = 1
  ReduceLanes = 2
  Subgroup = 8
  CoreThreshold = 3
  GpuTotalCores = 1
  LadderChunks <- LadderInversions
  ProofChunks <- ProofInversions
  Tau = 5
  MaxBatch = 2
  Calls <- CallsConsidered
  Stale = 5
INVARIANTS TypeOK ProofsOpenCells RefusedIffNotCanonical AllCellsRecovered DivisorNeverZero
CHECK_DEADLOCK FALSE
