SPECIFICATION FairLaunchSpec
CONSTANTS
  W = 2
  NV = 1
  NumIters = 3
  LogEvery = 3
  EvalEvery = 1
  ValBatches = 4
  MaxNats = 1
  MayIgnore = FALSE
  ZeroInit = {}
  MaxBirths = 0
CHECK_DEADLOCK FALSE
INVARIANT ReadmeBestIsCheckpoint
