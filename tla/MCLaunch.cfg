SPECIFICATION FairLaunchSpec
CONSTANTS
  W = 3
  NV = 1
  NumIters = 3
  LogEvery = 3
  EvalEvery = 3
  ValBatches = 4
  MaxNats = 1
  MayIgnore = FALSE
  ZeroInit = {}
  MaxBirths = 0
INVARIANTS
  ExitStatusIsTrue
  NoOrphans
PROPERTIES
  LauncherReturns
CHECK_DEADLOCK FALSE
