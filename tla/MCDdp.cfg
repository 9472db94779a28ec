SPECIFICATION FairSpec
CONSTANTS
  W = 2
  NV = 2
  NumIters = 3
  LogEvery = 2
  EvalEvery = 2
  ValBatches = 1
  MaxNats = 1
  MayIgnore = TRUE
  ZeroInit = {1}
  MaxBirths = 1
INVARIANTS
  CollectivesMatch
  ReplicasAgree
  BestIsLowest
  NanAbortLag
  NanHasCause
  AbortIsUnanimous
PROPERTIES
  OneVerdict
  ImplementsSyncTrain
CHECK_DEADLOCK FALSE
