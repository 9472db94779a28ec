\* Two runs under one root, or one with the flags of the validators.
SPECIFICATION Spec
CONSTANTS
  Scenarios <- MCScenarios
  Limit = 6
  MaxShard = 3
  MaxUsize = 7
  Seconds = {1, 2}
  Bpbs = {1, 2}
  Room = 2
  Peaks = {0, 1, 2}
  MaxUpsets = 2
INVARIANTS
  AcceptedFlagsRun
  RunsApart
  RunHasProvenance
  NoEmptyDirLeft
  LogKeepsOrder
  LrUnimodal
  PeaksCovered
CHECK_DEADLOCK FALSE
