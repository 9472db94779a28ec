SPECIFICATION FairFetchSpec
CONSTANTS
  f1 = f1
  f2 = f2
  f3 = f3
  Files = {f1, f2, f3}
  Runs = 2
  Workers = 2
  MaxAttempts = 2
  Size = 2
INVARIANTS
  FinalIsWhole
PROPERTIES
  RunsEnd
CHECK_DEADLOCK FALSE
