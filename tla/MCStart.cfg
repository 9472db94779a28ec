SPECIFICATION MCSpec
CONSTANTS
  W = 3
  DeviceBatch = 2
  GradAccum = 2
  EvalSteps = 2
  NumItersAsked = 0
  Headroom = 1
  ValCaps = 5
  Packs <- MCPacks
  ValFiles <- MCValFiles
INVARIANTS
  NoUpdateOnDisagreement
  RowsServedOnce
  AdviceWorks
PROPERTIES
  OneStart
CHECK_DEADLOCK FALSE
