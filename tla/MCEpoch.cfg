SPECIFICATION FairSpec
CONSTANTS
  Capacity = 12
  BufferSize = 3
  SepTokens = 1
  Caps <- MCCaps
  IdentityCopies = 2
  Files <- MCFiles
INVARIANTS
  PackedWhole
  ScoredIsReply
  ScoredTokensServed
PROPERTIES
  ImplementsBestFit
  PackingEnds
CHECK_DEADLOCK FALSE
