SPECIFICATION Spec
CONSTANTS
  NumBytes = 2
  NumMerges = 4
  LongWord = 6
  ShortWord = 3
  MaxCount = 2
  Corpora <- MCCorpora
  Pieces <- MCPieces
INVARIANTS
  TablesExact
  EncodesAsTrained
PROPERTIES
  ImplementsNaiveBpe
CHECK_DEADLOCK FALSE
