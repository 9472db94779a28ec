SPECIFICATION FairSpec
CONSTANTS
  W = 2
  RowLen = 4
  BufferSize = 2
  Corpora <- MCCorpora
  MaxRows = 2
  MaxErrors = 1
INVARIANTS
  DocsConserved
PROPERTIES
  RowsOrPanic
CHECK_DEADLOCK FALSE
