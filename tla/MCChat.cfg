SPECIFICATION Spec
CONSTANTS
  SeqLen = 16
  MaxTokens = 3
  MaxText = 2
  MaxPrompt = 16
INVARIANTS
  ContextIsWindow
  ChatNeverCrops
  HistoryIsRendered
CHECK_DEADLOCK FALSE
