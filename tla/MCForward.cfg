SPECIFICATION Spec
CONSTANTS
  Tokens = {a, b}
  NumLayers = 2
  SeqLen = 3
  Capacity = 3
  Chunks = {1, 2, 4}
  MaxUpsets = 2
INVARIANTS
  LogitsAreCausal
  CacheHoldsPrefix
  GradientsComplete
