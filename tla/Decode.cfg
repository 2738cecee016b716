SPECIFICATION Spec
CONSTANTS
  NumLayers = 2
  KvMax = 5
  MaxContext = 7
  MaxTokens = 4
  MaxPrompt = 6
  MaxFaults = 2
  Junk = Junk
  None = None
INVARIANTS DecodeInv SamplesLastState
CHECK_DEADLOCK FALSE
