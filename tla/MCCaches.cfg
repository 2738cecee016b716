SPECIFICATION MCSpec
CONSTANTS
  NumLayers = 3
  SizeOf <- MCSizeOf
  BaseBudget = 6
  Platform = "macos"
  PageCounts = {0, 1, 5, 12}
  Layers = {l1, l2, l3}
  MaxPinned = 2
  MinAccesses = 2
  DecayInterval = 2
  Prompts <- MCPrompts
  Hash <- MCHash
  PromptBytes <- MCPromptBytes
  MaxBytes = 5
  MaxStarts = 2
INVARIANTS CacheInv PinnerInv PromptInv
PROPERTIES EvictionSound StalePinsLeave RestoresLongestPrefix
CHECK_DEADLOCK FALSE
