SPECIFICATION MCSpec
CONSTANTS
  MaxRequests = 3
  MaxFailures = 2
  BatchSize = 2
  SchedLayers = 2
  PromptLens = {1, 2}
  TokenLimits = {0, 1, 2}
  PromptLen = 2
  DraftAhead = 2
  RoundTokens = 5
  TargetCtx = 14
  DraftCtx = 16
  Adaptive = TRUE
INVARIANTS BatchInv RoundInv
PROPERTY EveryRequestFinishes
CHECK_DEADLOCK FALSE
