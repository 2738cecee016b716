SPECIFICATION MCSpec
CONSTANTS
  Ids = {i1, i2, i3}
  Data = {d1, d2}
  Garbage = Garbage
  MaxSlots = 4
  MaxFaults = 2
  LayerCount = 2
  Budget = 6
  SpillShare = 2
  MaxAppends = 9
  MaxIoFaults = 2
  HeavyBudget = 3
  Sinks = 1
  Window = 2
  Decays = TRUE
  Weights = {0, 4}
  MaxTokens = 5
  MaxRecords = 2
INVARIANTS SlotInv LedgersInv TierInv EvictingInv
PROPERTY HeavyHittersStay
SYMMETRY Symmetry
CHECK_DEADLOCK FALSE
