SPECIFICATION SwapSpec
CONSTANTS
  NumLayers = 1
  NumBlocks = 2
  BlockSize = 2
  Tokens = {a, b}
  Zero = Zero
  MaxSeqs = 2
  MaxLen = 4
  SharedRollback = FALSE
  MinResident = 1
  MaxSlots = 3
  MaxFaults = 1
  Garbage = Garbage
  AppendToSwapped = FALSE
INVARIANTS SwapInv SwapTransparent
CHECK_DEADLOCK FALSE
