SPECIFICATION Spec
CONSTANTS
  NumLayers = 2
  NumBlocks = 2
  BlockSize = 2
  Tokens = {a, b}
  Zero = Zero
  MaxSeqs = 2
  MaxLen = 3
  SharedRollback = FALSE
INVARIANTS PoolInv ReadsBack
PROPERTY SharedBlocksFrozen
CHECK_DEADLOCK FALSE
