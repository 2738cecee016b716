SPECIFICATION MCSpec
CONSTANTS
  Ids = {c1, c2}
  Versions = {v1, v2}
  Prefixes <- MCPrefixes
  Missing = Missing
  Torn = Torn
  Closed = Closed
  Unreliable = Unreliable
  MaxPuts = 2
  MaxFaults = 2
  MaxLines = 5
  MaxWindow = 3
  Files = {f1, f2}
  Texts <- MCTexts
  WrongExt = WrongExt
  TooBig = TooBig
  Binary = Binary
  Gone = Gone
  None = None
  MaxRuns = 2
  MaxEdits = 1
INVARIANTS HandleInv ReportInv ChunksInv
PROPERTIES ImplementsIndexStore RunEnds
CHECK_DEADLOCK FALSE
