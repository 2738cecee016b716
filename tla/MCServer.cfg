SPECIFICATION MCSpec
CONSTANTS
  Clients = {1, 2}
  Requests <- MCRequests
  MaxTokens = 1
  MaxSignals = 2
  None = None
  Models = {"a", "b"}
  Remote <- MCRemote
  Inodes <- MCInodes
  Asked <- MCAsked
  MaxEdits = 2
  MaxPulls = 2
  NewNamesOnly = TRUE
  Threads = {t1, t2}
  Times = {1, 2}
  Window = 1
  MaxRequests = 2
  MaxReports = 1
  MaxResets = 1
  Wrap = 8
INVARIANT ServerInv
PROPERTIES EveryClientServed ShutdownStops PullDelivers
CHECK_DEADLOCK FALSE
