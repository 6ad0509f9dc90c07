SPECIFICATION Spec
CONSTANTS
  MaxRequests = 0
  MaxSignals = 0
  SignalThreads = {}
  Kinds = {"quick"}
  Docs <- FlagDocs
  None = None
INVARIANTS
  FlagIfAnyDaemon
CHECK_DEADLOCK FALSE
