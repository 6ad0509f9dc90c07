SPECIFICATION FairSpec
CONSTANTS
  MaxRequests = 2
  MaxSignals = 1
  SignalThreads = {"main", "cmd"}
  Kinds = {"quick", "slow", "hang"}
  Docs <- DumpDocs
  None = None
INVARIANTS
  TypeOK
  CapturedIsReal
  ConnectionsClosed
  MappingIsPrefix
  InstalledCanDump
PROPERTIES
  ImplementsDiagRun
  DumpReturns
CHECK_DEADLOCK FALSE
