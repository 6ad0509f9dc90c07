SPECIFICATION FairSpec
CONSTANTS
  NCmds = 1
  MaxRuns = 2
  MaxSignals = 1
  SignalThreads = {"main", "cmd"}
  Kinds = {"quick", "hang"}
  Spurious = TRUE
  OtherThread = TRUE
PROPERTIES
  RunReturns
  HangsAreKnown
CHECK_DEADLOCK FALSE
