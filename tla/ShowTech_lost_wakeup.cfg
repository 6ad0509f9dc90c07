SPECIFICATION Spec
CONSTANTS
  NCmds = 1
  MaxRuns = 1
  MaxSignals = 0
  SignalThreads = {}
  Kinds = {"quick"}
  Spurious = FALSE
  OtherThread = FALSE
INVARIANTS
  SuccessReported
CHECK_DEADLOCK FALSE
