SPECIFICATION Spec
CONSTANTS
  NCmds = 2
  MaxRuns = 2
  MaxSignals = 1
  SignalThreads = {"main", "cmd"}
  Kinds = {"quick", "slow", "hang"}
  Spurious = TRUE
  OtherThread = FALSE
INVARIANTS
  TypeOK
  SuccessIsReal
  CancelReported
  InterruptStops
  NoFailureHidden
  QuietRunLeavesNoTrace
PROPERTIES
  ImplementsRun
CHECK_DEADLOCK FALSE
