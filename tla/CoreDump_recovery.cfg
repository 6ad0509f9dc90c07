SPECIFICATION CoresSpec
CONSTANTS
  c1 = c1
  c2 = c2
  k1 = k1
  k2 = k2
  Cores = {c1, c2}
  Valid = {c1, c2}
  NoFile = NoFile
  MaxCrashes = 1
  NotGiven = NotGiven
  Sorted <- MC_Sorted
  NameOf <- MC_NameOf
  KernelCores = {k1, k2}
  Daemons = {"d"}
  FileNames = {NotGiven, "f"}
INVARIANTS
  TypeOK
  ProcessedIsLogged
  RepeatedOnlyByCrash
  CopyIsComplete
PROPERTY
  EveryCoreReported
CHECK_DEADLOCK FALSE
