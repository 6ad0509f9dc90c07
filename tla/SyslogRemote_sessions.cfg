SPECIFICATION Spec
CONSTANTS
  Sessions = {s1, s2}
  NotGiven = NotGiven
  Configs <- MC_Sessions
  Transports = {"udp", "tcp"}
  Severities = {"info", "err"}
  BadHosts = {"bad"}
  MaxRemoteServers = 2
  MaxCommands = 4
  MaxLost = 1
INVARIANTS
  TypeOK
  AtMostMax
  OneRowPerHost
PROPERTIES
  RemovesOnlyNamed
  SuccessMeansConfigured
  ImplementsTable
SYMMETRY Symmetry
CHECK_DEADLOCK FALSE
