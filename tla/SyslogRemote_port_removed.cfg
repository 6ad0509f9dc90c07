SPECIFICATION Spec
CONSTANTS
  Sessions = {s1}
  NotGiven = NotGiven
  Configs <- MC_Matching
  Transports = {"udp", "tcp"}
  Severities = {"info", "err"}
  BadHosts = {"bad"}
  MaxRemoteServers = 2
  MaxCommands = 4
  MaxLost = 0
PROPERTY RemovesNamedPort
CHECK_DEADLOCK FALSE
