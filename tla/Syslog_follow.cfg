SPECIFICATION SysSpec
CONSTANTS
  Sessions = {s1}
  NotGiven = NotGiven
  Configs <- MC_Daemon
  Transports = {"udp", "tcp"}
  Severities = {"info", "err"}
  BadHosts = {}
  MaxRemoteServers = 2
  MaxCommands = 3
  MaxLost = 0
  NoFile = {NoLine}
  MaxCrashes = 2
  RestartMayFail = TRUE
INVARIANT
  QuietIsCurrent
PROPERTIES
  FileFollowsTable
  RsyslogFollowsTable
CHECK_DEADLOCK FALSE
