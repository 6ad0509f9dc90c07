------------------------------- MODULE Syslog -------------------------------
(***************************************************************************)
(* Remote syslog as a whole: the sessions of SyslogRemote change the table *)
(* and SyslogDaemon carries it over to rsyslog.                            *)
(***************************************************************************)
EXTENDS MCSyslogRemote

CONSTANTS NoFile, MaxCrashes, RestartMayFail

\* Lines that the daemon may write.
LineSet == [host : {c.host : c \in Configs}, transport : Transports,
            port : Ports, severity : Severities]

\* No content of a file is that of a file that does not exist.
ASSUME DaemonAssumption ==
  /\ MaxCrashes \in Nat /\ RestartMayFail \in BOOLEAN
  /\ NoFile \notin SUBSET LineSet

VARIABLES pc, monitor, rows, etc, running, lost, crashes

Daemon == INSTANCE SyslogDaemon

dvars == <<pc, monitor, rows, etc, running, lost, crashes>>

SysInit == Init /\ Daemon!Init

SysNext ==
  \/ Next /\ UNCHANGED dvars
  \/ Daemon!Next /\ UNCHANGED vars

SysSpec == SysInit /\ [][SysNext]_<<vars, dvars>> /\ Daemon!Fairness

\* What the users have configured, as the CLI understands it.
Configured == {Effective(row) : row \in db}

\* The file in /etc ends up as the table, whatever the interleaving of
\* commits, notifications, crashes and restarts.
FileFollowsTable == <>[](etc = Configured)

\* So does rsyslog, except when a restart was lost: the daemon crashed after
\* the copy or systemctl failed, and the equal files hide it ever after.
RsyslogFollowsTable == <>[](running = Configured) \/ <>[]lost

\* When the daemon waits for changes and has been told the table, file and
\* rsyslog are as its rows are.
QuietIsCurrent == Daemon!QuietIsCurrent
=============================================================================
