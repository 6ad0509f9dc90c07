---------------------------- MODULE SyslogDaemon ----------------------------
(***************************************************************************)
(* The supportability daemon as far as rsyslog is concerned,               *)
(* src/python/ops_supportability.py: it follows the table of remote syslog *)
(* servers, rewrites /etc/rsyslog.remote.conf when its content would       *)
(* change, and then restarts rsyslog. It may crash at any point, and       *)
(* systemd starts it again.                                                *)
(*                                                                         *)
(* A file is the set of its lines; the order of the lines, which follows   *)
(* the order of a Python dict, is left out.                                *)
(***************************************************************************)
EXTENDS Naturals

CONSTANTS
  NotGiven,        \* a column without a value
  NoFile,          \* the content of a file that does not exist
  MaxCrashes,      \* bound: crashes of the daemon
  RestartMayFail   \* whether `systemctl restart rsyslog' may fail

VARIABLES
  db,        \* the table, which the daemon only reads
  pc,        \* where the daemon is in its main loop
  monitor,   \* the idl's monitor request: the "first" since the start or one
             \* sent "again" by a new connection is open, or it is "answered"
  rows,      \* idl.tables[SYSLOG_REMOTE_TABLE].rows
  etc,       \* the lines of /etc/rsyslog.remote.conf
  running,   \* the lines rsyslog has read when it last started
  lost,      \* history: the file has changed and the restart of rsyslog
             \* that should have followed has not taken place
  crashes

dvars == <<pc, monitor, rows, etc, running, lost, crashes>>

\* The line of a row, with the defaults of supportability_reconfigure.
Bug_Line(row) ==
  LET transport == IF row.transport = NotGiven THEN "udp" ELSE row.transport
  IN  [host |-> row.host, transport |-> transport,
       port |-> IF row.port # NotGiven THEN row.port ELSE 514,
       severity |-> IF row.severity = NotGiven THEN "info" ELSE row.severity]
Line(row) ==
  LET transport == IF row.transport = NotGiven THEN "udp" ELSE row.transport
  IN  [host |-> row.host,
       transport |-> transport,
       port |-> IF row.port # NotGiven THEN row.port
                ELSE IF transport = "udp" THEN 514 ELSE 1470,
       severity |-> IF row.severity = NotGiven THEN "info" ELSE row.severity]

Lines == {Line(row) : row \in rows}

\* The switch boots; the file is there or not, and rsyslog has read it.
Init ==
  /\ pc = "run" /\ monitor = "first" /\ rows = {}
  /\ etc \in {NoFile, {}}
  /\ running = {} /\ lost = FALSE /\ crashes = 0

\* What ovsdb-server has sent, or will send, and idl.run() has not taken yet.
ToReceive == monitor # "answered" \/ rows # db

\* change_seqno moves with the reply to a monitor request and with every
\* change of the table.
Bug_SeqnoMoved == monitor # "answered"
SeqnoMoved == ToReceive

\* idl.run() finds the reply, or an update; then reconfigure.
Receive ==
  /\ pc = "run" /\ ToReceive
  /\ rows' = db /\ monitor' = "answered"
  /\ pc' = IF SeqnoMoved THEN "compare" ELSE "poll"
  /\ UNCHANGED <<etc, running, lost, crashes>>

\* idl.run() finds nothing: there is nothing to come, or it has not arrived,
\* as after supportability_init, which waits for no reply, or there is no
\* connection. The daemon goes to sleep with the rows that it has.
RunNothing ==
  /\ pc = "run"
  /\ pc' = "poll"
  /\ UNCHANGED <<monitor, rows, etc, running, lost, crashes>>

Bug_FileDiffers == etc = NoFile
FileDiffers == etc # Lines    \* no file is different from any content

\* /tmp/rsyslog.remote.conf is written and compared with the file in /etc.
Compare ==
  /\ pc = "compare"
  /\ pc' = IF FileDiffers THEN "copy" ELSE "poll"
  /\ UNCHANGED <<monitor, rows, etc, running, lost, crashes>>

\* copyfile() empties its target, then writes it.
Truncate ==
  /\ pc = "copy"
  /\ etc' = {} /\ pc' = "copying"
  /\ UNCHANGED <<monitor, rows, running, lost, crashes>>

Copy ==
  /\ pc = "copying"
  /\ etc' = Lines /\ pc' = "restart"
  /\ UNCHANGED <<monitor, rows, running, lost, crashes>>

\* The result of systemctl is not looked at.
Bug_Restart ==
  /\ pc = "restart"
  /\ running' = running /\ lost' = FALSE
  /\ pc' = "poll"
  /\ UNCHANGED <<monitor, rows, etc, crashes>>
Restart ==
  /\ pc = "restart"
  /\ \/ running' = etc /\ lost' = FALSE
     \/ RestartMayFail /\ running' = running /\ lost' = TRUE
  /\ pc' = "poll"
  /\ UNCHANGED <<monitor, rows, etc, crashes>>

\* poller.block() returns because an update has arrived ...
Wake ==
  /\ pc = "poll" /\ ToReceive
  /\ pc' = "run"
  /\ UNCHANGED <<monitor, rows, etc, running, lost, crashes>>

\* ... or for another reason: a core dump, a command of ovs-appctl, or a new
\* connection to ovsdb-server, where the idl asks again and keeps its rows
\* until it is answered.
WakeForOther ==
  /\ pc = "poll"
  /\ pc' = "run"
  /\ monitor' \in {monitor, IF monitor = "first" THEN "first" ELSE "again"}
  /\ UNCHANGED <<rows, etc, running, lost, crashes>>

\* An exception or a signal ends the daemon.
Crash ==
  /\ pc # "down" /\ crashes < MaxCrashes
  /\ pc' = "down" /\ crashes' = crashes + 1
  /\ lost' = (lost \/ pc \in {"copying", "restart"})
  /\ UNCHANGED <<monitor, rows, etc, running>>

\* supportability_init: a new idl, without rows.
Start ==
  /\ pc = "down"
  /\ pc' = "run" /\ monitor' = "first" /\ rows' = {}
  /\ UNCHANGED <<etc, running, lost, crashes>>

Progress ==
  \/ Receive \/ RunNothing \/ Compare \/ Truncate \/ Copy \/ Restart
  \/ Wake \/ Start

Next == Progress \/ WakeForOther \/ Crash

\* The daemon is scheduled and systemd restarts it. What ovsdb-server sends may
\* come late, and runs of the idl may find nothing however often; but it comes,
\* hence strong fairness of its receipt.
Fairness == WF_dvars(Progress) /\ SF_dvars(Receive)

\* Once the daemon has been told the table, it never sleeps on a file that is
\* not the one of its rows, also after a crash that left the file half written;
\* and rsyslog has read that file then, unless a restart was lost. Before, it
\* does sleep on whatever is there: no file, that of an earlier table, or half
\* of one.
QuietIsCurrent ==
  pc = "poll" /\ monitor # "first" => etc = Lines /\ (running = etc \/ lost)
=============================================================================
