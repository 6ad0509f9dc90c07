-------------------------- MODULE SyslogRefinement --------------------------
(***************************************************************************)
(* SyslogRemote implements SyslogTable: a row is the configuration that it *)
(* means, and every transaction is one operation of the abstract table.    *)
(***************************************************************************)
EXTENDS MCSyslogRemote

Table == INSTANCE SyslogTable WITH
  table <- {Effective(row) : row \in db},
  Servers <- {Effective(c) : c \in Configs},
  MaxServers <- MaxRemoteServers

\* Sessions with replicas that are out of date, conflicts and lost replies
\* behave like one user at one table: a command configures one server,
\* removes one, clears the table or does nothing.
ImplementsTable == Table!Spec
=============================================================================
