---------------------------- MODULE SyslogRemote ----------------------------
(***************************************************************************)
(* Configuration of remote syslog servers, src/cli/syslog_vty.c:           *)
(*   logging HOST [udp|tcp [PORT]] [severity S],                           *)
(*   no logging HOST ..., no logging.                                      *)
(*                                                                         *)
(* Each session is a vtysh process with a replica of the database. A       *)
(* command reads the replica, which may be out of date, and builds a       *)
(* transaction that sets the column System.syslog_remotes to a list of     *)
(* rows computed from the replica; ovsdb-server commits it if the column   *)
(* is still the one that was read (ovsrec_system_verify_syslog_remotes).   *)
(***************************************************************************)
EXTENDS Naturals, FiniteSets

CONSTANTS
  Sessions,          \* vtysh processes
  Configs,           \* what a user may type after (no) logging
  Transports, Severities,
  BadHosts,          \* host arguments that the validation refuses
  NotGiven,          \* an optional argument or column that is absent
  MaxRemoteServers,  \* MAX_REMOTE_SERVERS, 4 in the code
  MaxCommands,       \* bound: commands issued
  MaxLost            \* bound: connections lost during a commit

DefaultPort(transport) == IF transport = "udp" THEN 514 ELSE 1470

Ports == 1..65535

\* The columns of a row, or the arguments of a command.
Config == [host : {c.host : c \in Configs},
           transport : Transports \cup {NotGiven},
           port : Ports \cup {NotGiven},
           severity : Severities \cup {NotGiven}]

ASSUME ConstantsAssumption ==
  /\ Configs \subseteq Config
  /\ {"udp", "tcp"} = Transports /\ "info" \in Severities
  /\ NotGiven \notin Transports /\ NotGiven \notin Severities
  /\ NotGiven \notin Ports
  /\ \A c \in Configs : c.port # NotGiven => c.transport # NotGiven
  /\ MaxRemoteServers \in Nat \ {0} /\ MaxCommands \in Nat /\ MaxLost \in Nat

VARIABLES
  db,        \* the rows System.syslog_remotes refers to
  nextId,    \* the uuid the next inserted row gets
  replica,   \* the rows each session knows
  txn,       \* the transaction each session is committing
  result,    \* the last command of each session and what it returned
  issued,    \* commands so far
  losses     \* lost connections so far

vars == <<db, nextId, replica, txn, result, issued, losses>>

NoTxn == [op |-> "none"]
NoResult == [op |-> "none", status |-> "none"]

Init ==
  /\ db = {} /\ nextId = 0
  /\ replica = [s \in Sessions |-> {}]
  /\ txn = [s \in Sessions |-> NoTxn]
  /\ result = [s \in Sessions |-> NoResult]
  /\ issued = 0 /\ losses = 0

-----------------------------------------------------------------------------
(* syslog_remote_get_config: the first row, in the order of the replica's  *)
(* hash table, that matches. `last' is the last row of that order.         *)

Transport(c) == IF c.transport = NotGiven THEN "udp" ELSE c.transport
Port(c) == IF c.port = NotGiven THEN DefaultPort(Transport(c)) ELSE c.port
Severity(c) == IF c.severity = NotGiven THEN "info" ELSE c.severity

\* host_only_match, SIMILAR_MATCH and EXACT_MATCH.
Modes == {"host", "similar", "exact"}

Bug_TransportMatches(row, c, mode) ==
  c.transport # NotGiven => Transport(row) = c.transport
TransportMatches(row, c, mode) ==
  IF c.transport # NotGiven
    THEN Transport(row) = c.transport
    ELSE mode = "exact" => Transport(row) = "udp"

\* A port in the last row is not compared (next == NULL).
PortMatches(row, c, mode, last) ==
  IF c.port # NotGiven
    THEN IF row.port = NotGiven
           THEN c.port = DefaultPort(Transport(row))
           ELSE row # last => row.port = c.port
    ELSE mode = "exact" => Port(row) = DefaultPort(Transport(row))

Bug_SeverityMatches(row, c, mode) ==
  c.severity # NotGiven => row.severity \in {NotGiven, c.severity}
SeverityMatches(row, c, mode) ==
  IF c.severity # NotGiven
    THEN Severity(row) = c.severity
    ELSE mode = "exact" => Severity(row) = "info"

Matches(row, c, mode, last) ==
  /\ row.host = c.host
  /\ mode # "host" =>
       /\ TransportMatches(row, c, mode)
       /\ PortMatches(row, c, mode, last)
       /\ SeverityMatches(row, c, mode)

\* The rows the search may return: the last one only if no other matches.
Found(rows, c, mode, last) ==
  LET matching == {row \in rows : Matches(row, c, mode, last)}
  IN  IF matching \subseteq {last} THEN matching ELSE matching \ {last}

\* The uuids decide the order, so any row may be the last.
LastRows(rows) == IF rows = {} THEN {NotGiven} ELSE rows

-----------------------------------------------------------------------------
(* cli_syslog_config and `no logging', up to cli_do_config_finish.         *)

\* The session is at its prompt.
Ready(s) == txn[s] = NoTxn /\ issued < MaxCommands

\* The command returns without a change to the database.
Return(s, op, c, status) ==
  /\ result' = [result EXCEPT ![s] =
                  [op |-> op, config |-> c, status |-> status]]
  /\ issued' = issued + 1
  /\ UNCHANGED <<db, nextId, replica, txn, losses>>

\* The transaction is built and sent: rows to delete, rows to insert.
Send(s, op, c, delete, insert) ==
  /\ txn' = [txn EXCEPT ![s] =
               [op |-> op, config |-> c, read |-> replica[s],
                delete |-> delete, insert |-> insert]]
  /\ issued' = issued + 1
  /\ UNCHANGED <<db, nextId, replica, result, losses>>

\* The host name is too long or not an address and not a name.
Refuse(s, op, c) ==
  /\ Ready(s) /\ c.host \in BadHosts
  /\ Return(s, op, c, "warning")

\* The configuration exists already.
AddExisting(s, c, last) ==
  /\ Ready(s) /\ c.host \notin BadHosts
  /\ Found(replica[s], c, "exact", last) # {}
  /\ Return(s, "add", c, "success")

\* The row cli_syslog_delete_config removes before a new one is inserted.
Bug_Replaced(rows, c, last) == Found(rows, c, "similar", last)
Replaced(rows, c, last) == Found(rows, c, "host", last)

Bug_LimitReached(rows) == Cardinality(rows) > MaxRemoteServers
LimitReached(rows) == Cardinality(rows) >= MaxRemoteServers

\* The row of the host, if any, is deleted and a new one inserted, unless
\* the limit is reached even without the deleted row.
Add(s, c, last) ==
  /\ Ready(s) /\ c.host \notin BadHosts
  /\ Found(replica[s], c, "exact", last) = {}
  /\ LET found == Replaced(replica[s], c, last)
     IN  \E delete \in IF found = {} THEN {{}} ELSE {{row} : row \in found} :
           IF LimitReached(replica[s] \ delete)
             THEN Return(s, "add", c, "warning")
             ELSE Send(s, "add", c, delete, {c})

\* Syslog configuration not found.
RemoveNotFound(s, c, last) ==
  /\ Ready(s) /\ c.host \notin BadHosts
  /\ Found(replica[s], c, "similar", last) = {}
  /\ Return(s, "remove", c, "warning")

Remove(s, c, last) ==
  /\ Ready(s) /\ c.host \notin BadHosts
  /\ \E row \in Found(replica[s], c, "similar", last) :
       Send(s, "remove", c, {row}, {})

\* `no logging', confirmed by the user.
Clear(s) ==
  /\ Ready(s) /\ replica[s] # {}
  /\ Send(s, "clear", NotGiven, replica[s], {})

\* No row to delete: TXN_UNCHANGED, nothing is sent.
ClearNothing(s) ==
  /\ Ready(s) /\ replica[s] = {}
  /\ Return(s, "clear", NotGiven, "success")

-----------------------------------------------------------------------------
(* cli_do_config_finish: the server executes the transaction.              *)

Refs(rows) == {row.id : row \in rows}

\* The prerequisite of ovsrec_system_verify_syslog_remotes.
Bug_Verified(t) == Cardinality(Refs(t.read)) = Cardinality(Refs(db))
Verified(t) == Refs(t.read) = Refs(db)

Bug_NewRow(c) ==
  [id |-> nextId, host |-> c.host, transport |-> c.transport,
   port |-> IF c.port = NotGiven THEN 0 ELSE c.port, severity |-> c.severity]
NewRow(c) ==
  [id |-> nextId, host |-> c.host, transport |-> c.transport,
   port |-> c.port, severity |-> c.severity]

\* The column is overwritten; rows it no longer refers to are collected.
Apply(t) ==
  /\ db' = (t.read \ t.delete) \cup {NewRow(c) : c \in t.insert}
  /\ nextId' = nextId + 1

Finish(s, status) ==
  /\ txn' = [txn EXCEPT ![s] = NoTxn]
  /\ result' = [result EXCEPT ![s] =
                  [op |-> txn[s].op, config |-> txn[s].config,
                   status |-> status]]

\* The update of the replica arrives before the reply.
Commit(s) ==
  /\ txn[s] # NoTxn /\ Verified(txn[s])
  /\ Apply(txn[s]) /\ Finish(s, "success")
  /\ replica' = [replica EXCEPT ![s] = db']
  /\ UNCHANGED <<issued, losses>>

\* TXN_TRY_AGAIN: Configuration failed. Nobody tries again.
Conflict(s) ==
  /\ txn[s] # NoTxn /\ ~Verified(txn[s])
  /\ Finish(s, "failure")
  /\ UNCHANGED <<db, nextId, replica, issued, losses>>

\* The connection is lost before the reply, before or after the server has
\* executed the transaction.
Lose(s) ==
  /\ txn[s] # NoTxn /\ losses < MaxLost
  /\ losses' = losses + 1
  /\ Finish(s, "failure")
  /\ \/ Verified(txn[s]) /\ Apply(txn[s])
     \/ UNCHANGED <<db, nextId>>
  /\ UNCHANGED <<replica, issued>>

\* The thread of vtysh that runs the idl, never during a command.
Refresh(s) ==
  /\ txn[s] = NoTxn
  /\ replica' = [replica EXCEPT ![s] = db]
  /\ UNCHANGED <<db, nextId, txn, result, issued, losses>>

-----------------------------------------------------------------------------

Logging(s) ==
  \E c \in Configs, last \in LastRows(replica[s]) :
    AddExisting(s, c, last) \/ Add(s, c, last)

NoLogging(s) ==
  \E c \in Configs, last \in LastRows(replica[s]) :
    RemoveNotFound(s, c, last) \/ Remove(s, c, last)

Next ==
  \E s \in Sessions :
    \/ \E c \in Configs, op \in {"add", "remove"} : Refuse(s, op, c)
    \/ Logging(s)
    \/ NoLogging(s)
    \/ Clear(s)
    \/ ClearNothing(s)
    \/ Commit(s)
    \/ Conflict(s)
    \/ Lose(s)
    \/ Refresh(s)

Spec == Init /\ [][Next]_vars

-----------------------------------------------------------------------------

\* What a configuration means: an absent column stands for its default.
Effective(c) ==
  [host |-> c.host, transport |-> Transport(c), port |-> Port(c),
   severity |-> Severity(c)]

Row == [id : Nat, host : {c.host : c \in Configs},
        transport : Transports \cup {NotGiven},
        port : Ports \cup {NotGiven},
        severity : Severities \cup {NotGiven}]

Txn == [op : {"add", "remove", "clear"}, config : Configs \cup {NotGiven},
        read : SUBSET Row, delete : SUBSET Row, insert : SUBSET Configs]

\* The variables have their types.
TypeOK ==
  /\ db \in SUBSET Row /\ nextId \in Nat
  /\ replica \in [Sessions -> SUBSET Row]
  /\ txn \in [Sessions -> Txn \cup {NoTxn}]
  /\ result \in [Sessions ->
       {NoResult} \cup [op : {"add", "remove", "clear"},
                       config : Configs \cup {NotGiven},
                       status : {"success", "warning", "failure"}]]
  /\ issued \in 0..MaxCommands /\ losses \in 0..MaxLost

\* Never more than MAX_REMOTE_SERVERS servers, whatever the sessions do
\* between the check of the limit (system_row->n_syslog_remotes) and the
\* commit.
AtMostMax == Cardinality(db) <= MaxRemoteServers

\* "Currently we support only one configuration per remote": no two rows for
\* a host, although each session replaces the row it knows.
OneRowPerHost == \A r, q \in db : r.host = q.host => r = q

\* A row a command names, up to its port, may be removed by it.
MayRemove(t, row) ==
  \/ t.op = "clear"
  \/ t.op = "add" /\ row.host = t.config.host
  \/ /\ t.op = "remove" /\ row.host = t.config.host
     /\ t.config.transport \in {NotGiven, Transport(row)}
     /\ t.config.severity \in {NotGiven, Severity(row)}

\* No lost update: a row leaves the table only with the transaction of a
\* command that names it, never because a session that did not know the row
\* wrote the column.
RemovesOnlyNamed ==
  [][\A row \in db \ db' : \E s \in Sessions :
       txn[s] # NoTxn /\ txn'[s] = NoTxn /\ MayRemove(txn[s], row)]_vars

\* "matches all the parameters provided by the user": a port that is named
\* is the port of the row `no logging' removes.
RemovesNamedPort ==
  [][\A row \in db \ db' : \E s \in Sessions :
       /\ txn[s] # NoTxn /\ txn'[s] = NoTxn
       /\ txn[s].op = "remove" =>
            txn[s].config.port \in {NotGiven, Port(row)}]_vars

\* A session has just been told that its `logging' succeeded.
ToldConfigured(s) ==
  /\ result'[s] # result[s]
  /\ result'[s].op = "add" /\ result'[s].status = "success"

\* A successful `logging' leaves its configuration, its port excepted if one
\* is given, in the table the session knows, whether an exact match made it
\* return early or it has just been committed.
SuccessMeansConfigured ==
  [][\A s \in Sessions : ToldConfigured(s) =>
       \E row \in replica'[s] :
         LET c == result'[s].config
         IN  Effective(row) = IF c.port = NotGiven
                                THEN Effective(c)
                                ELSE [Effective(c) EXCEPT !.port = Port(row)]
    ]_vars

-----------------------------------------------------------------------------
(* The inductive invariant.                                                *)

\* The rows a session knows or has read for its transaction.
Read(s) == IF txn[s] = NoTxn THEN {} ELSE txn[s].read
Known == db \cup UNION {replica[s] \cup Read(s) : s \in Sessions}

\* A uuid stands for one row for ever: equal references mean equal tables.
RowsAreUnique ==
  /\ \A r, q \in Known : r.id = q.id => r = q
  /\ \A r \in Known : r.id < nextId

\* A table the database may have had.
IsTable(rows) ==
  /\ IsFiniteSet(rows) /\ Cardinality(rows) <= MaxRemoteServers
  /\ \A r, q \in rows : r.host = q.host => r = q

TablesAreSound ==
  /\ IsTable(db)
  /\ \A s \in Sessions : IsTable(replica[s]) /\ IsTable(Read(s))

\* A transaction deletes what its command names and, when it adds, leaves
\* room for the new row and no other row of its host.
IsSound(t) ==
  /\ t.delete \subseteq t.read
  /\ \A row \in t.delete : MayRemove(t, row)
  /\ \/ /\ t.op = "add" /\ t.config \in Configs /\ t.insert = {t.config}
        /\ Cardinality(t.read \ t.delete) < MaxRemoteServers
        /\ \A row \in t.read \ t.delete : row.host # t.config.host
     \/ /\ t.op = "remove" /\ t.insert = {}
        /\ \E row \in t.read : t.delete = {row}
     \/ t.op = "clear" /\ t.insert = {} /\ t.delete = t.read

TxnsAreSound == \A s \in Sessions : txn[s] # NoTxn => IsSound(txn[s])

\* No step of any session breaks it.
IInv == TypeOK /\ RowsAreUnique /\ TablesAreSound /\ TxnsAreSound

=============================================================================
