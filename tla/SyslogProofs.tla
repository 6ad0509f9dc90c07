---------------------------- MODULE SyslogProofs ----------------------------
(***************************************************************************)
(* Proofs about SyslogRemote, for every set of sessions and of commands,   *)
(* every limit and every bound: IInv is inductive, and every transaction   *)
(* is one operation of the abstract table. The last part is about Syslog:  *)
(* the daemon does not disturb the sessions, and never sleeps on a file    *)
(* that is not the one of its rows, whatever the sessions commit, however  *)
(* often it crashes and whichever restarts of rsyslog fail.                *)
(***************************************************************************)
EXTENDS Syslog, SyslogRefinement, FiniteSetTheorems, TLAPS

Ops == {"add", "remove", "clear"}
Statuses == {"success", "warning", "failure"}

LEMMA FoundMatches ==
  ASSUME NEW table, NEW c, NEW mode, NEW last
  PROVE  /\ Found(table, c, mode, last) \subseteq table
         /\ \A row \in Found(table, c, mode, last) :
              Matches(row, c, mode, last)
BY DEF Found

\* The search finds something if anything matches.
LEMMA FoundNothing ==
  ASSUME NEW table, NEW c, NEW mode, NEW last,
         Found(table, c, mode, last) = {}
  PROVE  \A row \in table : ~Matches(row, c, mode, last)
BY DEF Found

LEMMA TxnHasOp == \A t \in Txn : t # NoTxn
<1> SUFFICES ASSUME NEW t \in Txn, t = NoTxn
             PROVE  FALSE
  OBVIOUS
<1>1. t.op \in {"add", "remove", "clear"}
  BY DEF Txn
<1>2. t.op = "none"
  BY DEF NoTxn
<1> QED
  BY <1>1, <1>2

LEMMA ReadTyped ==
  ASSUME TypeOK, NEW s \in Sessions, txn[s] # NoTxn
  PROVE  txn[s] \in Txn
BY DEF TypeOK

LEMMA InitInv == Init => IInv
<1> SUFFICES ASSUME Init
             PROVE  IInv
  OBVIOUS
<1> USE DEF Init
<1>1. TypeOK
  BY ConstantsAssumption DEF TypeOK, ConstantsAssumption
<1>2. Known = {}
  BY DEF Known, Read
<1>3. IsTable({})
  BY FS_EmptySet, ConstantsAssumption DEF IsTable, ConstantsAssumption
<1>4. TablesAreSound /\ TxnsAreSound
  BY <1>3 DEF TablesAreSound, TxnsAreSound, Read
<1> QED
  BY <1>1, <1>2, <1>4 DEF IInv, RowsAreUnique

-----------------------------------------------------------------------------
(* The steps of a session.                                                 *)

LEMMA ReturnStep ==
  ASSUME IInv, issued < MaxCommands,
         NEW s \in Sessions, NEW op \in Ops,
         NEW c \in Configs \cup {NotGiven}, NEW status \in Statuses,
         Return(s, op, c, status)
  PROVE  IInv'
<1> USE DEF IInv
<1>1. TypeOK'
  BY ConstantsAssumption
  DEF TypeOK, Return, Ops, Statuses, ConstantsAssumption
<1>2. UNCHANGED <<db, nextId, replica, txn>>
  BY DEF Return
<1>3. RowsAreUnique'
  BY <1>2 DEF RowsAreUnique, Known, Read
<1>4. TablesAreSound' /\ TxnsAreSound'
  BY <1>2 DEF TablesAreSound, TxnsAreSound, Read
<1> QED
  BY <1>1, <1>3, <1>4

LEMMA SendStep ==
  ASSUME IInv, issued < MaxCommands, NEW s \in Sessions, txn[s] = NoTxn,
         NEW op \in Ops, NEW c \in Configs \cup {NotGiven},
         NEW delete \in SUBSET replica[s], NEW insert \in SUBSET Configs,
         IsSound([op |-> op, config |-> c, read |-> replica[s],
                  delete |-> delete, insert |-> insert]),
         Send(s, op, c, delete, insert)
  PROVE  IInv'
<1> DEFINE t == [op |-> op, config |-> c, read |-> replica[s],
                 delete |-> delete, insert |-> insert]
<1> USE DEF IInv
<1>1. txn' = [txn EXCEPT ![s] = t] /\ issued' = issued + 1
      /\ UNCHANGED <<db, nextId, replica, result, losses>>
  BY DEF Send
<1>2. t \in Txn
  BY DEF Txn, TypeOK, Ops
<1> HIDE DEF t
<1>3. TypeOK'
  BY <1>1, <1>2, ConstantsAssumption DEF TypeOK, ConstantsAssumption
<1>4. t.read = replica[s]
  BY DEF t
<1>5. \A z \in Sessions : txn'[z] = IF z = s THEN t ELSE txn[z]
  BY <1>1 DEF TypeOK
<1>6. \A z \in Sessions : Read(z)' = IF z = s THEN replica[s] ELSE Read(z)
  BY <1>2, <1>4, <1>5, TxnHasOp DEF Read
<1>7. Known' \subseteq Known
  BY <1>1, <1>6 DEF Known
<1>8. RowsAreUnique'
  BY <1>1, <1>7 DEF RowsAreUnique
<1>9. TablesAreSound'
  BY <1>1, <1>6 DEF TablesAreSound
<1>10. IsSound(t)
  BY DEF t
<1>11. TxnsAreSound'
  BY <1>5, <1>10 DEF TxnsAreSound
<1> QED
  BY <1>3, <1>8, <1>9, <1>11

\* The rows that the verified column refers to are those that were read.
LEMMA VerifiedIsCurrent ==
  ASSUME IInv, NEW s \in Sessions, txn[s] # NoTxn, Verified(txn[s])
  PROVE  txn[s].read = db
<1>1. Read(s) = txn[s].read
  BY DEF Read
<1>2. db \subseteq Known /\ txn[s].read \subseteq Known
  BY <1>1 DEF Known
<1>3. \A r \in db : \E q \in txn[s].read : r.id = q.id
  BY DEF Verified, Refs
<1>4. \A r \in txn[s].read : \E q \in db : r.id = q.id
  BY DEF Verified, Refs
<1>5. \A r, q \in Known : r.id = q.id => r = q
  BY DEF IInv, RowsAreUnique
<1>6. ASSUME NEW r \in db
      PROVE  r \in txn[s].read
  <2>1. PICK q \in txn[s].read : r.id = q.id
    BY <1>3
  <2> QED
    BY <2>1, <1>2, <1>5
<1>7. ASSUME NEW r \in txn[s].read
      PROVE  r \in db
  <2>1. PICK q \in db : r.id = q.id
    BY <1>4
  <2> QED
    BY <2>1, <1>2, <1>5
<1> QED
  BY <1>6, <1>7

\* What the server's execution of a transaction makes of the table.
LEMMA ApplySound ==
  ASSUME IInv, NEW s \in Sessions, txn[s] # NoTxn, Verified(txn[s]),
         Apply(txn[s])
  PROVE  /\ db' \in SUBSET Row /\ nextId' = nextId + 1
         /\ IsTable(db')
         /\ \A r \in db' : r \in db \/ r.id = nextId
         /\ \A r, q \in db' : r \notin db /\ q \notin db => r = q
<1> DEFINE t == txn[s]
           rest == t.read \ t.delete
<1>1. t \in Txn /\ IsSound(t)
  BY ReadTyped DEF IInv, TxnsAreSound
<1>2. t.read = db
  BY VerifiedIsCurrent
<1>3. db' = rest \cup {NewRow(c) : c \in t.insert} /\ nextId' = nextId + 1
  BY DEF Apply
<1>4. rest \subseteq db /\ IsTable(db) /\ db \in SUBSET Row
  BY <1>2 DEF IInv, TablesAreSound, TypeOK
<1>5. IsTable(rest)
  BY <1>4, FS_Subset, FS_CardinalityType, ConstantsAssumption
  DEF IsTable, ConstantsAssumption
<1>6. CASE t.insert = {}
  <2>1. db' = rest
    BY <1>3, <1>6
  <2> QED
    BY <2>1, <1>3, <1>4, <1>5
<1>7. CASE t.op = "add" /\ t.insert = {t.config} /\ t.config \in Configs
           /\ Cardinality(rest) < MaxRemoteServers
           /\ \A row \in rest : row.host # t.config.host
  <2> DEFINE new == NewRow(t.config)
  <2>1. db' = rest \cup {new}
    BY <1>3, <1>7
  <2>2. new.id = nextId /\ new.host = t.config.host
    BY DEF NewRow
  <2>3. t.config \in Config
    BY <1>7, ConstantsAssumption DEF ConstantsAssumption
  <2>4. new \in Row
    BY <2>3, <1>7 DEF NewRow, Row, Config, IInv, TypeOK
  <2>5. IsFiniteSet(db') /\ Cardinality(db') <= MaxRemoteServers
    <3>1. IsFiniteSet(rest)
      BY <1>5 DEF IsTable
    <3>2. Cardinality(rest) \in Nat
      BY <3>1, FS_CardinalityType
    <3>3. new \notin rest
      BY <1>7, <2>2
    <3>4. IsFiniteSet(rest \cup {new})
          /\ Cardinality(rest \cup {new}) = Cardinality(rest) + 1
      BY <3>1, <3>3, FS_AddElement
    <3> QED
      BY <2>1, <3>2, <3>4, <1>7, ConstantsAssumption
      DEF ConstantsAssumption
  <2>6. \A r, q \in db' : r.host = q.host => r = q
    BY <1>5, <1>7, <2>1, <2>2 DEF IsTable
  <2>7. IsTable(db')
    BY <2>5, <2>6 DEF IsTable
  <2> QED
    BY <2>1, <2>2, <2>4, <2>7, <1>3, <1>4
<1> QED
  BY <1>1, <1>6, <1>7 DEF IsSound

LEMMA FinishTyped ==
  ASSUME IInv, NEW s \in Sessions, txn[s] # NoTxn,
         NEW status \in Statuses, Finish(s, status)
  PROVE  /\ txn' \in [Sessions -> Txn \cup {NoTxn}]
         /\ result' \in [Sessions ->
              {NoResult} \cup [op : Ops, config : Configs \cup {NotGiven},
                               status : Statuses]]
         /\ \A z \in Sessions : txn'[z] = IF z = s THEN NoTxn ELSE txn[z]
<1>1. txn[s] \in Txn
  BY ReadTyped DEF IInv
<1>2. txn[s].op \in Ops /\ txn[s].config \in Configs \cup {NotGiven}
  BY <1>1 DEF Txn, Ops
<1> QED
  BY <1>2 DEF Finish, IInv, TypeOK, Ops, Statuses

\* The step by which the database changes, seen by a session that learns the
\* new table or not.
LEMMA ApplyStep ==
  ASSUME IInv, NEW s \in Sessions, txn[s] # NoTxn, Verified(txn[s]),
         Apply(txn[s]), NEW status \in Statuses, Finish(s, status),
         \/ replica' = replica
         \/ replica' = [replica EXCEPT ![s] = db'],
         issued' = issued, losses' \in 0..MaxLost
  PROVE  IInv'
<1>1. /\ db' \in SUBSET Row /\ nextId' = nextId + 1 /\ IsTable(db')
      /\ \A r \in db' : r \in db \/ r.id = nextId
      /\ \A r, q \in db' : r \notin db /\ q \notin db => r = q
  BY ApplySound
<1>2. /\ txn' \in [Sessions -> Txn \cup {NoTxn}]
      /\ result' \in [Sessions ->
           {NoResult} \cup [op : Ops, config : Configs \cup {NotGiven},
                            status : Statuses]]
      /\ \A z \in Sessions : txn'[z] = IF z = s THEN NoTxn ELSE txn[z]
  BY FinishTyped
<1>3. /\ replica' \in [Sessions -> SUBSET Row]
      /\ \A z \in Sessions : replica'[z] \in {replica[z], db'}
  BY <1>1 DEF IInv, TypeOK
<1>4. TypeOK'
  BY <1>1, <1>2, <1>3 DEF IInv, TypeOK, Ops, Statuses
<1>5. \A z \in Sessions : Read(z)' \in {Read(z), {}}
  BY <1>2 DEF Read
<1>6. Known' \subseteq Known \cup db'
  BY <1>3, <1>5 DEF Known
<1>7. \A r \in Known : r.id < nextId /\ r.id \in Nat
  <2>1. \A z \in Sessions : Read(z) \subseteq Row
    BY ReadTyped DEF IInv, Read, Txn
  <2>2. Known \subseteq Row
    BY <2>1 DEF Known, IInv, TypeOK
  <2> QED
    BY <2>2 DEF IInv, RowsAreUnique, Row
<1>8. \A r \in Known' : r \in Known \/ (r \in db' /\ r \notin db
                                        /\ r.id = nextId)
  BY <1>1, <1>6 DEF Known
<1>9. RowsAreUnique'
  <2>1. \A r, q \in Known : r.id = q.id => r = q
    BY DEF IInv, RowsAreUnique
  <2>2. nextId \in Nat
    BY DEF IInv, TypeOK
  <2>3. \A r, q \in Known' : r.id = q.id => r = q
    BY <1>1, <1>7, <1>8, <2>1, <2>2
  <2>4. \A r \in Known' : r.id < nextId'
    BY <1>1, <1>7, <1>8, <2>2
  <2> QED
    BY <2>3, <2>4 DEF RowsAreUnique
<1>10. IsTable({})
  BY FS_EmptySet, ConstantsAssumption DEF IsTable, ConstantsAssumption
<1>11. TablesAreSound'
  BY <1>1, <1>3, <1>5, <1>10 DEF IInv, TablesAreSound
<1>12. TxnsAreSound'
  BY <1>2 DEF IInv, TxnsAreSound
<1> QED
  BY <1>4, <1>9, <1>11, <1>12 DEF IInv

LEMMA ConflictStep ==
  ASSUME IInv, NEW s \in Sessions, txn[s] # NoTxn,
         NEW status \in Statuses, Finish(s, status),
         UNCHANGED <<db, nextId, replica, issued>>, losses' \in 0..MaxLost
  PROVE  IInv'
<1>1. /\ txn' \in [Sessions -> Txn \cup {NoTxn}]
      /\ result' \in [Sessions ->
           {NoResult} \cup [op : Ops, config : Configs \cup {NotGiven},
                            status : Statuses]]
      /\ \A z \in Sessions : txn'[z] = IF z = s THEN NoTxn ELSE txn[z]
  BY FinishTyped
<1>2. TypeOK'
  BY <1>1 DEF IInv, TypeOK, Ops, Statuses
<1>3. \A z \in Sessions : Read(z)' \in {Read(z), {}}
  BY <1>1 DEF Read
<1>4. Known' \subseteq Known
  BY <1>3 DEF Known
<1>5. RowsAreUnique'
  BY <1>4 DEF IInv, RowsAreUnique
<1>6. IsTable({})
  BY FS_EmptySet, ConstantsAssumption DEF IsTable, ConstantsAssumption
<1>7. TablesAreSound'
  BY <1>3, <1>6 DEF IInv, TablesAreSound
<1>8. TxnsAreSound'
  BY <1>1 DEF IInv, TxnsAreSound
<1> QED
  BY <1>2, <1>5, <1>7, <1>8 DEF IInv

LEMMA RefreshStep ==
  ASSUME IInv, NEW s \in Sessions, Refresh(s)
  PROVE  IInv'
<1>1. /\ replica' \in [Sessions -> SUBSET Row]
      /\ \A z \in Sessions : replica'[z] \in {replica[z], db}
      /\ UNCHANGED <<db, nextId, txn, result, issued, losses>>
  BY DEF Refresh, IInv, TypeOK
<1>2. TypeOK'
  BY <1>1 DEF IInv, TypeOK
<1>3. \A z \in Sessions : Read(z)' = Read(z)
  BY <1>1 DEF Read
<1>4. Known' \subseteq Known
  BY <1>1, <1>3 DEF Known
<1>5. RowsAreUnique'
  BY <1>1, <1>4 DEF IInv, RowsAreUnique
<1>6. TablesAreSound'
  BY <1>1, <1>3 DEF IInv, TablesAreSound
<1>7. TxnsAreSound'
  BY <1>1 DEF IInv, TxnsAreSound
<1> QED
  BY <1>2, <1>5, <1>6, <1>7 DEF IInv

\* The transaction of a session at its prompt: what `logging' deletes.
LEMMA AddStep ==
  ASSUME IInv, NEW s \in Sessions, NEW c \in Configs, NEW last,
         Add(s, c, last)
  PROVE  IInv'
<1> DEFINE found == Replaced(replica[s], c, last)
<1>1. /\ txn[s] = NoTxn /\ issued < MaxCommands
      /\ \E delete \in IF found = {} THEN {{}} ELSE {{row} : row \in found} :
           IF LimitReached(replica[s] \ delete)
             THEN Return(s, "add", c, "warning")
             ELSE Send(s, "add", c, delete, {c})
  BY DEF Add, Ready
<1>2. PICK delete \in IF found = {} THEN {{}} ELSE {{row} : row \in found} :
        IF LimitReached(replica[s] \ delete)
          THEN Return(s, "add", c, "warning")
          ELSE Send(s, "add", c, delete, {c})
  BY <1>1
<1>3. CASE LimitReached(replica[s] \ delete)
  BY <1>1, <1>2, <1>3, ReturnStep DEF Ops, Statuses
<1>4. CASE ~LimitReached(replica[s] \ delete)
  <2>1. IsTable(replica[s])
    BY DEF IInv, TablesAreSound
  <2>2. found \subseteq replica[s] /\ \A row \in found : row.host = c.host
    BY FoundMatches DEF Replaced, Matches
  <2>3. delete \subseteq replica[s] /\ \A row \in delete : row.host = c.host
    BY <1>2, <2>2
  <2>4. \A row \in replica[s] \ delete : row.host # c.host
    <3>1. CASE found = {}
      BY <3>1, FoundNothing DEF Replaced, Matches
    <3>2. CASE found # {}
      <4>1. PICK row \in found : delete = {row}
        BY <1>2, <3>2
      <4> QED
        BY <4>1, <2>1, <2>2 DEF IsTable
    <3> QED
      BY <3>1, <3>2
  <2>5. Cardinality(replica[s] \ delete) < MaxRemoteServers
    <3>1. IsFiniteSet(replica[s] \ delete)
      BY <2>1, FS_Subset DEF IsTable
    <3>2. Cardinality(replica[s] \ delete) \in Nat
      BY <3>1, FS_CardinalityType
    <3> QED
      BY <1>4, <3>2, ConstantsAssumption
      DEF LimitReached, ConstantsAssumption
  <2>6. IsSound([op |-> "add", config |-> c, read |-> replica[s],
                 delete |-> delete, insert |-> {c}])
    BY <2>3, <2>4, <2>5 DEF IsSound, MayRemove
  <2>7. Send(s, "add", c, delete, {c})
    BY <1>2, <1>4
  <2> QED
    BY <1>1, <2>3, <2>6, <2>7, SendStep DEF Ops
<1> QED
  BY <1>3, <1>4

LEMMA RemoveStep ==
  ASSUME IInv, NEW s \in Sessions, NEW c \in Configs, NEW last,
         Remove(s, c, last)
  PROVE  IInv'
<1>1. txn[s] = NoTxn /\ issued < MaxCommands
  BY DEF Remove, Ready
<1>2. PICK row \in Found(replica[s], c, "similar", last) :
        Send(s, "remove", c, {row}, {})
  BY DEF Remove
<1>3. row \in replica[s] /\ Matches(row, c, "similar", last)
  BY <1>2, FoundMatches
<1>4. /\ row.host = c.host
      /\ c.transport \in {NotGiven, Transport(row)}
      /\ c.severity \in {NotGiven, Severity(row)}
  BY <1>3 DEF Matches, TransportMatches, SeverityMatches
<1>5. IsSound([op |-> "remove", config |-> c, read |-> replica[s],
               delete |-> {row}, insert |-> {}])
  BY <1>3, <1>4 DEF IsSound, MayRemove
<1> QED
  BY <1>1, <1>2, <1>3, <1>5, SendStep DEF Ops

LEMMA ClearStep ==
  ASSUME IInv, NEW s \in Sessions, Clear(s)
  PROVE  IInv'
<1>1. txn[s] = NoTxn /\ issued < MaxCommands
      /\ Send(s, "clear", NotGiven, replica[s], {})
  BY DEF Clear, Ready
<1>2. IsSound([op |-> "clear", config |-> NotGiven, read |-> replica[s],
               delete |-> replica[s], insert |-> {}])
  BY DEF IsSound, MayRemove
<1> QED
  BY <1>1, <1>2, SendStep DEF Ops

LEMMA CommitStep ==
  ASSUME IInv, NEW s \in Sessions,
         Commit(s) \/ Conflict(s) \/ Lose(s)
  PROVE  IInv'
<1>1. CASE Commit(s)
  BY <1>1, ApplyStep DEF Commit, Statuses, IInv, TypeOK
<1>2. CASE Conflict(s)
  BY <1>2, ConflictStep DEF Conflict, Statuses, IInv, TypeOK
<1>3. CASE Lose(s)
  <2>1. losses' \in 0..MaxLost
    BY <1>3, ConstantsAssumption
    DEF Lose, IInv, TypeOK, ConstantsAssumption
  <2>2. CASE Verified(txn[s]) /\ Apply(txn[s])
    BY <1>3, <2>1, <2>2, ApplyStep DEF Lose, Statuses
  <2>3. CASE UNCHANGED <<db, nextId>>
    BY <1>3, <2>1, <2>3, ConflictStep DEF Lose, Statuses
  <2> QED
    BY <1>3, <2>2, <2>3 DEF Lose
<1> QED
  BY <1>1, <1>2, <1>3

LEMMA RefuseStep ==
  ASSUME IInv, NEW s \in Sessions, NEW c \in Configs,
         NEW last, NEW op \in {"add", "remove"},
         \/ Refuse(s, op, c) \/ AddExisting(s, c, last)
         \/ RemoveNotFound(s, c, last) \/ ClearNothing(s)
  PROVE  IInv'
BY ReturnStep DEF Refuse, AddExisting, RemoveNotFound, ClearNothing, Ready,
                  Ops, Statuses

LEMMA NextInv == IInv /\ [Next]_vars => IInv'
<1> SUFFICES ASSUME IInv, [Next]_vars
             PROVE  IInv'
  OBVIOUS
<1>1. CASE UNCHANGED vars
  BY <1>1 DEF vars, IInv, TypeOK, RowsAreUnique, Known, Read, TablesAreSound,
              TxnsAreSound
<1>2. ASSUME NEW s \in Sessions, Logging(s)
      PROVE  IInv'
  BY <1>2, AddStep, RefuseStep DEF Logging
<1>3. ASSUME NEW s \in Sessions, NoLogging(s)
      PROVE  IInv'
  BY <1>3, RemoveStep, RefuseStep DEF NoLogging
<1>4. ASSUME NEW s \in Sessions, NEW c \in Configs,
             NEW op \in {"add", "remove"}, Refuse(s, op, c)
      PROVE  IInv'
  BY <1>4, RefuseStep
<1>5. ASSUME NEW s \in Sessions, ClearNothing(s)
      PROVE  IInv'
  BY <1>5, ReturnStep DEF ClearNothing, Ready, Ops, Statuses
<1> QED
  BY <1>1, <1>2, <1>3, <1>4, <1>5, ClearStep, CommitStep, RefreshStep
  DEF Next

-----------------------------------------------------------------------------
(* The theorems.                                                           *)

\* The invariant holds for every number of sessions, commands and servers.
THEOREM Invariance == Spec => []IInv
BY InitInv, NextInv, PTL DEF Spec

\* Every variable of every session keeps its type.
THEOREM TypeCorrect == Spec => []TypeOK
BY Invariance, PTL DEF IInv

\* cli_syslog_config never lets the table grow past MAX_REMOTE_SERVERS,
\* however many sessions check the limit at the same time.
THEOREM LimitCorrect == Spec => []AtMostMax
<1>1. IInv => AtMostMax
  BY DEF IInv, TablesAreSound, IsTable, AtMostMax
<1> QED
  BY <1>1, Invariance, PTL

\* cli_syslog_config keeps one configuration per remote host.
THEOREM OneRowCorrect == Spec => []OneRowPerHost
<1>1. IInv => OneRowPerHost
  BY DEF IInv, TablesAreSound, IsTable, OneRowPerHost
<1> QED
  BY <1>1, Invariance, PTL

\* The steps that execute a transaction.
Executes(s) ==
  /\ txn[s] # NoTxn /\ txn'[s] = NoTxn
  /\ Verified(txn[s]) /\ Apply(txn[s])

\* Nothing else changes the table.
LEMMA OnlyTransactions ==
  ASSUME IInv, [Next]_vars
  PROVE  UNCHANGED db \/ \E s \in Sessions : Executes(s)
<1>1. CASE UNCHANGED vars
  BY <1>1 DEF vars
<1>2. ASSUME NEW s \in Sessions, Commit(s) \/ Lose(s)
      PROVE  UNCHANGED db \/ Executes(s)
  BY <1>2 DEF Commit, Lose, Finish, Executes, IInv, TypeOK
<1>3. ASSUME NEW s \in Sessions, NEW c \in Configs, NEW last,
             Add(s, c, last)
      PROVE  UNCHANGED db
  BY <1>3 DEF Add, Return, Send
<1>4. ASSUME NEW s \in Sessions, NEW c \in Configs, NEW last,
             \/ AddExisting(s, c, last) \/ RemoveNotFound(s, c, last)
             \/ Remove(s, c, last)
      PROVE  UNCHANGED db
  BY <1>4 DEF AddExisting, RemoveNotFound, Remove, Return, Send
<1>5. ASSUME NEW s \in Sessions,
             \/ \E c \in Configs, op \in {"add", "remove"} : Refuse(s, op, c)
             \/ Clear(s) \/ ClearNothing(s) \/ Conflict(s) \/ Refresh(s)
      PROVE  UNCHANGED db
  BY <1>5 DEF Refuse, Clear, ClearNothing, Conflict, Refresh, Return, Send
<1> QED
  BY <1>1, <1>2, <1>3, <1>4, <1>5 DEF Next, Logging, NoLogging

\* No lost update: the table loses a row only to the transaction of a
\* command that names it.
THEOREM NoLostUpdate == Spec => RemovesOnlyNamed
<1> DEFINE Named == \A row \in db \ db' : \E s \in Sessions :
             txn[s] # NoTxn /\ txn'[s] = NoTxn /\ MayRemove(txn[s], row)
<1>1. ASSUME IInv, [Next]_vars
      PROVE  Named
  <2>1. ASSUME NEW s \in Sessions, Executes(s), NEW row \in db \ db'
        PROVE  MayRemove(txn[s], row)
    <3>1. txn[s].read = db
      BY <2>1, <1>1, VerifiedIsCurrent DEF Executes
    <3>2. row \in txn[s].delete
      BY <2>1, <3>1 DEF Executes, Apply
    <3> QED
      BY <1>1, <2>1, <3>2 DEF Executes, IInv, TxnsAreSound, IsSound
  <2>2. CASE UNCHANGED db
    BY <2>2
  <2>3. CASE \E s \in Sessions : Executes(s)
    BY <2>1, <2>3 DEF Executes
  <2> QED
    BY <1>1, <2>2, <2>3, OnlyTransactions
<1> QED
  BY <1>1, Invariance, PTL DEF Spec, RemovesOnlyNamed

-----------------------------------------------------------------------------
(* The refinement.                                                         *)

\* A new row means what its command means.
LEMMA NewRowMeans ==
  ASSUME NEW c
  PROVE  Effective(NewRow(c)) = Effective(c)
BY DEF Effective, NewRow, Transport, Port, Severity

LEMMA EffectiveHost == \A c : Effective(c).host = c.host
BY DEF Effective

\* SyslogTable's copy of the operator of FiniteSets.
LEMMA SameCardinality == \A S : Table!Cardinality(S) = Cardinality(S)
BY DEF Table!Cardinality, Cardinality, Table!IsFiniteSet, IsFiniteSet

\* One transaction is one operation of the table.
LEMMA ExecutesOne ==
  ASSUME IInv, NEW s \in Sessions, Executes(s)
  PROVE  Table!Next
<1> DEFINE t == txn[s]
           table == {Effective(row) : row \in db}
<1>1. t \in Txn /\ IsSound(t) /\ t.read = db
  BY ReadTyped, VerifiedIsCurrent DEF Executes, IInv, TxnsAreSound
<1>2. db' = (db \ t.delete) \cup {NewRow(c) : c \in t.insert}
  BY <1>1 DEF Executes, Apply
<1>3. IsTable(db) /\ IsTable(db')
  BY ApplySound DEF Executes, IInv, TablesAreSound
<1>4. CASE t.op = "add" /\ t.config \in Configs /\ t.insert = {t.config}
           /\ \A row \in db \ t.delete : row.host # t.config.host
  <2> DEFINE server == Effective(t.config)
  <2>1. \A row \in t.delete : row \in db /\ row.host = t.config.host
    BY <1>1, <1>4 DEF IsSound, MayRemove
  <2>2. table' = {Effective(row) : row \in db \ t.delete} \cup {server}
    BY <1>2, <1>4, NewRowMeans
  <2>3. {Effective(row) : row \in db \ t.delete}
          = {e \in table : e.host # server.host}
    <3>1. db \ t.delete = {row \in db : row.host # t.config.host}
      BY <1>4, <2>1
    <3> QED
      BY <3>1, EffectiveHost
  <2>4. Cardinality(table') <= MaxRemoteServers
    <3> DEFINE means == [row \in db' |-> Effective(row)]
    <3>0. means \in Surjection(db', table')
      BY DEF Surjection
    <3>1. IsFiniteSet(table') /\ Cardinality(table') <= Cardinality(db')
      BY <1>3, <3>0, FS_Surjection DEF IsTable
    <3> QED
      BY <1>3, <3>1, FS_CardinalityType, ConstantsAssumption
      DEF IsTable, ConstantsAssumption
  <2>5. Table!Configure(server)
    BY <2>2, <2>3, <2>4, SameCardinality DEF Table!Configure
  <2> QED
    BY <2>5, <1>4 DEF Table!Next
<1>5. CASE t.op = "remove" /\ t.insert = {}
           /\ \E row \in t.read : t.delete = {row}
  <2>1. PICK row \in db : t.delete = {row}
    BY <1>1, <1>5
  <2>2. db' = db \ {row}
    BY <1>2, <1>5, <2>1
  <2>3. \A r \in db \ {row} : Effective(r) # Effective(row)
    BY <1>3, EffectiveHost DEF IsTable
  <2>4. table' = table \ {Effective(row)}
    BY <2>2, <2>3
  <2>5. Table!Unconfigure(Effective(row))
    BY <2>1, <2>4 DEF Table!Unconfigure
  <2> QED
    BY <2>1, <2>5 DEF Table!Next
<1>6. CASE t.op = "clear" /\ t.insert = {} /\ t.delete = t.read
  BY <1>1, <1>2, <1>6 DEF Table!Next, Table!Clear
<1> QED
  BY <1>1, <1>4, <1>5, <1>6 DEF IsSound

\* Sessions that work on replicas that may be out of date, whose commits
\* collide and whose replies get lost act on the table like one user.
THEOREM Refinement == Spec => ImplementsTable
<1>1. Init => Table!Init
  BY DEF Init, Table!Init
<1>2. ASSUME IInv, [Next]_vars
      PROVE  [Table!Next]_{Effective(row) : row \in db}
  BY <1>2, OnlyTransactions, ExecutesOne
<1> QED
  BY <1>1, <1>2, Invariance, PTL DEF Spec, ImplementsTable, Table!Spec

-----------------------------------------------------------------------------
(* What a session is told.                                                 *)

\* An exact match means what the command means, its port excepted.
LEMMA ExactMeans ==
  ASSUME NEW c \in Configs, NEW row, NEW last,
         Matches(row, c, "exact", last)
  PROVE  Effective(row) = IF c.port = NotGiven
                            THEN Effective(c)
                            ELSE [Effective(c) EXCEPT !.port = Port(row)]
<1>1. row.host = c.host
  BY DEF Matches
<1>2. Transport(row) = Transport(c)
  BY DEF Matches, TransportMatches, Transport
<1>3. Severity(row) = Severity(c)
  BY DEF Matches, SeverityMatches, Severity
<1>4. c.port = NotGiven => Port(row) = Port(c)
  BY <1>2 DEF Matches, PortMatches, Port
<1> QED
  BY <1>1, <1>2, <1>3, <1>4 DEF Effective

\* Only two steps tell a session that its `logging' succeeded.
LEMMA ToldBy ==
  ASSUME IInv, [Next]_vars, NEW s \in Sessions, ToldConfigured(s)
  PROVE  \/ Commit(s)
         \/ \E c \in Configs, last \in LastRows(replica[s]) :
              AddExisting(s, c, last)
<1>1. CASE UNCHANGED vars
  BY <1>1 DEF vars, ToldConfigured
<1>2. ASSUME NEW z, NEW op, NEW c, NEW status, Return(z, op, c, status)
      PROVE  z = s /\ op = "add" /\ status = "success"
  BY <1>2 DEF Return, ToldConfigured, IInv, TypeOK
<1>3. ASSUME NEW z, NEW status, Finish(z, status)
      PROVE  z = s /\ status = "success"
  BY <1>3 DEF Finish, ToldConfigured, IInv, TypeOK
<1>4. ASSUME NEW z, NEW op, NEW c, NEW delete, NEW insert,
             Send(z, op, c, delete, insert)
      PROVE  FALSE
  BY <1>4 DEF Send, ToldConfigured
<1>5. ASSUME NEW z, Refresh(z)
      PROVE  FALSE
  BY <1>5 DEF Refresh, ToldConfigured
<1>6. ASSUME NEW z \in Sessions, NEW c \in Configs, NEW last,
             Add(z, c, last)
      PROVE  FALSE
  BY <1>2, <1>4, <1>6 DEF Add
<1>7. ASSUME NEW z \in Sessions, NEW c \in Configs, NEW last,
             AddExisting(z, c, last)
      PROVE  z = s
  BY <1>2, <1>7 DEF AddExisting
<1>8. ASSUME NEW z \in Sessions, NEW c \in Configs, NEW last,
             RemoveNotFound(z, c, last) \/ Remove(z, c, last)
      PROVE  FALSE
  <2>1. CASE RemoveNotFound(z, c, last)
    BY <1>2, <2>1 DEF RemoveNotFound
  <2>2. CASE Remove(z, c, last)
    <3>1. PICK row : Send(z, "remove", c, {row}, {})
      BY <2>2 DEF Remove
    <3> QED
      BY <3>1, <1>4
  <2> QED
    BY <1>8, <2>1, <2>2
<1>9. ASSUME NEW z \in Sessions,
             \/ \E c \in Configs, op \in {"add", "remove"} : Refuse(z, op, c)
             \/ Clear(z) \/ ClearNothing(z)
      PROVE  FALSE
  BY <1>2, <1>4, <1>9 DEF Refuse, Clear, ClearNothing
<1>10. ASSUME NEW z \in Sessions, Conflict(z) \/ Lose(z)
       PROVE  FALSE
  BY <1>3, <1>10 DEF Conflict, Lose
<1>11. ASSUME NEW z \in Sessions, Commit(z)
       PROVE  z = s
  BY <1>3, <1>11 DEF Commit
<1> QED
  BY <1>1, <1>5, <1>6, <1>7, <1>8, <1>9, <1>10, <1>11
  DEF Next, Logging, NoLogging

\* A session that is told `logging' succeeded knows a row with its
\* configuration, up to a port that it names.
THEOREM SuccessCorrect == Spec => SuccessMeansConfigured
<1> DEFINE UpToPort(row, c) ==
             Effective(row) = IF c.port = NotGiven
                                THEN Effective(c)
                                ELSE [Effective(c) EXCEPT !.port = Port(row)]
           Told == \A s \in Sessions : ToldConfigured(s) =>
             \E row \in replica'[s] : UpToPort(row, result'[s].config)
<1>1. ASSUME IInv, [Next]_vars, NEW s \in Sessions, ToldConfigured(s)
      PROVE  \E row \in replica'[s] : UpToPort(row, result'[s].config)
  <2>1. ASSUME NEW c \in Configs, NEW last, AddExisting(s, c, last)
        PROVE  \E row \in replica'[s] : UpToPort(row, result'[s].config)
    <3>1. PICK row \in Found(replica[s], c, "exact", last) : TRUE
      BY <2>1 DEF AddExisting
    <3>2. row \in replica[s] /\ UpToPort(row, c)
      BY <3>1, FoundMatches, ExactMeans
    <3>3. replica' = replica /\ result'[s].config = c
      BY <1>1, <2>1 DEF AddExisting, Return, IInv, TypeOK
    <3> QED
      BY <3>2, <3>3
  <2>2. CASE Commit(s)
    <3> DEFINE c == txn[s].config
    <3>1. result'[s].op = txn[s].op /\ result'[s].config = c
          /\ replica'[s] = db'
      BY <1>1, <2>2 DEF Commit, Finish, IInv, TypeOK
    <3>2. txn[s].op = "add"
      BY <1>1, <3>1 DEF ToldConfigured
    <3>3. txn[s].insert = {c}
      BY <1>1, <2>2, <3>2 DEF Commit, IInv, TxnsAreSound, IsSound
    <3>4. NewRow(c) \in db'
      BY <2>2, <3>3 DEF Commit, Apply
    <3>5. Effective(NewRow(c)) = Effective(c)
      BY NewRowMeans
    <3>6. UpToPort(NewRow(c), c)
      BY <3>5 DEF Effective
    <3> QED
      BY <3>1, <3>4, <3>6
  <2> QED
    BY <1>1, <2>1, <2>2, ToldBy
<1>2. IInv /\ [Next]_vars => Told
  BY <1>1
<1> QED
  BY <1>2, Invariance, PTL DEF Spec, SuccessMeansConfigured

-----------------------------------------------------------------------------
(* The daemon beside the sessions.                                         *)

\* The daemon only reads the table: seen from the sessions it is not there, and
\* what SyslogProofs shows of them holds in the whole.
THEOREM DaemonOnlyReads == SysSpec => Spec
<1>1. SysInit => Init
  BY DEF SysInit
<1>2. [SysNext]_<<vars, dvars>> => [Next]_vars
  BY DEF SysNext
<1> QED
  BY <1>1, <1>2, PTL DEF SysSpec, Spec

\* The limit of cli_syslog_config holds beside the daemon.
THEOREM LimitBesideDaemon == SysSpec => []AtMostMax
BY DaemonOnlyReads, LimitCorrect, PTL

-----------------------------------------------------------------------------
(* The invariant: rsyslog has read the file, or a restart was lost, except  *)
(* while the daemon rewrites the file or there has never been one; and the  *)
(* file is that of the rows once the first monitor request was answered and *)
(* the daemon has been through its loop.                                    *)

Places == {"run", "compare", "copy", "copying", "restart", "poll", "down"}

Settled == etc = Daemon!Lines

Followed ==
  /\ pc \in {"run", "compare", "poll", "copy", "down"} =>
       running = etc \/ lost \/ etc = NoFile
  /\ pc \in {"run", "poll"} /\ monitor # "first" => Settled
  /\ pc = "restart" => Settled
  /\ pc \in {"compare", "copy", "copying", "restart"} => monitor = "answered"

FollowInv ==
  /\ pc \in Places /\ lost \in BOOLEAN
  /\ rows \subseteq Row
  /\ Followed

LEMMA LinesTyped ==
  ASSUME rows \subseteq Row
  PROVE  Daemon!Lines # NoFile
<1>1. ASSUME NEW row \in Row
      PROVE  Daemon!Line(row) \in LineSet
  <2>1. /\ row.host \in {c.host : c \in Configs}
        /\ row.transport \in Transports \cup {NotGiven}
        /\ row.port \in Ports \cup {NotGiven}
        /\ row.severity \in Severities \cup {NotGiven}
    BY <1>1 DEF Row
  <2> DEFINE t == IF row.transport = NotGiven THEN "udp" ELSE row.transport
             p == IF row.port # NotGiven THEN row.port
                  ELSE IF t = "udp" THEN 514 ELSE 1470
             v == IF row.severity = NotGiven THEN "info" ELSE row.severity
  <2>2. t \in Transports /\ p \in Ports /\ v \in Severities
    <3>1. t \in Transports
      BY <2>1, ConstantsAssumption DEF ConstantsAssumption
    <3>2. p \in Ports
      <4> HIDE DEF t
      <4>1. 514 \in Ports /\ 1470 \in Ports
        BY DEF Ports
      <4> QED
        BY <2>1, <4>1
    <3>3. v \in Severities
      BY <2>1, ConstantsAssumption DEF ConstantsAssumption
    <3> QED
      BY <3>1, <3>2, <3>3
  <2>3. Daemon!Line(row) =
          [host |-> row.host, transport |-> t, port |-> p, severity |-> v]
    BY DEF Daemon!Line
  <2> QED
    BY <2>1, <2>2, <2>3 DEF LineSet
<1>2. Daemon!Lines \in SUBSET LineSet
  BY <1>1 DEF Daemon!Lines
<1> QED
  BY <1>2, DaemonAssumption DEF DaemonAssumption

LEMMA FollowInit == SysInit => FollowInv
BY DEF SysInit, Daemon!Init, FollowInv, Followed, Places

\* The daemon's copies of the rows change in Receive and Start only.
LEMMA FollowStep ==
  ASSUME FollowInv, TypeOK, Daemon!Next
  PROVE  FollowInv'
<1> USE DEF FollowInv, Followed, Settled, Places, Daemon!Lines
<1>1. CASE Daemon!Receive
  BY <1>1 DEF Daemon!Receive, Daemon!SeqnoMoved, Daemon!ToReceive, TypeOK
<1>0. CASE Daemon!RunNothing
  BY <1>0 DEF Daemon!RunNothing
<1>2. CASE Daemon!Compare
  BY <1>2 DEF Daemon!Compare, Daemon!FileDiffers
<1>3. CASE Daemon!Truncate
  BY <1>3 DEF Daemon!Truncate
<1>4. CASE Daemon!Copy
  BY <1>4 DEF Daemon!Copy
<1>5. CASE Daemon!Restart
  BY <1>5 DEF Daemon!Restart
<1>6. CASE Daemon!Wake
  BY <1>6 DEF Daemon!Wake
<1>7. CASE Daemon!WakeForOther
  BY <1>7 DEF Daemon!WakeForOther
<1>8. CASE Daemon!Crash
  BY <1>8 DEF Daemon!Crash
<1>9. CASE Daemon!Start
  BY <1>9 DEF Daemon!Start
<1> QED
  BY <1>0, <1>1, <1>2, <1>3, <1>4, <1>5, <1>6, <1>7, <1>8, <1>9
  DEF Daemon!Next, Daemon!Progress

LEMMA FollowNext ==
  ASSUME FollowInv, TypeOK, [SysNext]_<<vars, dvars>>
  PROVE  FollowInv'
<1>1. CASE UNCHANGED dvars
  BY <1>1 DEF dvars, FollowInv, Followed, Settled, Daemon!Lines
<1>2. CASE Daemon!Next
  BY <1>2, FollowStep
<1> QED
  BY <1>1, <1>2 DEF SysNext

\* ops_supportability.py: when it blocks and its first monitor request has been
\* answered, /etc/rsyslog.remote.conf is what its rows say, and rsyslog has read
\* it unless a restart was lost.
THEOREM QuietCorrect == SysSpec => []QuietIsCurrent
<1>1. SysSpec => []TypeOK
  BY DaemonOnlyReads, TypeCorrect, PTL
<1>2. FollowInv => QuietIsCurrent
  BY LinesTyped
  DEF FollowInv, Followed, Settled, QuietIsCurrent, Daemon!QuietIsCurrent
<1>3. FollowInv /\ TypeOK /\ [SysNext]_<<vars, dvars>> => FollowInv'
  BY FollowNext
<1> QED
  BY <1>1, <1>2, <1>3, FollowInit, PTL DEF SysSpec
=============================================================================
