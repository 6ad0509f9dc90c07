----------------------------- MODULE SyslogTable -----------------------------
(***************************************************************************)
(* What the logging commands promise, without replicas and transactions:   *)
(* one table of servers, at most one configuration for each host and at    *)
(* most MaxServers in all. A command configures one server, replacing the  *)
(* host's configuration, removes one, or clears the table; it does so at   *)
(* once or not at all.                                                     *)
(***************************************************************************)
EXTENDS Naturals, FiniteSets

CONSTANTS Servers,     \* configurations: records with a field host
          MaxServers

VARIABLE table

Init == table = {}

Configure(server) ==
  /\ table' = {t \in table : t.host # server.host} \cup {server}
  /\ Cardinality(table') <= MaxServers

Unconfigure(server) == table' = table \ {server}

Clear == table' = {}

Next ==
  \/ \E server \in Servers : Configure(server)
  \/ \E server \in table : Unconfigure(server)
  \/ Clear

Spec == Init /\ [][Next]_table
=============================================================================
