----------------------------- MODULE MCEventLog -----------------------------
(***************************************************************************)
(* A file of two categories for Events, the events of one in two places,   *)
(* and a daemon that also asks for a category the file does not have. The  *)
(* name of one category is part of the other's, like PORT and              *)
(* SUPPORTABILITY in the shipped file, and one is in mixed case, like      *)
(* OSPFv2. One event does not use its second key, like LAG_ADD_PORT_BITMAP *)
(* of that file; another has no key, which the file writes "NA".           *)
(***************************************************************************)
EXTENDS Events

Event(name, kind, id, severity, keys, template) ==
  [name |-> name, category |-> kind, id |-> id, severity |-> severity,
   keys |-> keys, template |-> template]

MC_Headings == <<"PORT", "PORTv2">>
MC_Doc ==
  <<Event("PORT_ADD", "PORT", "6001", "LOG_INFO", "port, vlan", "{port} in {vlan}"),
    Event("V2_STATE", "PORTv2", "2001", "LOG_ERR", "state, flag", "v2 {state}"),
    Event("PORT_DOWN", "PORT", "6002", "LOG_WARN", "NA", "port down")>>

MC_IdOf == [id \in {"6001", "2001", "6002"} |->
  CASE id = "6001" -> 6001 [] id = "2001" -> 2001 [] OTHER -> 6002]

MC_KeysOf == [keys \in {"port, vlan", "state, flag", "NA"} |->
  CASE keys = "port, vlan" -> <<"port", "vlan">>
    [] keys = "state, flag" -> <<"state", "flag">>
    [] OTHER -> <<"NA">>]

MC_UsesOf == [template \in {"{port} in {vlan}", "v2 {state}", "port down"} |->
  CASE template = "{port} in {vlan}" -> {"port", "vlan"}
    [] template = "v2 {state}" -> {"state"}
    [] OTHER -> {}]

MC_LevelOf == [s \in {"LOG_ERR", "LOG_WARN", "LOG_INFO"} |->
  CASE s = "LOG_ERR" -> 3 [] s = "LOG_WARN" -> 4 [] OTHER -> 6]

MC_Upper == [c \in {"PORT", "PORTv2"} |-> IF c = "PORT" THEN c ELSE "PORTV2"]
MC_Part  == {<<"PORT", "PORTv2">>}

MC_Requests ==
  {[NoRequest EXCEPT !.level = 4],
   [NoRequest EXCEPT !.category = "PORTv2"],
   [ids |-> {6001, 2001}, level |-> -1, category |-> "PORT", reverse |-> TRUE]}
=============================================================================
