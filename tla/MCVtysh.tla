------------------------------ MODULE MCVtysh ------------------------------
(***************************************************************************)
(* Vtysh with the files of MCShowTechConfig, and with two daemons of two   *)
(* features, one of them in both. The file of the mapping may be missing,  *)
(* or break off after the first daemon.                                    *)
(***************************************************************************)
EXTENDS MCShowTechConfig, Vtysh

MCTalkative ==
  {[stray |-> <<"ovsdb", "x">>,
    doc |-> <<MCFeature("f1", <<MCSub(None, None, None, <<"a", "b">>, <<>>)>>)>>]}

MCDefault == <<"info", "info">>

MCMappings ==
  LET f1 == [name |-> "f1", daemons |-> <<"d1", "d2">>]
      f2 == [name |-> "f2", daemons |-> <<"d2">>]
  IN  {<<>>, <<[f1 EXCEPT !.daemons = <<"d1">>]>>, <<f1, f2>>}

Show(of, name) ==
  [verb |-> "show", of |-> of, name |-> name, dest |-> Blank, to |-> Blank]
Set(of, name, dest, to) ==
  [verb |-> "set", of |-> of, name |-> name, dest |-> dest, to |-> to]

MCCommands ==
  {Show("all", Blank), Show("feature", "f1"), Show("feature", "f2"),
   Show("daemon", "d2"), Set("feature", "f1", "all", "dbg"),
   Set("daemon", "d2", "syslog", "info"), Set("daemon", "d2", "file", "dbg")}
=============================================================================
