------------------------------- MODULE MCDiag -------------------------------
(***************************************************************************)
(* Mapping files. For the commands one is enough: the errors that end its *)
(* parsing leave features with one or two daemons, with diag-dump or not.  *)
(***************************************************************************)
EXTENDS Diag

Feature(n, dumps) ==
  [name |-> n, desc |-> "about",
   daemons |-> [i \in DOMAIN dumps |->
                  [name |-> <<"d1", "d2">>[i], dump |-> dumps[i]]]]

DumpDocs ==
  {<<Feature("f1", <<"y", "y">>)>>,
   <<Feature("f1", <<"n">>), Feature("f2", <<"n", "n">>)>>}

FlagDocs ==
  {<<Feature("f1", <<a>>), Feature("f2", <<b, c>>)>> :
     a \in {"y", "n"}, b \in {"y", "n"}, c \in {"y", "n"}}
=============================================================================
