-------------------------- MODULE MCShowTechConfig --------------------------
(***************************************************************************)
(* Files for ShowTechConfig: up to two features, each with its own commands*)
(* or tables and up to two sub features, and scalars in front of the first *)
(* feature that the parser refuses or has no feature for.                  *)
(***************************************************************************)
EXTENDS ShowTechConfig

MCTables == <<[name |-> "t1", cols |-> <<"c1", "c2">>],
            [name |-> "t2", cols |-> <<"c3">>]>>
MCSub(name, all, feature, cmds, tables) ==
  [name |-> name, desc |-> IF name = None THEN None ELSE "about",
   dummy |-> (name = None), all |-> all, feature |-> feature,
   cmds |-> cmds, tables |-> tables]
MCFeature(name, subs) == [name |-> name, desc |-> "about", subs |-> subs]

Dummies == {MCSub(None, None, None, <<"a", "b">>, <<>>),
            MCSub(None, "no", "yes", <<"a">>, MCTables),
            MCSub(None, None, None, <<>>, MCTables),
            MCSub(None, None, None, <<"a", "show tech">>, <<>>)}
MCSubs    == {MCSub("s1", "no", None, <<"c">>, <<MCTables[1]>>),
            MCSub("s2", None, "yes", <<"d", "e">>, <<>>),
            MCSub("s3", "true", "no", <<>>, MCTables)}

SubLists ==
  {<<>>} \cup {<<s>> : s \in MCSubs \cup Dummies}
    \cup {<<s, t>> : s \in MCSubs \cup Dummies, t \in MCSubs}

Strays == {<<>>, <<"cli_cmds", "a">>, <<"support_showtech_all", "yes">>,
           <<"feature_name", "f">>, <<"sub_feature">>, <<"table">>,
           <<"cli_cmds", "a", "sub_feature_name", "s">>,
           <<"sub_feature_name", "s">>, <<"col_names", "c">>, <<"ovsdb", "x">>}

MCFiles ==
  {[stray |-> <<>>, doc |-> <<MCFeature("f1", a), MCFeature("f2", b)>>] :
     a \in SubLists, b \in {<<MCSub(None, "no", "yes", <<"a">>, MCTables)>>,
                           <<MCSub(None, None, None, <<"a", "show tech">>, <<>>)>>,
                           <<MCSub("s2", None, "yes", <<"d", "e">>, <<>>)>>}}
    \cup {[stray |-> s, doc |-> <<MCFeature("f1", <<d>>)>>] :
            s \in Strays, d \in Dummies}
=============================================================================
