--------------------------- MODULE ShowTechConfig ---------------------------
(***************************************************************************)
(* src/showtech/showtech.c: the configuration of show tech, read from      *)
(* ops_showtech.yaml when it is first asked for and kept from then on. The *)
(* parser sees the scalars of the file one by one: one that is a key says  *)
(* what the next values mean, and begins a feature, a sub feature or a     *)
(* table. Commands and tables right under a feature go to a dummy sub      *)
(* feature.                                                                *)
(*                                                                         *)
(* Only the allocations of elements are checked. A string of which the     *)
(* copy fails is NULL, and the parser goes on: `features' has the strings  *)
(* that were to be copied, and `nulls' the places of those that are NULL.  *)
(*                                                                         *)
(* feature_head is `features'; curr_clicmd and curr_col are left out: they *)
(* are NULL or the last of their list. A file is the scalars in front of   *)
(* the first feature, which should be none, and a sequence of features     *)
(* whose own commands and tables come before their sub features.           *)
(***************************************************************************)
EXTENDS Naturals, SequencesExt

CONSTANTS
  Files,   \* contents that the file may have: [stray, doc]
  Uncopied,   \* bound: the values of which the copy may fail
  None     \* an attribute that has not been read, and NULL

VARIABLES
  file,           \* the content of the file
  features,
  nulls,          \* places of the values of which the copy has failed
  parsing,        \* parse_showtech_config is running
  pos,            \* the next scalar, see Scalar
  current_state,  \* the last key
  sub,            \* curr_subfeature: the last of this feature; 0 is one that
                  \* is in no feature
  table           \* curr_table is the last table of it

vars == <<file, features, nulls, parsing, pos, current_state, sub, table>>

Keys == {"feature", "feature_name", "feature_desc", "sub_feature",
         "sub_feature_name", "sub_feature_desc", "support_showtech_all",
         "support_showtech_feature", "cli_cmds", "ovsdb", "table",
         "table_name", "col_names"}

-----------------------------------------------------------------------------
(* The scalars of a file, in rows: those in front, then those of each       *)
(* feature, of each of its sub features and of each of their tables.       *)

Pair(key, value) == IF value = None THEN <<>> ELSE <<key, value>>
TableScalars(t)  == <<"table", "table_name", t.name, "col_names">> \o t.cols
SubScalars(s) ==
  (IF s.dummy THEN <<>>
   ELSE <<"sub_feature", "sub_feature_name", s.name,
          "sub_feature_desc", s.desc>>)
    \o Pair("support_showtech_all", s.all)
    \o Pair("support_showtech_feature", s.feature)
    \o (IF s.cmds = <<>> THEN <<>> ELSE <<"cli_cmds">> \o s.cmds)
    \o (IF s.tables = <<>> THEN <<>> ELSE <<"ovsdb">>)
FeatureScalars(f) == <<"feature", "feature_desc", f.desc, "feature_name", f.name>>

\* "show tech" and everything that begins with it.
IsShowTech(command) == command \in {"show tech", "show tech basic"}

\* No value is the name of a key. A dummy stands for what is right under a
\* feature, if there is anything. In front of the features there is none, and
\* "feature_name" has a value.
Text == STRING \ Keys
FileTable == [name : Text, cols : Seq(Text)]
FileSub ==
  [name : Text \cup {None}, desc : Text \cup {None}, dummy : BOOLEAN,
   all : Text \cup {None}, feature : Text \cup {None}, cmds : Seq(Text),
   tables : Seq(FileTable)]
FileFeature == [name : Text, desc : Text, subs : Seq(FileSub)]

ASSUME FilesAssumption ==
  \A f \in Files :
    /\ f.stray \in Seq(STRING \ {"feature"})
    /\ \A i \in DOMAIN f.stray :
         f.stray[i] = "feature_name" => i < Len(f.stray) /\ f.stray[i + 1] \in Text
    /\ f.doc \in Seq(FileFeature)
    /\ \A i \in DOMAIN f.doc : \A j \in DOMAIN f.doc[i].subs :
         LET s == f.doc[i].subs[j]
         IN  IF s.dummy
               THEN j = 1 /\ s.name = None /\ s.desc = None /\ SubScalars(s) # <<>>
               ELSE s.name # None /\ s.desc # None
ASSUME NoneAssumption == None \notin Nat /\ None \notin STRING

\* A place is a feature (0 for the front), a sub feature of it (0 for its
\* heading), a table of that (0 for what precedes them) and a scalar.
Place(f, s, t, k) == [feature |-> f, sub |-> s, table |-> t, scalar |-> k]
Start == IF file.stray = <<>> THEN Place(1, 0, 0, 1) ELSE Place(0, 0, 0, 1)
AtEnd == pos.feature > Len(file.doc)

Subs   == IF pos.feature = 0 THEN <<>> ELSE file.doc[pos.feature].subs
Tables == IF pos.sub = 0 THEN <<>> ELSE Subs[pos.sub].tables
Row ==
  IF pos.feature = 0 THEN file.stray
  ELSE IF pos.sub = 0 THEN FeatureScalars(file.doc[pos.feature])
  ELSE IF pos.table = 0 THEN SubScalars(Subs[pos.sub])
  ELSE TableScalars(Tables[pos.table])
Scalar == Row[pos.scalar]

Following ==
  IF pos.scalar < Len(Row)
    THEN Place(pos.feature, pos.sub, pos.table, pos.scalar + 1)
  ELSE IF pos.table < Len(Tables) THEN Place(pos.feature, pos.sub, pos.table + 1, 1)
  ELSE IF pos.sub < Len(Subs) THEN Place(pos.feature, pos.sub + 1, 0, 1)
  ELSE Place(pos.feature + 1, 0, 0, 1)

Init ==
  /\ file \in Files /\ features = <<>> /\ nulls = {}
  /\ parsing = FALSE /\ pos = Start
  /\ current_state = "feature" /\ sub = None /\ table = FALSE

-----------------------------------------------------------------------------

\* get_showtech_config parses as long as there is no feature.
GetConfig ==
  /\ ~parsing /\ features = <<>>
  /\ parsing' = TRUE /\ pos' = Start
  /\ current_state' = "feature" /\ sub' = None /\ table' = FALSE
  /\ nulls' = {} /\ UNCHANGED <<file, features>>

LastFeature == Len(features)
More == parsing /\ ~AtEnd

\* free_show_tech_config after an error.
Fail ==
  /\ parsing' = FALSE /\ features' = <<>> /\ nulls' = {}
  /\ UNCHANGED <<file, pos, current_state, sub, table>>

\* A key.
Key(k) ==
  /\ More /\ Scalar = k
  /\ current_state' = k /\ pos' = Following /\ UNCHANGED <<file, parsing, nulls>>

\* A value after this key.
Value(k) ==
  /\ More /\ Scalar \notin Keys /\ current_state = k
  /\ pos' = Following /\ UNCHANGED <<file, parsing, current_state>>

\* strdup_with_nullcheck of the value: nobody looks at the result.
Copy ==
  \/ UNCHANGED nulls
  \/ Scalar \in Uncopied /\ nulls' = nulls \cup {pos}

\* A scalar that cannot come here: a key or a value after a key.
KeyFails(k)   == More /\ Scalar = k /\ Fail
ValueFails(k) == More /\ Scalar \notin Keys /\ current_state = k /\ Fail

NewFeature == [name |-> None, desc |-> None, subs |-> <<>>]
NewTable   == [name |-> None, cols |-> <<>>]
NewSub(dummy) ==
  [name |-> None, desc |-> None, dummy |-> dummy, all |-> TRUE,
   feature |-> FALSE, cmds |-> <<>>, tables |-> <<>>]
WithSub(f, s) == [f EXCEPT !.subs = Append(@, s)]

Bug_AddFeature ==
  /\ Key("feature")
  /\ features' = Append(features, NewFeature)
  /\ table' = FALSE /\ UNCHANGED sub
AddFeature ==
  /\ Key("feature")
  /\ features' = Append(features, NewFeature)
  /\ sub' = None /\ table' = FALSE

Bug_AddSubFeature ==
  /\ Key("sub_feature") /\ features # <<>>
  /\ features' = [features EXCEPT ![LastFeature] = WithSub(@, NewSub(FALSE))]
  /\ sub' = LastFeature /\ UNCHANGED table
AddSubFeature ==
  /\ Key("sub_feature") /\ features # <<>>
  /\ features' = [features EXCEPT ![LastFeature] = WithSub(@, NewSub(FALSE))]
  /\ sub' = LastFeature /\ table' = FALSE

\* The sub feature in hand, or a new dummy, and its replacement by s.
Current ==
  IF sub \in {None, 0} THEN NewSub(TRUE) ELSE Last(features[sub].subs)
PutSub(s) ==
  /\ sub' = IF sub = None THEN LastFeature ELSE sub
  /\ features' =
       IF sub' = 0 THEN features
       ELSE IF sub = None
         THEN [features EXCEPT ![LastFeature] = WithSub(@, s)]
         ELSE [features EXCEPT ![sub].subs[Len(features[sub].subs)] = s]

AddTable ==
  /\ Key("table") /\ features # <<>>
  /\ PutSub([Current EXCEPT !.tables = Append(@, NewTable)])
  /\ table' = TRUE

OtherKey ==
  /\ \E k \in Keys \ {"feature", "sub_feature", "table"} : Key(k)
  /\ UNCHANGED <<features, sub, table>>

SetFeature ==
  /\ \E k \in {"feature_name", "feature_desc"} :
       /\ Value(k) /\ features # <<>>
       /\ features' = IF k = "feature_name"
                        THEN [features EXCEPT ![LastFeature].name = Scalar]
                        ELSE [features EXCEPT ![LastFeature].desc = Scalar]
  /\ Copy /\ UNCHANGED <<sub, table>>

SetSub ==
  /\ sub # None
  /\ \/ Value("sub_feature_name") /\ PutSub([Current EXCEPT !.name = Scalar])
     \/ Value("sub_feature_desc") /\ PutSub([Current EXCEPT !.desc = Scalar])
  /\ Copy /\ UNCHANGED table

\* A new dummy has no table.
KeepTable == table' = IF sub = None THEN FALSE ELSE table

Yes == Scalar \in {"yes", "true"}

SetSupport ==
  /\ \/ /\ Value("support_showtech_all")
        /\ PutSub([Current EXCEPT !.all = Yes])
     \/ /\ Value("support_showtech_feature")
        /\ PutSub([Current EXCEPT !.feature = Yes])
  /\ KeepTable /\ UNCHANGED nulls

AddCommand ==
  /\ Value("cli_cmds") /\ ~IsShowTech(Scalar)
  /\ PutSub([Current EXCEPT !.cmds = Append(@, Scalar)])
  /\ KeepTable /\ Copy

LastTable == Len(Current.tables)

SetTable ==
  /\ \/ /\ Value("table_name") /\ table
        /\ PutSub([Current EXCEPT !.tables[LastTable].name = Scalar])
     \/ /\ Value("col_names") /\ table
        /\ PutSub([Current EXCEPT !.tables[LastTable].cols =
                                    Append(@, Scalar)])
  /\ Copy /\ UNCHANGED table

\* "Unexpected state", and "ovsdb" has no value.
SkipValue ==
  /\ \E k \in {"feature", "sub_feature", "ovsdb", "table"} : Value(k)
  /\ UNCHANGED <<features, nulls, sub, table>>

Refused ==
  \/ /\ features = <<>>
     /\ \/ \E k \in {"sub_feature", "table"} : KeyFails(k)
        \/ \E k \in {"feature_name", "feature_desc"} : ValueFails(k)
  \/ /\ sub = None
     /\ \E k \in {"sub_feature_name", "sub_feature_desc"} : ValueFails(k)
  \/ ~table /\ \E k \in {"table_name", "col_names"} : ValueFails(k)
  \/ ValueFails("cli_cmds") /\ IsShowTech(Scalar)

\* The file is missing or not YAML from here on, or the allocation of an
\* element fails.
ParseError == More /\ Fail

ParseEnd ==
  /\ parsing /\ AtEnd
  /\ parsing' = FALSE
  /\ UNCHANGED <<file, features, nulls, pos, current_state, sub, table>>

Next ==
  \/ GetConfig \/ AddFeature \/ AddSubFeature \/ AddTable \/ OtherKey
  \/ SetFeature \/ SetSub \/ SetSupport \/ AddCommand
  \/ SetTable \/ SkipValue \/ Refused \/ ParseError \/ ParseEnd

Spec == Init /\ [][Next]_vars

-----------------------------------------------------------------------------

Table == [name : STRING \cup {None}, cols : Seq(STRING)]
SubFeature ==
  [name : STRING \cup {None}, desc : STRING \cup {None}, dummy : BOOLEAN,
   all : BOOLEAN, feature : BOOLEAN, cmds : Seq(STRING), tables : Seq(Table)]
Feature ==
  [name : STRING \cup {None}, desc : STRING \cup {None}, subs : Seq(SubFeature)]

Places == [feature : Nat, sub : Nat, table : Nat, scalar : Nat \ {0}]

\* Where the parser is: a scalar of the file or its end. curr_subfeature is
\* the last one there is, or in no feature; curr_table is its last table.
PositionOK ==
  /\ pos \in Places
  /\ IF AtEnd THEN pos = Place(Len(file.doc) + 1, 0, 0, 1)
     ELSE /\ pos.sub <= Len(Subs) /\ pos.table <= Len(Tables)
          /\ pos.scalar <= Len(Row)

ParserOK ==
  /\ file \in Files /\ parsing \in BOOLEAN /\ PositionOK
  /\ current_state \in Keys /\ table \in BOOLEAN
  /\ sub \in {None} \cup Nat
  /\ parsing =>
       /\ sub = 0 => features = <<>>
       /\ sub \in Nat \ {0} => sub = Len(features) /\ features[sub].subs # <<>>
       /\ table => /\ sub \in Nat \ {0}
                  /\ Last(features[sub].subs).tables # <<>>

IInv == ParserOK /\ features \in Seq(Feature)

TypeOK == IInv /\ nulls \subseteq Places

\* What a file says: the flags have their defaults.
Flag(value, default) ==
  IF value = None THEN default ELSE value \in {"yes", "true"}
SubMeaning(s) ==
  [s EXCEPT !.all = Flag(@, TRUE), !.feature = Flag(@, FALSE)]
FeatureMeaning(f) ==
  [f EXCEPT !.subs = [j \in DOMAIN f.subs |-> SubMeaning(f.subs[j])]]
Meaning(doc) == [i \in DOMAIN doc |-> FeatureMeaning(doc[i])]

\* The configuration is all of the file or nothing: every command and table
\* is under the sub feature and the feature that the file has it under, in
\* the order of the file, nothing in front of the first feature strays into
\* one, and an error, in the file or in the allocation of an element, leaves no
\* part of it. Strings are not all there: those of `nulls' are NULL in a
\* configuration that is kept, since nobody looks whether their copy failed.
\* ExecutedIsFile of Vtysh says what comes of that.
ConfigIsFile ==
  ~parsing => features \in {<<>>, Meaning(file.doc)}

-----------------------------------------------------------------------------
(* The inductive invariant of ConfigIsFile.                                *)

\* What is stored of a feature is a function of where the
\* parser is in it. After the name, the flags and the commands of a sub
\* feature the next scalar is one of these ends, plus 1.
HeadEnd(s)  == IF s.dummy THEN 0 ELSE 5
AllEnd(s)   == HeadEnd(s) + Len(Pair("support_showtech_all", s.all))
FlagsEnd(s) == AllEnd(s) + Len(Pair("support_showtech_feature", s.feature))
CmdsEnd(s)  == FlagsEnd(s) + (IF s.cmds = <<>> THEN 0 ELSE 1 + Len(s.cmds))

\* What there is of a table before its scalar k, of a sub feature before
\* scalar k of its table t, and of a feature before those of its sub feature j.
TableUpTo(t, k) ==
  [name |-> IF k > 3 THEN t.name ELSE None, cols |-> SubSeq(t.cols, 1, k - 5)]
SubUpTo(s, t, k) ==
  LET past(end) == t > 0 \/ k > end
  IN  [name |-> IF past(3) THEN s.name ELSE None,
       desc |-> IF past(5) THEN s.desc ELSE None, dummy |-> s.dummy,
       all |-> IF past(AllEnd(s)) THEN Flag(s.all, TRUE) ELSE TRUE,
       feature |-> IF past(FlagsEnd(s)) THEN Flag(s.feature, FALSE) ELSE FALSE,
       cmds |-> IF past(CmdsEnd(s)) THEN s.cmds
                ELSE SubSeq(s.cmds, 1, k - FlagsEnd(s) - 2),
       tables |-> [i \in 1..(IF k > 1 THEN t ELSE t - 1) |->
                     IF i < t THEN s.tables[i] ELSE TableUpTo(s.tables[i], k)]]

\* A dummy is made when something is stored in it.
IsMade(s, t, k) ==
  IF s.dummy
    THEN \/ t = 0 /\ k > 2
         \/ t > 0 /\ (t > 1 \/ k > 1 \/ Len(SubScalars(s)) > 1)
    ELSE t > 0 \/ k > 1
FeatureUpTo(f, j, t, k) ==
  [name |-> IF j > 0 \/ k > 5 THEN f.name ELSE None,
   desc |-> IF j > 0 \/ k > 3 THEN f.desc ELSE None,
   subs |-> [i \in 1..(IF j > 0 /\ IsMade(f.subs[j], t, k) THEN j ELSE j - 1) |->
               IF i < j THEN SubMeaning(f.subs[i]) ELSE SubUpTo(f.subs[i], t, k)]]

\* The list of features, its last one up to the place.
HasBegun(place) == place.sub > 0 \/ place.scalar > 1
StoredAt(list, doc, place) ==
  /\ Len(list) = IF place.feature = 0 \/ HasBegun(place) THEN place.feature
                 ELSE place.feature - 1
  /\ \A i \in DOMAIN list :
       list[i] = IF i < place.feature THEN FeatureMeaning(doc[i])
                 ELSE FeatureUpTo(doc[i], place.sub, place.table, place.scalar)

\* current_state is the last key that has been read of the row, and
\* curr_subfeature the last of the last feature.
StateOK ==
  \A m \in 1..pos.scalar - 1 :
    Row[m] \in Keys /\ (\A l \in m + 1..pos.scalar - 1 : Row[l] \notin Keys)
      => current_state = Row[m]
SubOK ==
  IF features = <<>> THEN sub \in {None, 0}
  ELSE sub = IF Last(features).subs = <<>> THEN None ELSE Len(features)

\* A feature is named in front of the features only where the parser refuses it.
NamesAFeature(n) ==
  \E i \in 1..n - 1 : file.stray[i] = "feature_name" /\ file.stray[i + 1] \in Text
FrontOK ==
  /\ features # <<>> => ~NamesAFeature(Len(file.stray))
  /\ parsing =>
       ~NamesAFeature(IF pos.feature = 0 THEN pos.scalar - 1 ELSE Len(file.stray))

FileInv ==
  /\ IF parsing THEN StoredAt(features, file.doc, pos) /\ StateOK /\ SubOK
     ELSE features \in {<<>>, Meaning(file.doc)}
  /\ FrontOK

=============================================================================
