--------------------------- MODULE FeatureMapping ---------------------------
(***************************************************************************)
(* src/featuremapping/feature_mapping.c: the features of the switch, the   *)
(* daemons of each and whether a daemon supports diag-dump, read once from *)
(* ops_featuremapping.yaml. The parser sees the scalars of the file one by *)
(* one; one that is a key decides what the next values mean.               *)
(*                                                                         *)
(* feature_head is `features'. An allocation that fails is left out, and   *)
(* so are values where the file has none: before any key, after "daemon".  *)
(***************************************************************************)
EXTENDS Naturals, Sequences

CONSTANTS
  Docs,   \* contents that the file may have: sequences of features
  None    \* an attribute that has not been read

VARIABLES
  file,       \* the content of the file: an element of Docs
  features,   \* the list of features
  parsing,    \* parse_feature_mapping_yaml is running
  pos,        \* the next scalar, see Scalar
  state,      \* current_state
  daemon      \* curr_daemon is a daemon of the last feature

mvars == <<file, features, parsing, pos, state, daemon>>

Keys == {"feature_name", "feature_desc", "daemon", "name", "diag_dump"}

\* The scalars of a file: those of the heading of a feature, then those of each
\* of its daemons, then the next feature's. A position is a feature, a daemon of
\* it (0 for the heading) and a scalar of these.
Heading(f) == <<"feature_name", f.name, "feature_desc", f.desc, "daemon">>
Entry(d)   == <<"name", d.name, "diag_dump", d.dump>>

Place(f, d, s) == [feature |-> f, daemon |-> d, scalar |-> s]

Start  == Place(1, 0, 1)
AtEnd  == pos.feature > Len(file)
Scalar ==
  IF pos.daemon = 0 THEN Heading(file[pos.feature])[pos.scalar]
  ELSE Entry(file[pos.feature].daemons[pos.daemon])[pos.scalar]

Following ==
  IF pos.scalar < (IF pos.daemon = 0 THEN 5 ELSE 4)
    THEN Place(pos.feature, pos.daemon, pos.scalar + 1)
  ELSE IF pos.daemon < Len(file[pos.feature].daemons)
    THEN Place(pos.feature, pos.daemon + 1, 1)
  ELSE Place(pos.feature + 1, 0, 1)

MapInit ==
  /\ file \in Docs /\ features = <<>>
  /\ parsing = FALSE /\ pos = Start /\ state = "values" /\ daemon = FALSE

\* get_feature_mapping parses as long as there is no feature.
GetMapping ==
  /\ ~parsing /\ features = <<>>
  /\ parsing' = TRUE /\ pos' = Start /\ state' = "values" /\ daemon' = FALSE
  /\ UNCHANGED <<file, features>>

-----------------------------------------------------------------------------

LastFeature == Len(features)

\* feature_mapping_check_key.
ReadKey ==
  /\ parsing /\ ~AtEnd
  /\ Scalar \in Keys
  /\ state' = Scalar /\ pos' = Following
  /\ UNCHANGED <<file, features, parsing, daemon>>

\* A value where the parser expects this.
Value(expected) ==
  /\ parsing /\ ~AtEnd
  /\ Scalar \notin Keys /\ state = expected
  /\ pos' = Following
  /\ UNCHANGED <<file, parsing, state>>

AddFeature ==
  /\ Value("feature_name")
  /\ features' = Append(features, [name |-> Scalar, desc |-> None,
                                   daemons |-> <<>>, dump |-> FALSE])
  /\ daemon' = FALSE

AddDesc ==
  /\ Value("feature_desc")
  /\ features' = IF features = <<>> THEN features
                 ELSE [features EXCEPT ![LastFeature].desc = Scalar]
  /\ UNCHANGED daemon

Bug_AddDaemon ==
  /\ Value("name")
  /\ features' = IF features = <<>> THEN features
                 ELSE [features EXCEPT ![LastFeature].daemons =
                         <<[name |-> Scalar, dump |-> FALSE]>>]
  /\ daemon' = TRUE
AddDaemon ==
  /\ Value("name")
  /\ features' = IF features = <<>> THEN features
                 ELSE [features EXCEPT ![LastFeature].daemons =
                         Append(@, [name |-> Scalar, dump |-> FALSE])]
  /\ daemon' = TRUE

\* The flag of the daemon, and that of its feature, as it is read.
Bug_Flagged(feature, flag) ==
  [feature EXCEPT !.dump = TRUE,
                  !.daemons[Len(feature.daemons)].dump = flag]
Flagged(feature, flag) ==
  IF daemon THEN [feature EXCEPT !.dump = flag,
                                 !.daemons[Len(feature.daemons)].dump = flag]
  ELSE [feature EXCEPT !.dump = flag]

AddFlag ==
  /\ Value("diag_dump")
  /\ features' = IF features = <<>> THEN features
                 ELSE [features EXCEPT ![LastFeature] =
                         Flagged(@, Scalar = "y")]
  /\ UNCHANGED daemon

ParseEnd ==
  /\ parsing /\ AtEnd
  /\ parsing' = FALSE
  /\ UNCHANGED <<file, features, pos, state, daemon>>

\* The file is missing, or not YAML from here on: what has been read stays.
ParseError ==
  /\ parsing
  /\ parsing' = FALSE
  /\ UNCHANGED <<file, features, pos, state, daemon>>

ParseStep ==
  \/ ReadKey \/ AddFeature \/ AddDesc \/ AddDaemon \/ AddFlag
  \/ ParseEnd \/ ParseError

-----------------------------------------------------------------------------

Whole == ~parsing /\ AtEnd

FeatureOf(f) ==
  [name |-> f.name, desc |-> f.desc,
   daemons |-> [i \in DOMAIN f.daemons |->
                  [name |-> f.daemons[i].name, dump |-> f.daemons[i].dump = "y"]]]

\* What the parser has stored is the file, up to where it has come: every
\* feature but the last is complete, with its own daemons in their order, and
\* of the last the daemons read so far. An error leaves just that.
MappingIsPrefix ==
  /\ Len(features) <= Len(file)
  /\ \A i \in DOMAIN features :
       LET stored == [name |-> features[i].name, desc |-> features[i].desc,
                      daemons |-> features[i].daemons]
       IN  IF i < Len(features) \/ Whole THEN stored = FeatureOf(file[i])
           ELSE /\ stored.name = file[i].name
                /\ Len(stored.daemons) <= Len(file[i].daemons)
                /\ \A j \in 1..Len(stored.daemons) - 1 :
                     stored.daemons[j] = FeatureOf(file[i]).daemons[j]
  /\ Whole => Len(features) = Len(file)

\* The commands that vtysh installs, one for each feature with the flag: such
\* a feature has a description and a daemon that can be asked, even if the
\* file ended in an error.
InstalledCanDump ==
  ~parsing => \A i \in DOMAIN features :
    features[i].dump =>
      /\ features[i].desc # None
      /\ \E j \in DOMAIN features[i].daemons : features[i].daemons[j].dump

\* include/feature_mapping.h: "Enable this flag if any one daemon supports
\* diag-dump feature."
FlagIfAnyDaemon ==
  Whole => \A i \in DOMAIN features :
    (\E j \in DOMAIN features[i].daemons : features[i].daemons[j].dump)
      => features[i].dump

-----------------------------------------------------------------------------
(* The inductive invariant of MappingIsPrefix and InstalledCanDump: what is *)
(* stored of a feature is a function of where the parser is in it.         *)

PositionOK ==
  /\ pos \in [feature : 1..Len(file) + 1, daemon : Nat, scalar : 1..5]
  /\ AtEnd => pos.daemon = 0 /\ pos.scalar = 1
  /\ ~AtEnd => pos.daemon <= Len(file[pos.feature].daemons)
  /\ pos.daemon > 0 => pos.scalar < 5

\* Before a value, the state is its key.
StateOK ==
  /\ pos.scalar = 2 => state = IF pos.daemon = 0 THEN "feature_name" ELSE "name"
  /\ pos.scalar = 4 => state = IF pos.daemon = 0 THEN "feature_desc" ELSE "diag_dump"
  /\ pos.daemon > 0 /\ pos.scalar > 2 => daemon

\* The daemon of a feature and its scalar that come next.
NextDaemon(i) ==
  IF i < pos.feature THEN Len(file[i].daemons) + 1 ELSE pos.daemon
NextScalar(i) == IF i < pos.feature THEN 1 ELSE pos.scalar

\* feature holds what comes before scalar k of daemon d of source. It has the
\* flag only if a daemon has it.
HoldsUpTo(feature, source, d, k) ==
  LET ds == feature.daemons
  IN  /\ feature.name = source.name
      /\ feature.desc = IF d > 0 \/ k > 4 THEN source.desc ELSE None
      /\ Len(ds) = IF d > 0 /\ k < 3 THEN d - 1 ELSE d
      /\ \A j \in DOMAIN ds :
           /\ ds[j].name = source.daemons[j].name
           /\ ds[j].dump = (j < d /\ source.daemons[j].dump = "y")
      /\ feature.dump => \E j \in DOMAIN ds : ds[j].dump

StoredOK ==
  /\ Len(features) = pos.feature
       - (IF pos.daemon = 0 /\ pos.scalar < 3 THEN 1 ELSE 0)
  /\ \A i \in DOMAIN features :
       HoldsUpTo(features[i], file[i], NextDaemon(i), NextScalar(i))

ParserInv == PositionOK /\ StateOK /\ StoredOK
=============================================================================
