---------------------------- MODULE VtyshProofs -----------------------------
(***************************************************************************)
(* Proofs about the sessions of Vtysh, which only load the configuration   *)
(* that ShowTechConfigProofs is about. The first part is about show tech:  *)
(* what has been executed is a function of the cursors of the walk. The    *)
(* second is about the commands of Vlog.                                   *)
(***************************************************************************)
EXTENDS Vtysh, ShowTechConfigProofs

\* Whatever is installed and typed, a session of vtysh does to the configuration
\* what get_showtech_config does, and nothing else.
THEOREM SessionsOnlyLoad == VtyshSpec => Spec
<1>1. VtyshInit => Init
  BY DEF VtyshInit
<1>2. [VtyshNext]_<<vars, tech, vlog>> => [Next]_vars
  <2>1. Load => Next
    BY DEF Load, Next
  <2>2. Parse => Next
    BY DEF Parse
  <2>. QED
    BY <2>1, <2>2 DEF VtyshNext
<1>. QED
  BY <1>1, <1>2, PTL DEF VtyshSpec, Spec

\* So it is in every session, however often the file had to be read.
THEOREM SessionConfigCorrect == VtyshSpec => []ConfigIsFile
BY SessionsOnlyLoad, ConfigCorrect, PTL

-----------------------------------------------------------------------------
(* show tech, for every file and every request.                            *)

\* The configuration is the file's.
LEMMA FeaturesOfFile ==
  ASSUME IInv, FileInv, ~parsing, features # <<>>
  PROVE  /\ Len(features) = Len(file.doc) /\ Len(file.doc) \in Nat
         /\ DOMAIN features = 1..Len(file.doc) /\ DOMAIN file.doc = 1..Len(file.doc)
         /\ \A i \in 1..Len(file.doc) :
              /\ features[i].name = file.doc[i].name
              /\ Len(features[i].subs) = Len(file.doc[i].subs)
              /\ Len(file.doc[i].subs) \in Nat
              /\ DOMAIN file.doc[i].subs = 1..Len(file.doc[i].subs)
              /\ \A j \in 1..Len(file.doc[i].subs) :
                   /\ features[i].subs[j].cmds = file.doc[i].subs[j].cmds
                   /\ file.doc[i].subs[j].cmds \in Seq(STRING)
                   /\ Len(file.doc[i].subs[j].cmds) \in Nat
                   /\ DOMAIN file.doc[i].subs[j].cmds = 1..Len(file.doc[i].subs[j].cmds)
<1>1. file \in Files /\ features \in Seq(Feature) /\ features = Meaning(file.doc)
  BY DEF IInv, ParserOK, FileInv
<1>2. /\ Len(file.doc) \in Nat /\ DOMAIN file.doc = 1..Len(file.doc)
  BY <1>1, DocType
<1>3. /\ DOMAIN features = 1..Len(file.doc) /\ Len(features) = Len(file.doc)
      /\ \A i \in 1..Len(file.doc) : features[i] = FeatureMeaning(file.doc[i])
  BY <1>1, <1>2 DEF Meaning
<1>4. ASSUME NEW i \in 1..Len(file.doc)
      PROVE  /\ features[i].name = file.doc[i].name
             /\ Len(features[i].subs) = Len(file.doc[i].subs)
             /\ Len(file.doc[i].subs) \in Nat
             /\ DOMAIN file.doc[i].subs = 1..Len(file.doc[i].subs)
             /\ \A j \in 1..Len(file.doc[i].subs) :
                  /\ features[i].subs[j].cmds = file.doc[i].subs[j].cmds
                  /\ file.doc[i].subs[j].cmds \in Seq(STRING)
                  /\ Len(file.doc[i].subs[j].cmds) \in Nat
                  /\ DOMAIN file.doc[i].subs[j].cmds = 1..Len(file.doc[i].subs[j].cmds)
  <2> DEFINE F == file.doc[i]
  <2>1. F \in FileFeature /\ F.subs \in Seq(FileSub) /\ Len(F.subs) \in Nat
    BY <1>1, DocType, SubsType
  <2>2. F = [name |-> F.name, desc |-> F.desc, subs |-> F.subs] /\ DOMAIN F.subs = 1..Len(F.subs)
    BY <2>1 DEF FileFeature
  <2>3. features[i] = FeatureMeaning(F)
    BY <1>3
  <2>. HIDE DEF F
  <2>4. features[i].name = F.name /\ features[i].subs = [j \in 1..Len(F.subs) |-> SubMeaning(F.subs[j])]
    BY <2>2, <2>3 DEF FeatureMeaning
  <2>5. Len(features[i].subs) = Len(F.subs)
    BY <2>1, <2>4
  <2>6. ASSUME NEW j \in 1..Len(F.subs)
        PROVE  /\ features[i].subs[j].cmds = F.subs[j].cmds
               /\ F.subs[j].cmds \in Seq(STRING) /\ Len(F.subs[j].cmds) \in Nat
               /\ DOMAIN F.subs[j].cmds = 1..Len(F.subs[j].cmds)
    <3> DEFINE s == F.subs[j]
    <3>1. s \in FileSub
      BY <2>1
    <3>2. features[i].subs[j] = SubMeaning(s)
      BY <2>4
    <3>. HIDE DEF s
    <3>3. SubMeaning(s).cmds = s.cmds
      BY <3>1 DEF SubMeaning, FileSub
    <3>4. s.cmds \in Seq(Text)
      BY <3>1 DEF FileSub
    <3>5. s.cmds \in Seq(STRING) /\ Len(s.cmds) \in Nat /\ DOMAIN s.cmds = 1..Len(s.cmds)
      BY <3>4 DEF Text
    <3>. QED
      BY <3>2, <3>3, <3>5 DEF s
  <2>. QED
    BY <2>1, <2>2, <2>4, <2>5, <2>6 DEF F
<1>. QED
  BY <1>2, <1>3, <1>4

\* The strings that there are of a sub feature and of a feature.
CopiedCommands(cmds, i, j) ==
  [k \in DOMAIN cmds |-> Copied(cmds[k], Place(i, j, 0, FlagsEnd(file.doc[i].subs[j]) + 1 + k))]

LEMMA CopiedSubIs ==
  ASSUME NEW s \in FileSub \cup SubFeature, NEW i, NEW j
  PROVE  CopiedSub(s, i, j).cmds = CopiedCommands(s.cmds, i, j)
<1>1. CASE s \in FileSub
  BY <1>1 DEF CopiedSub, CopiedCommands, FileSub
<1>2. CASE s \in SubFeature
  BY <1>2 DEF CopiedSub, CopiedCommands, SubFeature
<1>. QED
  BY <1>1, <1>2

LEMMA CopiedFeatureIs ==
  ASSUME NEW f \in FileFeature \cup Feature, NEW i
  PROVE  /\ CopiedFeature(f, i).name = Copied(f.name, Place(i, 0, 0, 5))
         /\ CopiedFeature(f, i).subs = [j \in DOMAIN f.subs |-> CopiedSub(f.subs[j], i, j)]
<1>1. CASE f \in FileFeature
  BY <1>1 DEF CopiedFeature, FileFeature
<1>2. CASE f \in Feature
  BY <1>2 DEF CopiedFeature, Feature
<1>. QED
  BY <1>1, <1>2

\* A command that there is is one of the file or NULL.
LEMMA CopiedCommandsType ==
  ASSUME NEW cmds \in Seq(STRING), NEW i, NEW j
  PROVE  /\ CopiedCommands(cmds, i, j) \in Seq(STRING \cup {None})
         /\ Len(CopiedCommands(cmds, i, j)) = Len(cmds) /\ Len(cmds) \in Nat
         /\ DOMAIN CopiedCommands(cmds, i, j) = 1..Len(cmds)
<1> DEFINE value(k) == Copied(cmds[k], Place(i, j, 0, FlagsEnd(file.doc[i].subs[j]) + 1 + k))
<1>1. Len(cmds) \in Nat /\ DOMAIN cmds = 1..Len(cmds)
  OBVIOUS
<1>2. \A k \in 1..Len(cmds) : value(k) \in STRING \cup {None}
  <2>1. \A k \in 1..Len(cmds) : cmds[k] \in STRING
    BY <1>1
  <2>. QED
    BY <2>1 DEF Copied
<1>3. CopiedCommands(cmds, i, j) = [k \in 1..Len(cmds) |-> value(k)]
  BY <1>1 DEF CopiedCommands
<1>. HIDE DEF value
<1>4. [k \in 1..Len(cmds) |-> value(k)] \in Seq(STRING \cup {None})
  BY <1>1, <1>2
<1>. QED
  BY <1>1, <1>3, <1>4

\* The configuration that the walk goes through is the file's, with NULL where the
\* copy of a string has failed.
LEMMA ConfigOfFile ==
  ASSUME IInv, FileInv, ~parsing, features # <<>>
  PROVE  /\ Len(features) = Len(file.doc) /\ Len(file.doc) \in Nat
         /\ Len(Stored) = Len(Configured) /\ Len(Configured) = Len(file.doc)
         /\ DOMAIN Stored = 1..Len(Configured) /\ DOMAIN Configured = 1..Len(Configured)
         /\ \A i \in 1..Len(Configured) :
              /\ Stored[i].name = Configured[i].name
              /\ Configured[i].name \in {None, file.doc[i].name}
              /\ Len(Stored[i].subs) = Len(Configured[i].subs)
              /\ Len(Configured[i].subs) \in Nat
              /\ DOMAIN Configured[i].subs = 1..Len(Configured[i].subs)
              /\ \A j \in 1..Len(Configured[i].subs) :
                   /\ Stored[i].subs[j].cmds = Configured[i].subs[j].cmds
                   /\ Configured[i].subs[j].cmds \in Seq(STRING \cup {None})
                   /\ Len(Configured[i].subs[j].cmds) \in Nat
                   /\ DOMAIN Configured[i].subs[j].cmds = 1..Len(Configured[i].subs[j].cmds)
<1>1. /\ file \in Files /\ file.doc \in Seq(FileFeature) /\ features \in Seq(Feature)
      /\ Len(file.doc) \in Nat
  BY DocType DEF IInv, ParserOK
<1>2. /\ Len(features) = Len(file.doc)
      /\ DOMAIN features = 1..Len(file.doc) /\ DOMAIN file.doc = 1..Len(file.doc)
  BY FeaturesOfFile
<1>3. /\ Stored = [i \in 1..Len(file.doc) |-> CopiedFeature(features[i], i)]
      /\ Configured = [i \in 1..Len(file.doc) |-> CopiedFeature(file.doc[i], i)]
  BY <1>2 DEF Stored, Configured, AsKept
<1>4. /\ DOMAIN Stored = 1..Len(file.doc) /\ DOMAIN Configured = 1..Len(file.doc)
      /\ Len(Stored) = Len(file.doc) /\ Len(Configured) = Len(file.doc)
  BY <1>1, <1>3
<1>5. ASSUME NEW i \in 1..Len(file.doc)
      PROVE  /\ Stored[i].name = Configured[i].name
             /\ Configured[i].name \in {None, file.doc[i].name}
             /\ Len(Stored[i].subs) = Len(Configured[i].subs)
             /\ Len(Configured[i].subs) \in Nat
             /\ DOMAIN Configured[i].subs = 1..Len(Configured[i].subs)
             /\ \A j \in 1..Len(Configured[i].subs) :
                  /\ Stored[i].subs[j].cmds = Configured[i].subs[j].cmds
                  /\ Configured[i].subs[j].cmds \in Seq(STRING \cup {None})
                  /\ Len(Configured[i].subs[j].cmds) \in Nat
                  /\ DOMAIN Configured[i].subs[j].cmds = 1..Len(Configured[i].subs[j].cmds)
  <2> DEFINE F == features[i]
             D == file.doc[i]
             n == Len(D.subs)
  <2>1. F \in Feature /\ D \in FileFeature
    BY <1>1, <1>2
  <2>2. /\ F.name = D.name /\ Len(F.subs) = n /\ n \in Nat /\ DOMAIN D.subs = 1..n
        /\ \A j \in 1..n : F.subs[j].cmds = D.subs[j].cmds /\ D.subs[j].cmds \in Seq(STRING)
    BY FeaturesOfFile
  <2>3. F.subs \in Seq(SubFeature) /\ D.subs \in Seq(FileSub)
    BY <2>1 DEF Feature, FileFeature
  <2>4. Stored[i] = CopiedFeature(F, i) /\ Configured[i] = CopiedFeature(D, i)
    BY <1>3
  <2>. HIDE DEF F, D, n
  <2>5. /\ Stored[i].name = Copied(F.name, Place(i, 0, 0, 5))
        /\ Configured[i].name = Copied(D.name, Place(i, 0, 0, 5))
        /\ Stored[i].subs = [j \in DOMAIN F.subs |-> CopiedSub(F.subs[j], i, j)]
        /\ Configured[i].subs = [j \in DOMAIN D.subs |-> CopiedSub(D.subs[j], i, j)]
    BY <2>1, <2>4, CopiedFeatureIs
  <2>6. Configured[i].name \in {None, D.name} /\ Stored[i].name = Configured[i].name
    BY <2>2, <2>5 DEF Copied
  <2>7. DOMAIN F.subs = 1..n
    BY <2>2, <2>3
  <2>8. /\ Len(Stored[i].subs) = n /\ Len(Configured[i].subs) = n
        /\ DOMAIN Configured[i].subs = 1..n
        /\ \A j \in 1..n : /\ Stored[i].subs[j] = CopiedSub(F.subs[j], i, j)
                           /\ Configured[i].subs[j] = CopiedSub(D.subs[j], i, j)
    BY <2>2, <2>5, <2>7
  <2>9. ASSUME NEW j \in 1..n
        PROVE  /\ Stored[i].subs[j].cmds = Configured[i].subs[j].cmds
               /\ Configured[i].subs[j].cmds \in Seq(STRING \cup {None})
               /\ Len(Configured[i].subs[j].cmds) \in Nat
               /\ DOMAIN Configured[i].subs[j].cmds = 1..Len(Configured[i].subs[j].cmds)
    <3>1. F.subs[j] \in SubFeature /\ D.subs[j] \in FileSub
      BY <2>2, <2>3, <2>7
    <3>2. /\ Stored[i].subs[j].cmds = CopiedCommands(F.subs[j].cmds, i, j)
          /\ Configured[i].subs[j].cmds = CopiedCommands(D.subs[j].cmds, i, j)
      BY <2>8, <3>1, CopiedSubIs
    <3>3. F.subs[j].cmds = D.subs[j].cmds /\ D.subs[j].cmds \in Seq(STRING)
      BY <2>2
    <3>. QED
      BY <3>2, <3>3, CopiedCommandsType
  <2>. QED
    BY <2>2, <2>6, <2>8, <2>9 DEF D
<1>. QED
  BY <1>1, <1>2, <1>4, <1>5

\* It stays as it is.
LEMMA KeptStays ==
  ASSUME file' = file, nulls' = nulls
  PROVE  Configured' = Configured /\ (features' = features => Stored' = Stored)
<1>1. ASSUME NEW s, NEW i, NEW j
      PROVE  (CopiedSub(s, i, j))' = CopiedSub(s, i, j)
  <2>1. FlagsEnd(file'.doc[i].subs[j]) = FlagsEnd(file.doc[i].subs[j])
    OBVIOUS
  <2>2. \A v, q : (Copied(v, q))' = Copied(v, q)
    BY DEF Copied
  <2>. QED
    BY <2>1, <2>2 DEF CopiedSub
<1>2. ASSUME NEW f, NEW i
      PROVE  (CopiedFeature(f, i))' = CopiedFeature(f, i)
  BY <1>1 DEF CopiedFeature, Copied
<1>3. Configured' = Configured
  BY <1>2 DEF Configured, AsKept
<1>4. ASSUME features' = features PROVE Stored' = Stored
  BY <1>2, <1>4 DEF Stored, AsKept
<1>. QED
  BY <1>3, <1>4

\* With a configuration there is no name in front of the features.
LEMMA NoNameInFront ==
  ASSUME IInv, FileInv, features # <<>>
  PROVE  NamesInFront(Len(file.stray)) = {}
<1>. SUFFICES ASSUME NEW j \in 2..Len(file.stray), file.stray[j - 1] = "feature_name"
              PROVE  FALSE
  BY DEF NamesInFront
<1>1. file \in Files
  BY DEF IInv, ParserOK
<1>2. Len(file.stray) \in Nat /\ DOMAIN file.stray = 1..Len(file.stray)
  BY <1>1, DocType
<1>3. j - 1 \in 1..Len(file.stray) - 1 /\ j - 1 \in DOMAIN file.stray /\ j - 1 + 1 = j
  BY <1>2
<1>4. file.stray[j - 1 + 1] \in Text
  BY <1>1, <1>3, FilesAssumption DEF FilesAssumption
<1>5. NamesAFeature(Len(file.stray))
  BY <1>3, <1>4 DEF NamesAFeature
<1>. QED
  BY <1>5 DEF FileInv, FrontOK

\* A request is for everything, for the list, or for a feature whose name was offered.
LEMMA RequestType ==
  ASSUME request \in Requests
  PROVE  /\ request.kind \in {"all", "list", "feature"}
         /\ request.kind = "feature" => request.feature \in offered
  BY DEF Requests

\* What is offered is part of what the file has after "feature_name".
LEMMA OfferedNames ==
  ASSUME file \in Files, InstallShowTech
  PROVE  offered' \subseteq NamesInFront(Len(file.stray)) \cup Names(Len(file.doc))
<1>1. Len(file.stray) \in Nat /\ Len(file.doc) \in Nat
  BY DocType
<1>2. \A n \in 0..Len(file.stray) : NamesInFront(n) \subseteq NamesInFront(Len(file.stray))
  <2>1. \A n \in 0..Len(file.stray) : 2..n \subseteq 2..Len(file.stray)
    BY <1>1
  <2>. QED
    BY <2>1 DEF NamesInFront
<1>3. \A n \in 0..Len(file.doc) : Names(n) \subseteq Names(Len(file.doc))
  <2>1. \A n \in 0..Len(file.doc) : 1..n \subseteq 1..Len(file.doc)
    BY <1>1
  <2>. QED
    BY <2>1 DEF Names
<1>. QED
  BY <1>2, <1>3 DEF InstallShowTech

-----------------------------------------------------------------------------
(* The order of the places.                                                *)

\* Of three numbers.
LEMMA BeforeIs ==
  ASSUME NEW a, NEW b, NEW c, NEW x, NEW y, NEW z
  PROVE  Before(<<a, b, c>>, <<x, y, z>>)
           <=> (a < x \/ (a = x /\ (b < y \/ (b = y /\ c < z))))
  BY DEF Before

\* After the command at <<a, b, c>> comes that at <<a, b, c + 1>>: nothing else is
\* before it.
LEMMA BeforeNext ==
  ASSUME NEW a \in Nat, NEW b \in Nat, NEW c \in Nat, NEW q \in Nat \X Nat \X Nat
  PROVE  Before(q, <<a, b, c + 1>>) <=> Before(q, <<a, b, c>>) \/ q = <<a, b, c>>
<1>1. PICK x \in Nat, y \in Nat, z \in Nat : q = <<x, y, z>>
  OBVIOUS
<1>2. (z < c + 1) <=> (z < c \/ z = c)
  OBVIOUS
<1>3. q = <<a, b, c>> <=> (x = a /\ y = b /\ z = c)
  BY <1>1
<1>. QED
  BY <1>1, <1>2, <1>3, BeforeIs

\* What is before a place is before every later one.
LEMMA BeforeLater ==
  ASSUME NEW a \in Nat, NEW b \in Nat, NEW c \in Nat, NEW q \in Nat \X Nat \X Nat,
         Before(q, <<a, b, c>>)
  PROVE  Before(q, <<a, b + 1, 1>>) /\ Before(q, <<a + 1, 1, 1>>)
<1>1. PICK x \in Nat, y \in Nat, z \in Nat : q = <<x, y, z>>
  OBVIOUS
<1>2. x < a \/ (x = a /\ (y < b \/ (y = b /\ z < c)))
  BY <1>1, BeforeIs
<1>3. x < a + 1 /\ (x < a \/ (x = a /\ y < b + 1))
  BY <1>2
<1>. QED
  BY <1>1, <1>3, BeforeIs

-----------------------------------------------------------------------------
(* What has been executed, as a function of the file, the request and the  *)
(* place.                                                                  *)

\* IsWanted, ExecutedInOrder and ExecutedBefore for the features doc, the request r
\* and the commands e; and what has been executed before a place.
WantedIn(doc, r, i, j, k) ==
  /\ i \in DOMAIN doc /\ j \in DOMAIN doc[i].subs /\ k \in DOMAIN doc[i].subs[j].cmds
  /\ r.kind = "feature" =>
       /\ doc[i].name = r.feature
       /\ \A h \in 1..i - 1 : doc[h].name # r.feature
InOrder(doc, r, e) ==
  /\ \A n \in DOMAIN e :
       /\ WantedIn(doc, r, e[n].at[1], e[n].at[2], e[n].at[3])
       /\ e[n].command = doc[e[n].at[1]].subs[e[n].at[2]].cmds[e[n].at[3]]
  /\ \A m, n \in DOMAIN e : m < n => Before(e[m].at, e[n].at)
DoneBefore(doc, r, e, p) ==
  \A i, j, k : WantedIn(doc, r, i, j, k) /\ Before(<<i, j, k>>, p)
                 => \E n \in DOMAIN e : e[n].at = <<i, j, k>>
OnlyBefore(e, p) == \A n \in DOMAIN e : Before(e[n].at, p)

Entries == [at : Nat \X Nat \X Nat, command : STRING \cup {None}]

\* The definitions of Vtysh are these, before a step and after it.
LEMMA AsFunctions ==
  /\ ExecutedInOrder <=> InOrder(Configured, request, executed)
  /\ ExecutedInOrder' <=> InOrder(Configured', request', executed')
  /\ \A p : ExecutedBefore(p) <=> DoneBefore(Configured, request, executed, p)
<1>1. ExecutedInOrder <=> InOrder(Configured, request, executed)
  BY DEF ExecutedInOrder, InOrder, IsWanted, WantedIn
<1>2. ExecutedInOrder' <=> InOrder(Configured', request', executed')
  BY DEF ExecutedInOrder, InOrder, IsWanted, WantedIn
<1>3. ASSUME NEW p
      PROVE  ExecutedBefore(p) <=> DoneBefore(Configured, request, executed, p)
  <2>1. \A i, j, k : WantedIn(Configured, request, i, j, k) <=> IsWanted(i, j, k)
    BY DEF IsWanted, WantedIn
  <2>2. \A i, j, k : IsWanted(i, j, k) =>
          /\ i \in DOMAIN Configured /\ j \in DOMAIN Configured[i].subs
          /\ k \in DOMAIN Configured[i].subs[j].cmds
    BY DEF IsWanted
  <2>. QED
    BY <2>1, <2>2 DEF ExecutedBefore, DoneBefore
<1>. QED
  BY <1>1, <1>2, <1>3

\* The same for a place after the step.
LEMMA AsFunctionsAfter ==
  ASSUME NEW p
  PROVE  ExecutedBefore(p)' <=> DoneBefore(Configured', request', executed', p')
<1>1. \A i, j, k : WantedIn(Configured', request', i, j, k) <=> IsWanted(i, j, k)'
  BY DEF IsWanted, WantedIn
<1>2. \A i, j, k : IsWanted(i, j, k)' =>
        /\ i \in DOMAIN Configured' /\ j \in DOMAIN Configured'[i].subs
        /\ k \in DOMAIN Configured'[i].subs[j].cmds
  BY DEF IsWanted
<1>. QED
  BY <1>1, <1>2 DEF ExecutedBefore, DoneBefore

\* What is wanted before a place can be taken for one command after the other.
LEMMA DoneIs ==
  ASSUME NEW doc, NEW r, NEW g, NEW p,
         \A i, j, k : WantedIn(doc, r, i, j, k) /\ Before(<<i, j, k>>, p)
                        => \E n \in DOMAIN g : g[n].at = <<i, j, k>>
  PROVE  DoneBefore(doc, r, g, p)
  BY DEF DoneBefore

\* One more command: g is e and the command at <<a, b, c>>, the next that is wanted.
Adds(doc, r, e, g, a, b, c) ==
  /\ e \in Seq(Entries) /\ a \in Nat /\ b \in Nat /\ c \in Nat
  /\ \A i, j, k : WantedIn(doc, r, i, j, k) => i \in Nat /\ j \in Nat /\ k \in Nat
  /\ InOrder(doc, r, e) /\ DoneBefore(doc, r, e, <<a, b, c>>) /\ OnlyBefore(e, <<a, b, c>>)
  /\ WantedIn(doc, r, a, b, c)
  /\ Len(e) \in Nat /\ DOMAIN e = 1..Len(e) /\ DOMAIN g = 1..Len(e) + 1
  /\ \A n \in 1..Len(e) : g[n] = e[n]
  /\ g[Len(e) + 1].at = <<a, b, c>>
  /\ g[Len(e) + 1].command = doc[a].subs[b].cmds[c]

\* Then g has been executed in order, and all that is wanted up to there.
LEMMA OneMore ==
  ASSUME NEW doc, NEW r, NEW e, NEW g, NEW a, NEW b, NEW c, Adds(doc, r, e, g, a, b, c)
  PROVE  /\ InOrder(doc, r, g)
         /\ DoneBefore(doc, r, g, <<a, b, c>>) /\ DoneBefore(doc, r, g, <<a, b, c + 1>>)
         /\ OnlyBefore(g, <<a, b, c + 1>>)
<1> DEFINE L == Len(e)
           x == g[L + 1]
           w == doc[a].subs[b].cmds[c]
<1>0. /\ e \in Seq(Entries) /\ a \in Nat /\ b \in Nat /\ c \in Nat
      /\ \A i, j, k : WantedIn(doc, r, i, j, k) => i \in Nat /\ j \in Nat /\ k \in Nat
      /\ InOrder(doc, r, e) /\ DoneBefore(doc, r, e, <<a, b, c>>)
      /\ OnlyBefore(e, <<a, b, c>>) /\ WantedIn(doc, r, a, b, c)
      /\ L \in Nat /\ DOMAIN e = 1..L /\ DOMAIN g = 1..L + 1 /\ g[L + 1] = x
      /\ \A n \in 1..L : g[n] = e[n]
      /\ x.at = <<a, b, c>> /\ x.command = w
  BY DEF Adds
<1>. HIDE DEF L, x
<1> DEFINE here == <<a, b, c>>
           there == <<a, b, c + 1>>
<1>1. /\ x.at = here /\ x.command = w
      /\ here[1] = a /\ here[2] = b /\ here[3] = c
  BY <1>0
<1>. HIDE DEF here
<1>2. /\ DOMAIN e = 1..L /\ DOMAIN g = 1..L + 1 /\ g[L + 1] = x
      /\ \A n \in 1..L : g[n] = e[n]
      /\ L \in Nat
  BY <1>0
<1>4. \A n \in 1..L + 1 : n \in 1..L \/ n = L + 1
  BY <1>2
<1>5. \A n \in 1..L : e[n].at \in Nat \X Nat \X Nat /\ Before(e[n].at, here)
  <2>1. \A n \in 1..L : Before(e[n].at, here)
    BY <1>0 DEF OnlyBefore, here
  <2>2. \A n \in 1..L : e[n] \in Entries
    BY <1>0
  <2>3. \A y \in Entries : y.at \in Nat \X Nat \X Nat
    BY DEF Entries
  <2>. QED
    BY <2>1, <2>2, <2>3
<1>6. InOrder(doc, r, g)
  <2>1. ASSUME NEW n \in DOMAIN g
        PROVE  /\ WantedIn(doc, r, g[n].at[1], g[n].at[2], g[n].at[3])
               /\ g[n].command = doc[g[n].at[1]].subs[g[n].at[2]].cmds[g[n].at[3]]
    <3>1. CASE n \in 1..L
      BY <1>0, <3>1 DEF InOrder
    <3>2. CASE n = L + 1
      BY <1>0, <1>1, <3>2
    <3>. QED
      BY <1>2, <1>4, <3>1, <3>2
  <2>2. ASSUME NEW m \in DOMAIN g, NEW n \in DOMAIN g, m < n
        PROVE  Before(g[m].at, g[n].at)
    <3>1. m \in 1..L
      BY <1>2, <2>2
    <3>2. CASE n \in 1..L
      BY <1>0, <2>2, <3>1, <3>2 DEF InOrder
    <3>3. CASE n = L + 1
      BY <1>1, <1>2, <1>5, <3>1, <3>3
    <3>. QED
      BY <1>2, <1>4, <3>2, <3>3
  <2>. QED
    BY <2>1, <2>2 DEF InOrder
<1>7. \A s \in Nat \X Nat \X Nat : Before(s, there) <=> Before(s, here) \/ s = here
  BY <1>0, BeforeNext DEF here
<1>8. L + 1 \in DOMAIN g /\ \A n \in 1..L : n \in DOMAIN g
  BY <1>2
<1>9. \A i, j, k : WantedIn(doc, r, i, j, k) /\ (Before(<<i, j, k>>, here) \/ <<i, j, k>> = here)
                     => \E n \in DOMAIN g : g[n].at = <<i, j, k>>
  <2>. SUFFICES ASSUME NEW i, NEW j, NEW k, WantedIn(doc, r, i, j, k),
                       Before(<<i, j, k>>, here) \/ <<i, j, k>> = here
                PROVE  \E n \in DOMAIN g : g[n].at = <<i, j, k>>
    OBVIOUS
  <2>1. CASE Before(<<i, j, k>>, here)
    <3>1. PICK n \in DOMAIN e : e[n].at = <<i, j, k>>
      BY <1>0, <2>1 DEF DoneBefore, here
    <3>. QED
      BY <1>2, <1>8, <3>1
  <2>2. CASE <<i, j, k>> = here
    BY <1>1, <1>2, <1>8, <2>2
  <2>. QED
    BY <2>1, <2>2
<1>10. DoneBefore(doc, r, g, here)
  BY <1>9, DoneIs
<1>11. DoneBefore(doc, r, g, there)
  <2>. HIDE DEF there
  <2>1. ASSUME NEW i, NEW j, NEW k, WantedIn(doc, r, i, j, k), Before(<<i, j, k>>, there)
        PROVE  \E n \in DOMAIN g : g[n].at = <<i, j, k>>
    <3>1. <<i, j, k>> \in Nat \X Nat \X Nat
      BY <1>0, <2>1
    <3>2. Before(<<i, j, k>>, here) \/ <<i, j, k>> = here
      BY <1>7, <2>1, <3>1
    <3>. QED
      BY <1>9, <2>1, <3>2
  <2>. QED
    BY <2>1, DoneIs
<1>12. OnlyBefore(g, there)
  <2>. HIDE DEF there
  <2>1. here \in Nat \X Nat \X Nat
    BY <1>0 DEF here
  <2>2. ASSUME NEW n \in DOMAIN g PROVE Before(g[n].at, there)
    <3>1. CASE n \in 1..L
      BY <1>2, <1>5, <1>7, <3>1
    <3>2. CASE n = L + 1
      BY <1>1, <1>2, <1>7, <2>1, <3>2
    <3>. QED
      BY <1>2, <1>4, <3>1, <3>2
  <2>. QED
    BY <2>2 DEF OnlyBefore
<1>. QED
  BY <1>6, <1>10, <1>11, <1>12 DEF here

\* Nothing wanted lies between two places.
LEMMA DoneUpTo ==
  ASSUME NEW doc, NEW r, NEW e, NEW p, NEW q, DoneBefore(doc, r, e, p),
         \A i, j, k : WantedIn(doc, r, i, j, k) /\ Before(<<i, j, k>>, q)
                        => Before(<<i, j, k>>, p)
  PROVE  DoneBefore(doc, r, e, q)
  BY DEF DoneBefore

-----------------------------------------------------------------------------
(* A step of the walk.                                                     *)

\* The walk is under way and the configuration stays as it is.
InWalk == IInv /\ FileInv /\ WalkInv /\ step = "walk" /\ UNCHANGED vars

\* The place that the walk is at, and what it has executed.
LEMMA WalkPlace ==
  ASSUME InWalk
  PROVE  /\ ~parsing /\ features # <<>> /\ request.kind \in {"all", "feature"}
         /\ request.kind = "feature" => request.feature \in Names(Len(file.doc))
         /\ iter \in Nat /\ iter > 0 /\ iter_sub \in Nat /\ iter_sub > 0
         /\ iter_cli \in Nat /\ iter_cli > 0
         /\ executed \in Seq(Entries) /\ InOrder(Configured, request, executed)
         /\ DoneBefore(Configured, request, executed, <<iter, iter_sub, iter_cli>>)
         /\ OnlyBefore(executed, <<iter, iter_sub, iter_cli>>)
         /\ file' = file /\ features' = features /\ parsing' = parsing
         /\ Configured' = Configured
<1>1. IInv /\ FileInv /\ WalkInv /\ step = "walk" /\ UNCHANGED vars
  BY DEF InWalk
<1>2. WalkOK /\ ~parsing /\ request \in Requests
  BY <1>1 DEF WalkInv
<1>3. features # <<>> /\ request.kind # "list"
  BY <1>2 DEF WalkOK
<1>4. request.kind \in {"all", "feature"}
  BY <1>2, <1>3, RequestType
<1>5. request.kind = "feature" => request.feature \in Names(Len(file.doc))
  BY <1>1, <1>2, <1>3, RequestType, NoNameInFront DEF WalkInv
<1>6. /\ iter \in Nat /\ iter > 0 /\ iter_sub \in Nat /\ iter_sub > 0
      /\ iter_cli \in Nat /\ iter_cli > 0
  BY <1>2 DEF WalkOK
<1>7. executed \in Seq(Entries)
  BY <1>2 DEF WalkOK, Entries
<1>8. /\ InOrder(Configured, request, executed)
      /\ DoneBefore(Configured, request, executed, <<iter, iter_sub, iter_cli>>)
  BY <1>2, AsFunctions DEF WalkOK
<1>9. OnlyBefore(executed, <<iter, iter_sub, iter_cli>>)
  BY <1>2 DEF WalkOK, OnlyBefore
<1>10. /\ file' = file /\ features' = features /\ parsing' = parsing
       /\ Configured' = Configured
  BY <1>1, KeptStays DEF vars
<1>. QED
  BY <1>2, <1>3, <1>4, <1>5, <1>6, <1>7, <1>8, <1>9, <1>10

\* The feature that it is at.
LEMMA FeatureAt ==
  ASSUME InWalk, iter <= Len(Stored)
  PROVE  /\ iter \in 1..Len(Configured) /\ DOMAIN Configured = 1..Len(Configured)
         /\ Selected <=> (request.kind = "feature" => Configured[iter].name = request.feature)
         /\ Len(Stored[iter].subs) = Len(Configured[iter].subs)
         /\ Len(Configured[iter].subs) \in Nat
         /\ DOMAIN Configured[iter].subs = 1..Len(Configured[iter].subs)
         /\ \A j \in 1..Len(Configured[iter].subs) :
              /\ Stored[iter].subs[j].cmds = Configured[iter].subs[j].cmds
              /\ Configured[iter].subs[j].cmds \in Seq(STRING \cup {None})
              /\ Len(Configured[iter].subs[j].cmds) \in Nat
              /\ DOMAIN Configured[iter].subs[j].cmds = 1..Len(Configured[iter].subs[j].cmds)
<1>1. IInv /\ FileInv /\ ~parsing /\ features # <<>> /\ iter \in Nat /\ iter > 0
  BY WalkPlace DEF InWalk
<1>2. Len(Stored) = Len(Configured) /\ Len(Configured) \in Nat
      /\ DOMAIN Configured = 1..Len(Configured)
  BY <1>1, ConfigOfFile
<1>3. iter \in 1..Len(Configured)
  BY <1>1, <1>2
<1>4. /\ Stored[iter].name = Configured[iter].name
      /\ Len(Stored[iter].subs) = Len(Configured[iter].subs)
      /\ Len(Configured[iter].subs) \in Nat
      /\ DOMAIN Configured[iter].subs = 1..Len(Configured[iter].subs)
      /\ \A j \in 1..Len(Configured[iter].subs) :
           /\ Stored[iter].subs[j].cmds = Configured[iter].subs[j].cmds
           /\ Configured[iter].subs[j].cmds \in Seq(STRING \cup {None})
           /\ Len(Configured[iter].subs[j].cmds) \in Nat
           /\ DOMAIN Configured[iter].subs[j].cmds = 1..Len(Configured[iter].subs[j].cmds)
  BY <1>1, <1>3, ConfigOfFile
<1>5. Selected <=> (request.kind = "feature" => Configured[iter].name = request.feature)
  BY <1>4, WalkPlace DEF Selected
<1>. QED
  BY <1>2, <1>3, <1>4, <1>5

\* The places that are wanted are in the file.
LEMMA WantedType ==
  ASSUME InWalk, NEW i, NEW j, NEW k, WantedIn(Configured, request, i, j, k)
  PROVE  /\ i \in 1..Len(Configured) /\ i \in Nat /\ i > 0
         /\ j \in 1..Len(Configured[i].subs) /\ j \in Nat /\ j > 0
         /\ k \in 1..Len(Configured[i].subs[j].cmds) /\ k \in Nat /\ k > 0
<1>1. IInv /\ FileInv /\ ~parsing /\ features # <<>>
  BY WalkPlace DEF InWalk
<1>2. Len(Configured) \in Nat /\ DOMAIN Configured = 1..Len(Configured)
  BY <1>1, ConfigOfFile
<1>3. i \in 1..Len(Configured)
  BY <1>2 DEF WantedIn
<1>4. /\ Len(Configured[i].subs) \in Nat
      /\ DOMAIN Configured[i].subs = 1..Len(Configured[i].subs)
      /\ \A l \in 1..Len(Configured[i].subs) :
           /\ Len(Configured[i].subs[l].cmds) \in Nat
           /\ DOMAIN Configured[i].subs[l].cmds = 1..Len(Configured[i].subs[l].cmds)
  BY <1>1, <1>3, ConfigOfFile
<1>5. j \in 1..Len(Configured[i].subs)
  BY <1>4 DEF WantedIn
<1>6. /\ Len(Configured[i].subs[j].cmds) \in Nat
      /\ DOMAIN Configured[i].subs[j].cmds = 1..Len(Configured[i].subs[j].cmds)
  BY <1>4, <1>5
<1>7. k \in 1..Len(Configured[i].subs[j].cmds)
  BY <1>6 DEF WantedIn
<1>. QED
  BY <1>2, <1>3, <1>4, <1>5, <1>6, <1>7

\* In a step that goes on: the new place and what has been executed then.
LEMMA WalksOn ==
  ASSUME InWalk, Walking, NEW x \in Nat, NEW y \in Nat, NEW z \in Nat, x > 0, y > 0, z > 0,
         iter' = x, iter_sub' = y, iter_cli' = z, executed' \in Seq(Entries),
         InOrder(Configured, request, executed'),
         DoneBefore(Configured, request, executed', <<x, y, z>>),
         OnlyBefore(executed', <<x, y, z>>),
         request.kind = "feature" =>
           \A h \in DOMAIN Configured : h < x => Configured[h].name # request.feature
  PROVE  WalkInv'
<1>1. /\ step' = "walk" /\ offered' = offered /\ request' = request
      /\ file' = file /\ features' = features /\ parsing' = parsing
      /\ Configured' = Configured
      /\ WalkInv /\ step = "walk" /\ features # <<>> /\ request.kind # "list"
  BY WalkPlace DEF Walking, InWalk
<1>2. ExecutedInOrder'
  BY <1>1, AsFunctions
<1>3. ExecutedBefore(<<iter, iter_sub, iter_cli>>)'
  <2>1. ExecutedBefore(<<x, y, z>>)'
    BY <1>1, AsFunctionsAfter
  <2>. QED
    BY <2>1 DEF ExecutedBefore
<1>4. WalkOK'
  <2>1. executed' \in Seq([at : Nat \X Nat \X Nat, command : STRING \cup {None}])
    BY DEF Entries
  <2>2. {iter', iter_sub', iter_cli'} \subseteq Nat \ {0}
    OBVIOUS
  <2>3. \A n \in DOMAIN executed' : Before(executed'[n].at, <<iter', iter_sub', iter_cli'>>)
    BY DEF OnlyBefore
  <2>. QED
    BY <1>1, <1>2, <1>3, <2>1, <2>2, <2>3 DEF WalkOK, Before
<1>5. ExecutedIsFile'
  BY <1>1 DEF ExecutedIsFile
<1>. QED
  BY <1>1, <1>4, <1>5 DEF WalkInv, Requests, NamesInFront, Names

\* In a step that ends it.
LEMMA WalkEnds ==
  ASSUME InWalk, NEW result, Finish(result), InOrder(Configured, request, executed'),
         NEW p, DoneBefore(Configured, request, executed', p),
         \/ result = "completed" /\ p = <<Len(Configured) + 1, 1, 1>>
         \/ result = "interrupted" /\ executed' # <<>> /\ p = Last(executed').at
  PROVE  WalkInv'
<1>1. /\ step' = "done" /\ offered' = offered /\ request' = request /\ outcome' = result
      /\ file' = file /\ features' = features /\ parsing' = parsing
      /\ Configured' = Configured
      /\ WalkInv /\ step = "walk" /\ features # <<>> /\ request.kind # "list"
  BY WalkPlace DEF Finish, InWalk
<1>2. ExecutedInOrder'
  BY <1>1, AsFunctions
<1>3. ExecutedBefore(p)'
  BY <1>1, AsFunctionsAfter
<1>4. ASSUME result = "completed"
      PROVE  ExecutedBefore(<<Len(Configured) + 1, 1, 1>>)'
  <2>1. p = <<Len(Configured') + 1, 1, 1>>
    BY <1>1, <1>4
  <2>. QED
    BY <1>3, <2>1 DEF ExecutedBefore
<1>5. ASSUME result = "interrupted"
      PROVE  executed' # <<>> /\ ExecutedBefore(Last(executed).at)'
  <2>1. p = Last(executed').at /\ executed' # <<>>
    BY <1>5
  <2>. QED
    BY <1>3, <2>1 DEF ExecutedBefore, Last
<1>6. ExecutedIsFile'
  BY <1>1, <1>2, <1>4, <1>5 DEF ExecutedIsFile
<1>. QED
  BY <1>1, <1>6 DEF WalkInv, Requests, NamesInFront, Names

-----------------------------------------------------------------------------
(* One lemma for each action of the walk.                                  *)

\* The command at the cursors is the next one that is wanted.
LEMMA ExecuteKeeps == ASSUME InWalk, Execute PROVE WalkInv'
<1> DEFINE w == Stored[iter].subs[iter_sub].cmds[iter_cli]
           x == [at |-> <<iter, iter_sub, iter_cli>>, command |-> w]
<1>1. /\ InSub /\ iter_cli <= Len(Stored[iter].subs[iter_sub].cmds)
      /\ executed' = Append(executed, x)
      /\ iter_cli' = iter_cli + 1 /\ iter' = iter /\ iter_sub' = iter_sub
      /\ Walking \/ Finish("interrupted")
  BY DEF Execute
<1>2. iter <= Len(Stored) /\ Selected /\ iter_sub <= Len(Stored[iter].subs)
  BY <1>1 DEF InSub, InFeature
<1>3. /\ iter \in Nat /\ iter > 0 /\ iter_sub \in Nat /\ iter_sub > 0
      /\ iter_cli \in Nat /\ iter_cli > 0
      /\ executed \in Seq(Entries) /\ InOrder(Configured, request, executed)
      /\ DoneBefore(Configured, request, executed, <<iter, iter_sub, iter_cli>>)
      /\ OnlyBefore(executed, <<iter, iter_sub, iter_cli>>)
  BY WalkPlace
<1>4. /\ iter_sub \in 1..Len(Configured[iter].subs)
      /\ DOMAIN Configured[iter].subs = 1..Len(Configured[iter].subs)
      /\ iter \in DOMAIN Configured /\ DOMAIN Configured = 1..Len(Configured)
  BY <1>2, <1>3, FeatureAt
<1>5. /\ Stored[iter].subs[iter_sub].cmds = Configured[iter].subs[iter_sub].cmds
      /\ Configured[iter].subs[iter_sub].cmds \in Seq(STRING \cup {None})
      /\ Len(Configured[iter].subs[iter_sub].cmds) \in Nat
      /\ DOMAIN Configured[iter].subs[iter_sub].cmds
           = 1..Len(Configured[iter].subs[iter_sub].cmds)
  BY <1>2, <1>4, FeatureAt
<1>6. /\ iter_cli \in DOMAIN Configured[iter].subs[iter_sub].cmds
      /\ w = Configured[iter].subs[iter_sub].cmds[iter_cli]
  BY <1>1, <1>3, <1>5
<1>7. w \in STRING \cup {None}
  BY <1>5, <1>6
<1>8. WantedIn(Configured, request, iter, iter_sub, iter_cli)
  <2>1. request.kind = "feature" =>
          /\ Configured[iter].name = request.feature
          /\ \A h \in DOMAIN Configured : h < iter => Configured[h].name # request.feature
    BY <1>2, FeatureAt DEF InWalk, WalkInv, WalkOK
  <2>2. \A h \in 1..iter - 1 : h \in DOMAIN Configured /\ h < iter
    BY <1>3, <1>4
  <2>. QED
    BY <1>4, <1>6, <2>1, <2>2 DEF WantedIn
<1>9. \A i, j, k : WantedIn(Configured, request, i, j, k) => i \in Nat /\ j \in Nat /\ k \in Nat
  BY WantedType
<1>. HIDE DEF w
<1>10. /\ x \in Entries /\ x.at = <<iter, iter_sub, iter_cli>> /\ x.command = w
  BY <1>3, <1>7 DEF Entries
<1>. HIDE DEF x
<1>11. /\ executed' \in Seq(Entries) /\ Len(executed) \in Nat
       /\ Len(executed') = Len(executed) + 1
       /\ DOMAIN executed = 1..Len(executed) /\ DOMAIN executed' = 1..Len(executed) + 1
       /\ executed'[Len(executed) + 1] = x
       /\ \A n \in 1..Len(executed) : executed'[n] = executed[n]
  BY <1>1, <1>3, <1>10, AppendProperties
<1>12. executed' # <<>> /\ Last(executed').at = <<iter, iter_sub, iter_cli>>
  <2>1. Len(<<>>) = 0
    OBVIOUS
  <2>. QED
    BY <1>10, <1>11, <2>1 DEF Last
<1>13. /\ InOrder(Configured, request, executed')
       /\ DoneBefore(Configured, request, executed', <<iter, iter_sub, iter_cli>>)
       /\ DoneBefore(Configured, request, executed', <<iter, iter_sub, iter_cli + 1>>)
       /\ OnlyBefore(executed', <<iter, iter_sub, iter_cli + 1>>)
  <2>1. Adds(Configured, request, executed, executed', iter, iter_sub, iter_cli)
    BY <1>3, <1>6, <1>8, <1>9, <1>10, <1>11 DEF Adds
  <2>. QED
    BY <2>1, OneMore
<1>14. CASE Walking
  <2>1. request.kind = "feature" =>
          \A h \in DOMAIN Configured : h < iter => Configured[h].name # request.feature
    BY DEF InWalk, WalkInv, WalkOK
  <2>2. iter_cli + 1 \in Nat /\ iter_cli + 1 > 0
    BY <1>3
  <2>. QED
    BY <1>1, <1>3, <1>11, <1>13, <1>14, <2>1, <2>2, WalksOn
<1>15. CASE Finish("interrupted")
  <2>1. PICK p : p = <<iter, iter_sub, iter_cli>>
    OBVIOUS
  <2>. QED
    BY <1>12, <1>13, <1>15, <2>1, WalkEnds
<1>. QED
  BY <1>1, <1>14, <1>15

\* Behind the last command of a sub feature nothing of it is left.
LEMMA NextSubKeeps == ASSUME InWalk, NextSub PROVE WalkInv'
<1>1. /\ InSub /\ iter_cli > Len(Stored[iter].subs[iter_sub].cmds)
      /\ executed' = executed
      /\ iter_cli' = 1 /\ iter' = iter /\ iter_sub' = iter_sub + 1
      /\ Walking
  BY DEF NextSub
<1>2. iter <= Len(Stored) /\ iter_sub <= Len(Stored[iter].subs)
  BY <1>1 DEF InSub, InFeature
<1>3. /\ iter \in Nat /\ iter > 0 /\ iter_sub \in Nat /\ iter_sub > 0
      /\ iter_cli \in Nat /\ iter_cli > 0
      /\ executed \in Seq(Entries) /\ InOrder(Configured, request, executed)
      /\ DoneBefore(Configured, request, executed, <<iter, iter_sub, iter_cli>>)
      /\ OnlyBefore(executed, <<iter, iter_sub, iter_cli>>)
  BY WalkPlace
<1>4. iter_sub \in 1..Len(Configured[iter].subs)
  BY <1>2, <1>3, FeatureAt
<1>5. iter_cli > Len(Configured[iter].subs[iter_sub].cmds)
  BY <1>1, <1>2, <1>4, FeatureAt
<1>6. DoneBefore(Configured, request, executed, <<iter, iter_sub + 1, 1>>)
  <2>. SUFFICES ASSUME NEW i, NEW j, NEW k, WantedIn(Configured, request, i, j, k),
                       Before(<<i, j, k>>, <<iter, iter_sub + 1, 1>>)
                PROVE  Before(<<i, j, k>>, <<iter, iter_sub, iter_cli>>)
    BY <1>3, DoneUpTo
  <2>1. /\ i \in Nat /\ j \in Nat /\ k \in Nat /\ k > 0
        /\ k \in 1..Len(Configured[i].subs[j].cmds)
    BY WantedType
  <2>2. i < iter \/ (i = iter /\ (j < iter_sub + 1 \/ (j = iter_sub + 1 /\ k < 1)))
    BY BeforeIs
  <2>3. i < iter \/ (i = iter /\ (j < iter_sub \/ j = iter_sub))
    BY <1>3, <2>1, <2>2
  <2>4. i = iter /\ j = iter_sub => k < iter_cli
    BY <1>3, <1>5, <2>1
  <2>. QED
    BY <2>3, <2>4, BeforeIs
<1>7. OnlyBefore(executed, <<iter, iter_sub + 1, 1>>)
  <2>1. ASSUME NEW n \in DOMAIN executed
        PROVE  Before(executed[n].at, <<iter, iter_sub + 1, 1>>)
    <3>1. executed[n] \in Entries
      BY <1>3
    <3>2. executed[n].at \in Nat \X Nat \X Nat
      BY <3>1 DEF Entries
    <3>3. Before(executed[n].at, <<iter, iter_sub, iter_cli>>)
      BY <1>3 DEF OnlyBefore
    <3>. QED
      BY <1>3, <3>2, <3>3, BeforeLater
  <2>. QED
    BY <2>1 DEF OnlyBefore
<1>8. request.kind = "feature" =>
        \A h \in DOMAIN Configured : h < iter => Configured[h].name # request.feature
  BY DEF InWalk, WalkInv, WalkOK
<1>9. iter_sub + 1 \in Nat /\ iter_sub + 1 > 0 /\ 1 \in Nat /\ 1 > 0
  BY <1>3
<1>. QED
  BY <1>1, <1>3, <1>6, <1>7, <1>8, <1>9, WalksOn

\* What is wanted of a feature has been executed when the walk leaves it.
LEMMA FeatureDone ==
  ASSUME InWalk, InFeature, ~InSub, NEW i, NEW j, NEW k,
         WantedIn(Configured, request, i, j, k), i < iter \/ i = iter
  PROVE  Before(<<i, j, k>>, <<iter, iter_sub, iter_cli>>)
<1>1. /\ iter \in Nat /\ iter <= Len(Stored) /\ iter_sub \in Nat
  BY WalkPlace DEF InFeature
<1>2. j \in Nat /\ j \in 1..Len(Configured[i].subs)
  BY WantedType
<1>3. CASE i < iter
  BY <1>3, BeforeIs
<1>4. CASE i = iter
  <2>1. Selected
    BY <1>1, <1>4, FeatureAt DEF WantedIn
  <2>2. ~(iter_sub <= Len(Configured[iter].subs)) /\ Len(Configured[iter].subs) \in Nat
    BY <1>1, <2>1, FeatureAt DEF InSub
  <2>3. j < iter_sub
    BY <1>1, <1>2, <1>4, <2>2
  <2>. QED
    BY <1>4, <2>3, BeforeIs
<1>. QED
  BY <1>3, <1>4

\* On to the next feature, or done with the one that was asked for: no other is.
LEMMA NextFeatureKeeps == ASSUME InWalk, NextFeature PROVE WalkInv'
<1>1. /\ InFeature /\ ~InSub /\ executed' = executed
      /\ IF request.kind = "feature" /\ Selected
           THEN Finish("completed")
           ELSE iter' = iter + 1 /\ iter_sub' = 1 /\ iter_cli' = 1 /\ Walking
  BY DEF NextFeature
<1>2. /\ iter \in Nat /\ iter > 0 /\ iter_sub \in Nat /\ iter_cli \in Nat
      /\ executed \in Seq(Entries) /\ InOrder(Configured, request, executed)
      /\ DoneBefore(Configured, request, executed, <<iter, iter_sub, iter_cli>>)
      /\ OnlyBefore(executed, <<iter, iter_sub, iter_cli>>)
      /\ iter <= Len(Stored)
  BY <1>1, WalkPlace DEF InFeature
<1>3. /\ iter \in DOMAIN Configured /\ DOMAIN Configured = 1..Len(Configured)
      /\ Selected <=> (request.kind = "feature" => Configured[iter].name = request.feature)
  BY <1>2, FeatureAt
<1>4. request.kind = "feature" =>
        \A h \in DOMAIN Configured : h < iter => Configured[h].name # request.feature
  BY DEF InWalk, WalkInv, WalkOK
<1>5. CASE request.kind = "feature" /\ Selected
  <2>1. PICK p : p = <<Len(Configured) + 1, 1, 1>>
    OBVIOUS
  <2>2. DoneBefore(Configured, request, executed, p)
    <3>. SUFFICES ASSUME NEW i, NEW j, NEW k, WantedIn(Configured, request, i, j, k)
                  PROVE  Before(<<i, j, k>>, <<iter, iter_sub, iter_cli>>)
      BY <1>2, DoneUpTo
    <3>1. i \in Nat /\ i \in DOMAIN Configured
      BY <1>3, WantedType
    <3>2. /\ Configured[i].name = request.feature
          /\ \A h \in 1..i - 1 : Configured[h].name # request.feature
      BY <1>5 DEF WantedIn
    <3>3. Configured[iter].name = request.feature
      BY <1>3, <1>5
    <3>4. ~(i < iter)
      BY <1>4, <1>5, <3>1, <3>2
    <3>5. ~(iter < i)
      <4>1. iter < i => iter \in 1..i - 1
        BY <1>2, <3>1
      <4>. QED
        BY <3>2, <3>3, <4>1
    <3>6. i = iter
      BY <1>2, <3>1, <3>4, <3>5
    <3>. QED
      BY <1>1, <3>6, FeatureDone
  <2>. QED
    BY <1>1, <1>2, <1>5, <2>1, <2>2, WalkEnds
<1>6. CASE ~(request.kind = "feature" /\ Selected)
  <2>1. /\ iter' = iter + 1 /\ iter_sub' = 1 /\ iter_cli' = 1 /\ Walking
        /\ iter + 1 \in Nat /\ iter + 1 > 0 /\ 1 \in Nat /\ 1 > 0
    BY <1>1, <1>2, <1>6
  <2>2. DoneBefore(Configured, request, executed, <<iter + 1, 1, 1>>)
    <3>. SUFFICES ASSUME NEW i, NEW j, NEW k, WantedIn(Configured, request, i, j, k),
                         Before(<<i, j, k>>, <<iter + 1, 1, 1>>)
                  PROVE  Before(<<i, j, k>>, <<iter, iter_sub, iter_cli>>)
      BY <1>2, DoneUpTo
    <3>1. /\ i \in Nat /\ j \in Nat /\ k \in Nat /\ j > 0 /\ k > 0
      BY WantedType
    <3>2. i < iter + 1 \/ (i = iter + 1 /\ (j < 1 \/ (j = 1 /\ k < 1)))
      BY BeforeIs
    <3>3. i < iter \/ i = iter
      BY <1>2, <3>1, <3>2
    <3>. QED
      BY <1>1, <3>3, FeatureDone
  <2>3. OnlyBefore(executed, <<iter + 1, 1, 1>>)
    <3>1. ASSUME NEW n \in DOMAIN executed
          PROVE  Before(executed[n].at, <<iter + 1, 1, 1>>)
      <4>1. executed[n] \in Entries
        BY <1>2
      <4>2. executed[n].at \in Nat \X Nat \X Nat
        BY <4>1 DEF Entries
      <4>3. Before(executed[n].at, <<iter, iter_sub, iter_cli>>)
        BY <1>2 DEF OnlyBefore
      <4>. QED
        BY <1>2, <4>2, <4>3, BeforeLater
    <3>. QED
      BY <3>1 DEF OnlyBefore
  <2>4. request.kind = "feature" =>
          \A h \in DOMAIN Configured : h < iter + 1 => Configured[h].name # request.feature
    <3>1. \A h \in DOMAIN Configured : h < iter + 1 => h < iter \/ h = iter
      BY <1>2, <1>3
    <3>. QED
      BY <1>3, <1>4, <1>6, <3>1
  <2>. QED
    BY <1>1, <1>2, <2>1, <2>2, <2>3, <2>4, WalksOn
<1>. QED
  BY <1>5, <1>6

\* Behind the last feature: a feature that was offered has been met before, unless
\* its name is NULL.
LEMMA WalkEndKeeps == ASSUME InWalk, WalkEnd PROVE WalkInv'
<1>1. /\ iter > Len(Stored) /\ executed' = executed
      /\ Finish(IF request.kind = "all" THEN "completed" ELSE "not supported")
  BY DEF WalkEnd
<1>2. /\ iter \in Nat /\ ~parsing /\ features # <<>>
      /\ executed \in Seq(Entries) /\ InOrder(Configured, request, executed)
      /\ DoneBefore(Configured, request, executed, <<iter, iter_sub, iter_cli>>)
      /\ request.kind \in {"all", "feature"}
      /\ request.kind = "feature" => request.feature \in Names(Len(file.doc))
  BY WalkPlace
<1>3. /\ Len(Stored) = Len(Configured) /\ Len(Configured) \in Nat
      /\ Len(Configured) = Len(file.doc)
      /\ DOMAIN Configured = 1..Len(Configured)
  BY <1>2, ConfigOfFile DEF InWalk
<1>4. \A h \in 1..Len(Configured) : h < iter
  <2>1. iter > Len(Configured)
    BY <1>1, <1>3
  <2>. QED
    BY <1>2, <1>3, <2>1
<1>5. CASE request.kind = "feature"
  <2>1. PICK h \in 1..Len(Configured) : request.feature = file.doc[h].name
    BY <1>2, <1>3, <1>5 DEF Names
  <2>2. h \in DOMAIN Configured /\ h < iter
    BY <1>3, <1>4
  <2>3. Configured[h].name # request.feature
    BY <1>5, <2>2 DEF InWalk, WalkInv, WalkOK
  <2>4. Configured[h].name \in {None, file.doc[h].name}
    BY <1>2, <2>1, ConfigOfFile DEF InWalk
  <2>5. Configured[h].name = None
    BY <2>1, <2>3, <2>4
  <2>6. /\ step' = "done" /\ outcome' = "not supported"
        /\ UNCHANGED <<request, offered, file, parsing>> /\ Configured' = Configured
    BY <1>1, <1>5, WalkPlace DEF Finish
  <2>7. ExecutedIsFile'
    BY <2>1, <2>2, <2>5, <2>6 DEF ExecutedIsFile
  <2>8. WalkInv /\ step = "walk"
    BY DEF InWalk
  <2>. QED
    BY <2>6, <2>7, <2>8 DEF WalkInv, Requests, NamesInFront, Names
<1>6. CASE request.kind = "all"
  <2>1. PICK p : p = <<Len(Configured) + 1, 1, 1>>
    OBVIOUS
  <2>2. DoneBefore(Configured, request, executed, p)
    <3>. SUFFICES ASSUME NEW i, NEW j, NEW k, WantedIn(Configured, request, i, j, k)
                  PROVE  Before(<<i, j, k>>, <<iter, iter_sub, iter_cli>>)
      BY <1>2, DoneUpTo
    <3>1. i \in 1..Len(Configured)
      BY WantedType
    <3>2. i < iter
      BY <1>4, <3>1
    <3>. QED
      BY <3>2, BeforeIs
  <2>3. Finish("completed")
    BY <1>1, <1>6
  <2>. QED
    BY <1>1, <1>2, <2>1, <2>2, <2>3, WalkEnds
<1>. QED
  BY <1>2, <1>5, <1>6

\* The walk begins where nothing is before it.
LEMMA GotKeeps ==
  ASSUME IInv, FileInv, WalkInv, Got, UNCHANGED vars
  PROVE  WalkInv'
<1>1. /\ step = "got" /\ ~parsing /\ offered' = offered /\ request' = request
      /\ UNCHANGED <<iter, iter_sub, iter_cli>>
      /\ iter = 1 /\ iter_sub = 1 /\ iter_cli = 1 /\ executed = <<>>
      /\ request \in Requests
      /\ file' = file /\ features' = features /\ parsing' = parsing
      /\ Configured' = Configured
  BY KeptStays DEF Got, WalkInv, Finish, vars
<1>2. /\ offered' \subseteq (NamesInFront(Len(file.stray)) \cup Names(Len(file.doc)))'
      /\ request' \in Requests' /\ ~parsing'
  BY <1>1 DEF WalkInv, Requests, NamesInFront, Names
<1>. SUFFICES /\ step' \in {"walk", "done"}
              /\ step' = "walk" => WalkOK'
              /\ ExecutedIsFile'
  BY <1>2 DEF WalkInv
<1>3. CASE features = <<>>
  BY <1>3 DEF Got, Finish, ExecutedIsFile
<1>4. CASE features # <<>>
  <2>1. /\ DOMAIN Stored = 1..Len(Configured) /\ DOMAIN Configured = 1..Len(Configured)
        /\ \A i \in 1..Len(Configured) :
             /\ Stored[i].name = Configured[i].name
             /\ DOMAIN Configured[i].subs = 1..Len(Configured[i].subs)
             /\ \A j \in 1..Len(Configured[i].subs) :
                  DOMAIN Configured[i].subs[j].cmds = 1..Len(Configured[i].subs[j].cmds)
             /\ Len(Configured[i].subs) \in Nat
             /\ \A j \in 1..Len(Configured[i].subs) :
                  Len(Configured[i].subs[j].cmds) \in Nat
        /\ Len(Configured) \in Nat
    BY <1>1, <1>4, ConfigOfFile
  <2>2. CASE request.kind = "list"
    <3>1. /\ step' = "done" /\ outcome' = "completed"
          /\ executed' = [i \in DOMAIN Stored |-> Stored[i].name]
      BY <1>4, <2>2 DEF Got, Finish
    <3>2. executed' = [i \in DOMAIN Configured |-> Configured[i].name]
      BY <2>1, <3>1
    <3>. QED
      BY <1>1, <2>2, <3>1, <3>2 DEF ExecutedIsFile
  <2>3. CASE request.kind # "list"
    <3>1. /\ step' = "walk" /\ executed' = <<>>
          /\ iter' = 1 /\ iter_sub' = 1 /\ iter_cli' = 1
      BY <1>1, <1>4, <2>3 DEF Got
    <3>2. DOMAIN executed' = {} /\ executed' \in Seq([at : Nat \X Nat \X Nat, command : STRING \cup {None}])
      BY <3>1
    <3>3. ExecutedInOrder'
      BY <3>2 DEF ExecutedInOrder
    <3>4. ASSUME NEW i \in DOMAIN Configured, NEW j \in DOMAIN Configured[i].subs,
                 NEW k \in DOMAIN Configured[i].subs[j].cmds
          PROVE  ~Before(<<i, j, k>>, <<1, 1, 1>>)
      <4>1. i \in 1..Len(Configured) /\ i \in Nat /\ i > 0
        BY <2>1
      <4>2. j \in 1..Len(Configured[i].subs) /\ j \in Nat /\ j > 0
        <5>1. j \in 1..Len(Configured[i].subs) /\ Len(Configured[i].subs) \in Nat
          BY <2>1, <4>1
        <5>. QED
          BY <5>1
      <4>3. k \in Nat /\ k > 0
        <5>1. /\ k \in 1..Len(Configured[i].subs[j].cmds)
              /\ Len(Configured[i].subs[j].cmds) \in Nat
          BY <2>1, <4>1, <4>2
        <5>. QED
          BY <5>1
      <4>4. ~(i < 1 \/ (i = 1 /\ (j < 1 \/ (j = 1 /\ k < 1))))
        BY <4>1, <4>2, <4>3
      <4>. QED
        BY <4>4, BeforeIs
    <3>5. ExecutedBefore(<<iter, iter_sub, iter_cli>>)'
      BY <1>1, <3>1, <3>4 DEF ExecutedBefore, Before
    <3>6. request'.kind = "feature" =>
            \A h \in DOMAIN Configured' : h < iter' => Configured'[h].name # request'.feature
      BY <1>1, <2>1, <3>1
    <3>7. {iter', iter_sub', iter_cli'} \subseteq Nat \ {0}
      BY <3>1
    <3>8. WalkOK'
      BY <1>1, <1>4, <2>3, <3>2, <3>3, <3>5, <3>6, <3>7 DEF WalkOK
    <3>. QED
      BY <3>1, <3>8 DEF ExecutedIsFile
  <2>. QED
    BY <2>2, <2>3
<1>. QED
  BY <1>3, <1>4

\* Steps outside of a walk: nothing has been executed yet.
LEMMA IdleKeeps ==
  ASSUME WalkInv, file' = file, parsing' => step' = "got", step' \notin {"walk", "done"},
         iter' = 1, iter_sub' = 1, iter_cli' = 1, executed' = <<>>,
         offered' \subseteq NamesInFront(Len(file.stray)) \cup Names(Len(file.doc)),
         step' \in {"get", "got"} => request' \in Requests'
  PROVE  WalkInv'
<1>1. offered' \subseteq (NamesInFront(Len(file.stray)) \cup Names(Len(file.doc)))'
  BY DEF NamesInFront, Names
<1>. QED
  BY <1>1 DEF WalkInv, ExecutedIsFile

\* cli_post_init, a request and the prompt after it.
LEMMA TechKeeps ==
  ASSUME IInv, FileInv, WalkInv, TechStep, UNCHANGED vars
  PROVE  WalkInv'
<1>1. file' = file /\ parsing' = parsing /\ (parsing => step = "got") /\ file \in Files
  BY DEF vars, WalkInv, IInv, ParserOK
<1>2. step \notin {"walk", "done"} =>
        iter = 1 /\ iter_sub = 1 /\ iter_cli = 1 /\ executed = <<>>
  BY DEF WalkInv
<1>3. offered \subseteq NamesInFront(Len(file.stray)) \cup Names(Len(file.doc))
  BY DEF WalkInv
<1>4. CASE InstallEvents \/ InstallShowVlog \/ InstallRest
  <2>1. /\ step \in {"events", "rest", "more"} /\ step' \in {"tech", "more", "prompt"}
        /\ UNCHANGED <<offered, iter, iter_sub, iter_cli, executed>>
    BY <1>4 DEF InstallEvents, InstallShowVlog, InstallRest, walk
  <2>. QED
    BY <1>1, <1>2, <1>3, <2>1, IdleKeeps
<1>5. CASE InstallShowTech
  <2>1. /\ step = "tech" /\ step' \in {"prompt", "rest"}
        /\ UNCHANGED <<iter, iter_sub, iter_cli, executed>>
    BY <1>5 DEF InstallShowTech, walk
  <2>2. offered' \subseteq NamesInFront(Len(file.stray)) \cup Names(Len(file.doc))
    BY <1>1, <1>5, OfferedNames
  <2>. QED
    BY <1>1, <1>2, <2>1, <2>2, IdleKeeps
<1>6. ASSUME NEW r \in Requests, Type(r) PROVE WalkInv'
  <2>1. /\ step = "prompt" /\ step' = "get" /\ request' = r
        /\ UNCHANGED <<offered, iter, iter_sub, iter_cli, executed>>
    BY <1>6 DEF Type
  <2>2. request' \in Requests'
    BY <1>6, <2>1 DEF Requests
  <2>. QED
    BY <1>1, <1>2, <1>3, <2>1, <2>2, IdleKeeps
<1>7. CASE Cached
  <2>1. /\ step = "get" /\ step' = "got"
        /\ UNCHANGED <<offered, request, iter, iter_sub, iter_cli, executed>>
    BY <1>7 DEF Cached, walk
  <2>2. request' \in Requests'
    BY <2>1 DEF WalkInv, Requests
  <2>. QED
    BY <1>1, <1>2, <1>3, <2>1, <2>2, IdleKeeps
<1>8. CASE Prompt
  <2>1. /\ step = "done" /\ step' = "prompt"
        /\ iter' = 1 /\ iter_sub' = 1 /\ iter_cli' = 1 /\ executed' = <<>>
        /\ offered' = offered
    BY <1>8 DEF Prompt
  <2>. QED
    BY <1>1, <1>3, <2>1, IdleKeeps
<1>9. ASSUME Execute \/ NextSub \/ NextFeature \/ WalkEnd PROVE WalkInv'
  <2>1. step = "walk"
    BY <1>9 DEF Execute, NextSub, NextFeature, WalkEnd, InSub, InFeature
  <2>2. InWalk
    BY <2>1 DEF InWalk
  <2>. QED
    BY <1>9, <2>2, ExecuteKeeps, NextSubKeeps, NextFeatureKeeps, WalkEndKeeps
<1>. QED
  BY <1>4, <1>5, <1>6, <1>7, <1>8, <1>9, GotKeeps DEF TechStep

\* The parser runs between "get" and the walk, and nothing else changes.
LEMMA SessionKeeps ==
  ASSUME IInv, FileInv, WalkInv, [VtyshNext]_<<vars, tech, vlog>>
  PROVE  WalkInv'
<1>1. CASE TechStep /\ UNCHANGED <<vars, vlog>>
  BY <1>1, TechKeeps
<1>2. CASE Load
  <2>1. /\ step = "get" /\ step' = "got" /\ file' = file
        /\ UNCHANGED <<offered, request, iter, iter_sub, iter_cli, executed>>
    BY <1>2 DEF Load, GetConfig, walk
  <2>2. request' \in Requests'
    BY <2>1 DEF WalkInv, Requests
  <2>3. /\ offered' \subseteq NamesInFront(Len(file.stray)) \cup Names(Len(file.doc))
        /\ iter' = 1 /\ iter_sub' = 1 /\ iter_cli' = 1 /\ executed' = <<>>
    BY <2>1 DEF WalkInv
  <2>. QED
    BY <2>1, <2>2, <2>3, IdleKeeps
<1>3. CASE Parse
  <2>1. /\ step = "got" /\ step' = step
        /\ UNCHANGED <<offered, request, iter, iter_sub, iter_cli, executed>>
    BY <1>3 DEF Parse, tech, WalkInv
  <2>2. file' = file
    BY <1>3 DEF Parse, Next, GetConfig, AddFeature, AddSubFeature, AddTable, OtherKey,
                SetFeature, SetSub, SetSupport, AddCommand, SetTable, SkipValue, Refused,
                ParseError, ParseEnd, Key, Value, KeyFails, ValueFails, Fail
  <2>3. request' \in Requests'
    BY <2>1 DEF WalkInv, Requests
  <2>4. /\ offered' \subseteq NamesInFront(Len(file.stray)) \cup Names(Len(file.doc))
        /\ iter' = 1 /\ iter_sub' = 1 /\ iter_cli' = 1 /\ executed' = <<>>
    BY <2>1 DEF WalkInv
  <2>. QED
    BY <2>1, <2>2, <2>3, <2>4, IdleKeeps
<1>4. CASE UNCHANGED <<vars, tech>>
  <2>1. /\ UNCHANGED <<file, features, parsing>> /\ Configured' = Configured
        /\ UNCHANGED <<step, offered, request, iter, iter_sub, iter_cli, executed, outcome>>
    BY <1>4, KeptStays DEF vars, tech
  <2>2. ExecutedInOrder => ExecutedInOrder'
    BY <2>1, AsFunctions
  <2>3. ASSUME NEW p, ExecutedBefore(p) PROVE ExecutedBefore(p)'
    BY <2>1, <2>3, AsFunctions, AsFunctionsAfter
  <2>4. ASSUME ExecutedBefore(<<iter, iter_sub, iter_cli>>)
        PROVE  ExecutedBefore(<<iter, iter_sub, iter_cli>>)'
    <3>1. PICK p : p = <<iter, iter_sub, iter_cli>>
      OBVIOUS
    <3>2. p = <<iter', iter_sub', iter_cli'>>
      BY <2>1, <3>1
    <3>3. ExecutedBefore(p)'
      BY <2>4, <2>3, <3>1
    <3>. QED
      BY <3>2, <3>3 DEF ExecutedBefore
  <2>5. ASSUME ExecutedBefore(<<Len(Configured) + 1, 1, 1>>)
        PROVE  ExecutedBefore(<<Len(Configured) + 1, 1, 1>>)'
    <3>1. PICK p : p = <<Len(Configured) + 1, 1, 1>>
      OBVIOUS
    <3>2. p = <<Len(Configured') + 1, 1, 1>>
      BY <2>1, <3>1
    <3>3. ExecutedBefore(p)'
      BY <2>5, <2>3, <3>1
    <3>. QED
      BY <3>2, <3>3 DEF ExecutedBefore
  <2>6. ASSUME ExecutedBefore(Last(executed).at)
        PROVE  ExecutedBefore(Last(executed).at)'
    <3>1. PICK p : p = Last(executed).at
      OBVIOUS
    <3>2. p = Last(executed').at
      BY <2>1, <3>1
    <3>3. ExecutedBefore(p)'
      BY <2>6, <2>3, <3>1
    <3>. QED
      BY <3>2, <3>3 DEF ExecutedBefore, Last
  <2>7. WalkOK => WalkOK'
    BY <2>1, <2>2, <2>4 DEF WalkOK, Before
  <2>8. ExecutedIsFile => ExecutedIsFile'
    BY <2>1, <2>2, <2>5, <2>6 DEF ExecutedIsFile
  <2>9. /\ (NamesInFront(Len(file.stray)) \cup Names(Len(file.doc)))'
             = NamesInFront(Len(file.stray)) \cup Names(Len(file.doc))
        /\ Requests' = Requests
    BY <2>1 DEF NamesInFront, Names, Requests
  <2>. QED
    BY <2>1, <2>7, <2>8, <2>9 DEF WalkInv
<1>. QED
  BY <1>1, <1>2, <1>3, <1>4 DEF VtyshNext

\* In a session what show tech has executed is a function of where it is in the
\* configuration, and it is only asked for what the file has.
THEOREM WalkInvariance == VtyshSpec => []WalkInv
<1>1. VtyshInit => WalkInv
  <2>. SUFFICES ASSUME VtyshInit PROVE WalkInv
    OBVIOUS
  <2>1. offered = {} /\ step = "events" /\ ~parsing /\ executed = <<>>
        /\ iter = 1 /\ iter_sub = 1 /\ iter_cli = 1
    BY DEF VtyshInit, Init
  <2>. QED
    BY <2>1 DEF WalkInv, ExecutedIsFile
<1>2. VtyshSpec => []IInv /\ []FileInv
  BY SessionsOnlyLoad, Invariance, FileInvariance, PTL
<1>3. IInv /\ FileInv /\ WalkInv /\ [VtyshNext]_<<vars, tech, vlog>> => WalkInv'
  BY SessionKeeps
<1>. QED
  BY <1>1, <1>2, <1>3, PTL DEF VtyshSpec

\* show tech executes what the file has for the request, all of it, each command
\* once and in the order of the file, up to the one during which it is
\* interrupted, and calls no feature unsupported that it has offered, except for the
\* strings of which the copy has failed.
THEOREM ExecutedCorrect == VtyshSpec => []ExecutedIsFile
<1>1. WalkInv => ExecutedIsFile
  BY DEF WalkInv
<1>. QED
  BY <1>1, WalkInvariance, PTL

-----------------------------------------------------------------------------
(* The levels of Vlog, for every mapping of features and every trouble with  *)
(* the daemons.                                                            *)

\* A command that waits does so for a daemon that there is.
LEMMA WaitsForDaemon ==
  ASSUME V!LoopInv, pc \in {"wait", "reply"}
  PROVE  V!Daemon \in Daemons
<1>1. command \in Commands
  BY DEF V!LoopInv
<1>2. CASE command.of = "daemon"
  BY <1>1, <1>2, CommandsAssumption DEF V!Daemon, CommandsAssumption
<1>3. CASE command.of # "daemon"
  <2>1. /\ iter_feature \in DOMAIN feature_head
        /\ iter_daemon \in 1..Len(V!Feature.daemons)
    BY <1>3 DEF V!LoopInv, V!InLoop
  <2>2. feature_head \in Mappings
    BY <2>1 DEF V!LoopInv
  <2>3. V!Feature.daemons \in Seq(Daemons)
    BY <2>1, <2>2, MappingsAssumption DEF MappingsAssumption, V!Feature
  <2>4. V!Feature.daemons[iter_daemon] \in Daemons
    BY <2>1, <2>3, ElementOfSeq
  <2> QED
    BY <1>3, <2>4 DEF V!Daemon
<1> QED
  BY <1>2, <1>3

\* At the beginning no command has been typed.
LEMMA VlogBegins == V!VlogInit => VlogInv
<1> SUFFICES ASSUME V!VlogInit PROVE VlogInv
  OBVIOUS
<1> USE DEF V!VlogInit
<1>1. V!LoopInv
  BY DEF V!LoopInv, V!InLoop
<1>2. V!KnownInv
  <2>1. level = [d \in Daemons |-> level[d]] /\ known = [d \in Daemons |-> known[d]]
    OBVIOUS
  <2>2. \A d \in Daemons : V!Agrees(d, level[d])
    BY DEF V!Agrees
  <2> QED
    BY <2>1, <2>2 DEF V!KnownInv, V!Showing, V!InLoop
<1>3. V!FlagInv
  BY DEF V!FlagInv, V!InLoop
<1>4. V!RowsInv
  BY EmptySeq DEF V!RowsInv, V!Showing, V!InLoop
<1>5. V!OneDaemonInv
  BY DEF V!OneDaemonInv
<1> QED
  BY <1>1, <1>2, <1>3, <1>4, <1>5 DEF VlogInv, V!VlogInv

\* Where the loop is at depends on nothing else.
LEMMA LoopStays ==
  ASSUME UNCHANGED <<pc, command, feature_head, iter_feature, iter_daemon, failed,
                     rows, return_val, answers>>
  PROVE  /\ V!LoopInv => V!LoopInv'
         /\ V!Daemon' = V!Daemon
         /\ UNCHANGED flag /\ V!FlagInv => V!FlagInv'
         /\ V!RowsInv => V!RowsInv'
         /\ V!OneDaemonInv => V!OneDaemonInv'
<1>1. /\ V!InLoop' = V!InLoop /\ V!Feature' = V!Feature /\ V!Showing' = V!Showing
      /\ V!RowsFor(answers)' = V!RowsFor(answers)
  BY DEF V!InLoop, V!Feature, V!Showing, V!RowsFor
<1>2. V!LoopInv => V!LoopInv'
  BY <1>1 DEF V!LoopInv
<1>3. V!Daemon' = V!Daemon
  BY <1>1 DEF V!Daemon
<1>4. UNCHANGED flag /\ V!FlagInv => V!FlagInv'
  BY <1>1 DEF V!FlagInv
<1>5. V!RowsInv => V!RowsInv'
  BY <1>1 DEF V!RowsInv
<1>6. V!OneDaemonInv => V!OneDaemonInv'
  BY DEF V!OneDaemonInv
<1> QED
  BY <1>2, <1>3, <1>4, <1>5, <1>6

\* In trouble a daemon has its levels set elsewhere or starts with its own.
LEMMA TroubleKeeps ==
  ASSUME VlogInv, NEW d \in Daemons,
         V!Hang(d) \/ V!Stop(d) \/ V!Start(d) \/ (\E l \in Levels : V!SetElsewhere(d, l))
  PROVE  VlogInv'
<1>0. V!LoopInv /\ V!KnownInv /\ V!FlagInv /\ V!RowsInv /\ V!OneDaemonInv
  BY DEF VlogInv, V!VlogInv
<1>1. UNCHANGED <<pc, command, feature_head, flag, iter_feature, iter_daemon, failed,
                  rows, return_val, answers, reply>>
  BY DEF V!Hang, V!Stop, V!Start, V!SetElsewhere, V!static, V!local
<1>2. \/ UNCHANGED <<level, known>>
      \/ \E l : /\ level' = [level EXCEPT ![d] = l]
                /\ known' = [known EXCEPT ![d] = <<Blank, Blank>>]
  BY DEF V!Hang, V!Stop, V!Start, V!SetElsewhere
<1>3. /\ V!LoopInv' /\ V!FlagInv' /\ V!RowsInv' /\ V!OneDaemonInv'
      /\ V!Daemon' = V!Daemon /\ V!Showing' = V!Showing
  BY <1>0, <1>1, LoopStays DEF V!Showing, V!InLoop
<1>4. \A e \in Daemons : \/ known'[e] = known[e] /\ level'[e] = level[e]
                         \/ known'[e] = <<Blank, Blank>>
  BY <1>0, <1>2 DEF V!KnownInv
<1>5. /\ level' = [e \in Daemons |-> level'[e]] /\ known' = [e \in Daemons |-> known'[e]]
  BY <1>0, <1>2 DEF V!KnownInv
<1>6. \A e \in Daemons : V!Agrees(e, level[e])'
  BY <1>0, <1>4 DEF V!KnownInv, V!Agrees
<1>7. ASSUME NEW e \in Daemons, NEW levels, V!Agrees(e, levels)
      PROVE  \A x \in {1, 2} : known'[e][x] \in {Blank, levels[x]}
  BY <1>4, <1>7 DEF V!Agrees
<1>8. V!Showing => \A i \in DOMAIN answers :
        /\ answers[i].daemon \in Daemons
        /\ \A x \in {1, 2} : known'[answers[i].daemon][x] \in {Blank, answers[i].levels[x]}
  BY <1>0, <1>7 DEF V!KnownInv
<1>9. V!Showing /\ pc = "reply" =>
        \A x \in {1, 2} : known'[V!Daemon][x] \in {Blank, reply[x]}
  BY <1>0, <1>7, WaitsForDaemon DEF V!KnownInv
<1>10. V!KnownInv'
  BY <1>1, <1>3, <1>5, <1>6, <1>8, <1>9 DEF V!KnownInv, V!Agrees
<1> QED
  BY <1>3, <1>10 DEF VlogInv, V!VlogInv

\* What an action that touches neither a daemon nor an answer leaves true.
LEMMA KnownStays ==
  ASSUME V!KnownInv, UNCHANGED <<level, known, answers>>,
         V!Showing' /\ answers # <<>> => V!Showing,
         V!Showing' /\ pc' = "reply" => \A x \in {1, 2} : known[V!Daemon'][x] \in {Blank, reply'[x]}
  PROVE  V!KnownInv'
<1>1. /\ level = [d \in Daemons |-> level[d]] /\ known = [d \in Daemons |-> known[d]]
      /\ \A d \in Daemons, x \in {1, 2} : known[d][x] \in {Blank, level[d][x]}
  BY DEF V!KnownInv, V!Agrees
<1>2. V!Showing => \A i \in DOMAIN answers :
        /\ answers[i].daemon \in Daemons
        /\ \A x \in {1, 2} : known[answers[i].daemon][x] \in {Blank, answers[i].levels[x]}
  BY DEF V!KnownInv, V!Agrees
<1>3. V!Showing' => \A i \in DOMAIN answers' :
        /\ answers'[i].daemon \in Daemons
        /\ \A x \in {1, 2} : known'[answers'[i].daemon][x] \in {Blank, answers'[i].levels[x]}
  <2>1. CASE answers = <<>>
    BY <2>1
  <2>2. CASE answers # <<>>
    BY <1>2, <2>2
  <2> QED
    BY <2>1, <2>2
<1> QED
  BY <1>1, <1>3 DEF V!KnownInv, V!Agrees

\* One lemma for each action: a command is typed ...
LEMMA TypeKeeps ==
  ASSUME VlogInv, NEW c \in Commands, V!Type(c)
  PROVE  VlogInv'
<1>0. V!LoopInv /\ V!KnownInv /\ V!FlagInv /\ V!RowsInv /\ V!OneDaemonInv
  BY DEF VlogInv, V!VlogInv
<1>1. /\ pc = "idle" /\ command' = c /\ pc' = IF c.of = "daemon" THEN "ask" ELSE "map"
      /\ UNCHANGED <<level, known, feature_head, flag, iter_feature, iter_daemon,
                     reply, failed, rows, return_val, answers>>
  BY DEF V!Type, V!daemons, V!static
<1>2. iter_feature = 1 /\ iter_daemon = 1 /\ ~failed /\ rows = <<>> /\ answers = <<>>
  BY <1>0, <1>1 DEF V!LoopInv
<1>3. pc' \in {"ask", "map"} /\ (pc' = "ask" <=> c.of = "daemon")
  BY <1>1
<1>4. V!LoopInv'
  BY <1>0, <1>1, <1>2, <1>3 DEF V!LoopInv, V!InLoop
<1>5. V!KnownInv'
  BY <1>0, <1>1, <1>2, <1>3, KnownStays
<1>6. flag = FALSE
  BY <1>0, <1>1 DEF V!FlagInv, V!InLoop
<1>7. V!FlagInv'
  BY <1>1, <1>3, <1>6 DEF V!FlagInv, V!InLoop
<1>8. V!RowsFor(answers)' = <<>>
  <2>1. command'.of \in {"daemon", "feature", "all"}
    BY <1>1, CommandsAssumption DEF CommandsAssumption
  <2> QED
    BY <1>1, <1>2, <2>1 DEF V!RowsFor
<1>9. V!RowsInv'
  BY <1>0, <1>1, <1>2, <1>8 DEF V!RowsInv
<1>10. V!OneDaemonInv'
  BY <1>1, <1>2, <1>3 DEF V!OneDaemonInv
<1> QED
  BY <1>4, <1>5, <1>7, <1>9, <1>10 DEF VlogInv, V!VlogInv

\* ... the mapping is read, or cannot be ...
LEMMA MapKeeps ==
  ASSUME VlogInv, V!Map
  PROVE  VlogInv'
<1>0. V!LoopInv /\ V!KnownInv /\ V!FlagInv /\ V!RowsInv /\ V!OneDaemonInv
  BY DEF VlogInv, V!VlogInv
<1>1. /\ pc = "map"
      /\ feature_head' = <<>> \/ feature_head' \in Mappings
      /\ UNCHANGED <<level, known, flag, command, iter_daemon, reply, failed, rows, answers>>
  BY <1>0 DEF V!Map, V!daemons, V!LoopInv
<1>2. iter_feature = 1 /\ iter_daemon = 1 /\ ~failed /\ rows = <<>> /\ answers = <<>>
  BY <1>0, <1>1 DEF V!LoopInv
<1>3. \/ /\ pc' = "ask" /\ iter_feature' \in DOMAIN feature_head'
         /\ command.of # "daemon" /\ UNCHANGED return_val
      \/ pc' = "done" /\ return_val' = "warning"
  <2>1. CASE \E i \in DOMAIN feature_head' :
               /\ V!Begins(feature_head', i)
               /\ pc' = "ask" /\ iter_feature' = i /\ UNCHANGED return_val
    BY <2>1 DEF V!Begins
  <2>2. CASE V!Finish("warning")
    BY <2>2 DEF V!Finish
  <2> QED
    BY <2>1, <2>2 DEF V!Map
<1>4. command \in Commands
  BY <1>0, <1>1 DEF V!LoopInv
<1>5. pc' = "ask" => 1 \in 1..Len(V!Feature'.daemons) + 1 
  <2> SUFFICES ASSUME pc' = "ask" PROVE 1 \in 1..Len(V!Feature'.daemons) + 1
    OBVIOUS
  <2>1. iter_feature' \in DOMAIN feature_head' /\ feature_head' \in Mappings
    BY <1>1, <1>3
  <2>2. V!Feature'.daemons \in Seq(Daemons)
    BY <2>1, MappingsAssumption DEF MappingsAssumption, V!Feature
  <2>3. Len(V!Feature'.daemons) \in Nat
    BY <2>2, LenProperties
  <2> QED
    BY <2>3
<1>6. V!LoopInv'
  BY <1>1, <1>2, <1>3, <1>4, <1>5 DEF V!LoopInv, V!InLoop
<1>7. V!KnownInv'
  BY <1>0, <1>1, <1>2, <1>3, KnownStays
<1>8. flag = FALSE
  BY <1>0, <1>1 DEF V!FlagInv, V!InLoop
<1>9. V!FlagInv'
  <2>1. answers' = <<>> /\ flag' = FALSE
    BY <1>1, <1>2, <1>8
  <2>2. flag' = (answers' # <<>> /\ answers'[Len(answers')].feature = V!Feature.name')
    BY <2>1
  <2>3. \A i \in DOMAIN answers' : FALSE
    BY <2>1
  <2> QED
    BY <2>1, <2>2, <2>3 DEF V!FlagInv
<1>10. V!RowsFor(answers)' = <<>>
  <2>1. command'.of \in {"daemon", "feature", "all"}
    BY <1>1, <1>4, CommandsAssumption DEF CommandsAssumption
  <2> QED
    BY <1>1, <1>2, <2>1 DEF V!RowsFor
<1>11. V!RowsInv'
  BY <1>0, <1>1, <1>2, <1>10 DEF V!RowsInv
<1>12. V!OneDaemonInv'
  BY <1>1, <1>2, <1>3 DEF V!OneDaemonInv
<1> QED
  BY <1>6, <1>7, <1>9, <1>11, <1>12 DEF VlogInv, V!VlogInv

\* The feature that the loop is at.
LEMMA AtFeature ==
  ASSUME V!LoopInv, V!InLoop, command.of # "daemon"
  PROVE  /\ feature_head \in Mappings /\ feature_head \in Seq(ToSet(feature_head))
         /\ iter_feature \in 1..Len(feature_head)
         /\ Len(V!Feature.daemons) \in Nat
         /\ iter_daemon \in 1..Len(V!Feature.daemons) + 1
         /\ \A i, j \in DOMAIN feature_head :
              feature_head[i].name = feature_head[j].name => i = j
<1>1. /\ iter_feature \in DOMAIN feature_head
      /\ iter_daemon \in 1..Len(V!Feature.daemons) + 1
  BY DEF V!LoopInv
<1>2. feature_head \in Mappings
  BY <1>1 DEF V!LoopInv
<1>3. /\ feature_head \in Seq(ToSet(feature_head))
      /\ V!Feature.daemons \in Seq(Daemons)
      /\ \A i, j \in DOMAIN feature_head :
           feature_head[i].name = feature_head[j].name => i = j
  BY <1>1, <1>2, MappingsAssumption DEF MappingsAssumption, V!Feature
<1> QED
  BY <1>1, <1>2, <1>3, LenProperties

\* ... a daemon is connected to ...
LEMMA ConnectKeeps ==
  ASSUME VlogInv, V!Connect
  PROVE  VlogInv'
<1>0. V!LoopInv /\ V!KnownInv /\ V!FlagInv /\ V!RowsInv /\ V!OneDaemonInv
  BY DEF VlogInv, V!VlogInv
<1>1. /\ pc = "ask" /\ pc' = "wait"
      /\ IF command.of = "daemon" THEN iter_daemon = 1
         ELSE iter_daemon <= Len(V!Feature.daemons)
      /\ UNCHANGED <<level, known, feature_head, flag, command, iter_feature,
                     iter_daemon, reply, failed, rows, return_val, answers>>
  BY DEF V!Connect, V!Asking, V!daemons, V!static
<1>2. /\ V!InLoop /\ V!InLoop' /\ V!Feature' = V!Feature /\ V!Showing' = V!Showing
      /\ V!RowsFor(answers)' = V!RowsFor(answers)
  BY <1>1 DEF V!InLoop, V!Feature, V!Showing, V!RowsFor
<1>3. V!LoopInv'
  BY <1>0, <1>1, <1>2 DEF V!LoopInv
<1>4. V!KnownInv'
  BY <1>0, <1>1, <1>2, KnownStays
<1>5. V!FlagInv'
  BY <1>0, <1>1, <1>2 DEF V!FlagInv
<1>6. V!RowsInv'
  BY <1>0, <1>1, <1>2 DEF V!RowsInv
<1>7. V!OneDaemonInv'
  BY <1>1 DEF V!OneDaemonInv
<1> QED
  BY <1>3, <1>4, <1>5, <1>6, <1>7 DEF VlogInv, V!VlogInv

\* ... the daemon answers ...
LEMMA ServeKeeps ==
  ASSUME VlogInv, V!Serve
  PROVE  VlogInv'
<1>0. V!LoopInv /\ V!KnownInv /\ V!FlagInv /\ V!RowsInv /\ V!OneDaemonInv
  BY DEF VlogInv, V!VlogInv
<1>1. /\ pc = "wait" /\ pc' = "reply"
      /\ UNCHANGED <<feature_head, flag, command, iter_feature,
                     iter_daemon, failed, rows, return_val, answers>>
  BY DEF V!Serve, V!static
<1>2. /\ V!InLoop /\ V!InLoop' /\ V!Feature' = V!Feature /\ V!Showing' = V!Showing
      /\ V!RowsFor(answers)' = V!RowsFor(answers) /\ V!Daemon' = V!Daemon
  BY <1>1 DEF V!InLoop, V!Feature, V!Showing, V!RowsFor, V!Daemon
<1>3. V!LoopInv'
  BY <1>0, <1>1, <1>2 DEF V!LoopInv
<1>4. V!KnownInv'
  <2>1. V!Daemon \in Daemons
    BY <1>0, <1>1, WaitsForDaemon
  <2>2. CASE command.verb = "show"
    <3>1. /\ reply' = level[V!Daemon] /\ UNCHANGED <<level, known, answers>>
      BY <1>1, <2>2 DEF V!Serve
    <3>2. \A x \in {1, 2} : known[V!Daemon][x] \in {Blank, reply'[x]}
      BY <1>0, <2>1, <3>1 DEF V!KnownInv, V!Agrees
    <3> QED
      BY <1>0, <1>2, <3>1, <3>2, KnownStays
  <2>3. CASE command.verb = "set"
    <3> DEFINE d == V!Daemon
               l == V!With(level[d], V!Destination, command.to)
               k == IF command.dest = "all" THEN <<command.to, command.to>>
                    ELSE V!With(known[d], command.dest, command.to)
    <3>1. level' = [level EXCEPT ![d] = l] /\ known' = [known EXCEPT ![d] = k]
      BY <2>3 DEF V!Serve
    <3>2. \A x \in {1, 2} : k[x] \in {Blank, l[x]}
      <4>1. \A x \in {1, 2} : known[d][x] \in {Blank, level[d][x]}
        BY <1>0, <2>1 DEF V!KnownInv, V!Agrees
      <4>2. CASE command.dest = "all"
        BY <4>2 DEF V!With, V!Destination
      <4>3. CASE command.dest # "all"
        BY <4>1, <4>3 DEF V!With, V!Destination
      <4> QED
        BY <4>2, <4>3
    <3> HIDE DEF l, k
    <3>3. /\ level' = [e \in Daemons |-> level'[e]]
          /\ known' = [e \in Daemons |-> known'[e]]
      BY <1>0, <3>1 DEF V!KnownInv
    <3>4. ASSUME NEW e \in Daemons, NEW x \in {1, 2}
          PROVE  known'[e][x] \in {Blank, level'[e][x]}
      <4>1. level = [c \in Daemons |-> level[c]] /\ known = [c \in Daemons |-> known[c]]
            /\ known[e][x] \in {Blank, level[e][x]}
        BY <1>0 DEF V!KnownInv, V!Agrees
      <4>2. CASE e = d
        BY <2>1, <3>1, <3>2, <4>1, <4>2
      <4>3. CASE e # d
        BY <3>1, <4>1, <4>3
      <4> QED
        BY <4>2, <4>3
    <3>5. ~V!Showing'
      BY <1>1, <2>3 DEF V!Showing
    <3> QED
      BY <3>3, <3>4, <3>5 DEF V!KnownInv, V!Agrees
  <2>4. command.verb \in {"show", "set"}
    BY <1>0, <1>1, CommandsAssumption DEF V!LoopInv, CommandsAssumption
  <2> QED
    BY <2>2, <2>3, <2>4
<1>5. V!FlagInv'
  BY <1>0, <1>1, <1>2 DEF V!FlagInv
<1>6. V!RowsInv'
  BY <1>0, <1>1, <1>2 DEF V!RowsInv
<1>7. V!OneDaemonInv'
  BY <1>1 DEF V!OneDaemonInv
<1> QED
  BY <1>3, <1>4, <1>5, <1>6, <1>7 DEF VlogInv, V!VlogInv

\* After an answer or a failure the loop is at the next daemon, if there is one.
LEMMA AdvanceLoop ==
  ASSUME V!LoopInv, NEW fails \in BOOLEAN, V!Advance(fails),
         V!Asking \/ pc \in {"wait", "reply"},
         UNCHANGED <<command, feature_head, iter_feature>>
  PROVE  V!LoopInv' /\ V!InLoop /\ V!InLoop' /\ pc' = "ask" /\ failed' = fails
         /\ V!Feature' = V!Feature /\ (command.of = "daemon" => iter_daemon' = 2)
<1>1. /\ pc' = "ask" /\ iter_daemon' = iter_daemon + 1 /\ failed' = fails
      /\ pc \in {"ask", "wait", "reply"} /\ V!InLoop /\ V!InLoop' /\ V!Feature' = V!Feature
  BY DEF V!Advance, V!Asking, V!InLoop, V!Feature
<1>2. CASE command.of = "daemon"
  <2>1. iter_daemon = 1
    BY <1>2 DEF V!LoopInv, V!Asking
  <2> QED
    BY <1>1, <1>2, <2>1 DEF V!LoopInv
<1>3. CASE command.of # "daemon"
  <2>1. iter_daemon <= Len(V!Feature.daemons)
    BY <1>3 DEF V!LoopInv, V!Asking
  <2>2. iter_daemon + 1 \in 1..Len(V!Feature.daemons) + 1
    BY <1>1, <1>3, <2>1, AtFeature
  <2> QED
    BY <1>1, <1>3, <2>2 DEF V!LoopInv
<1> QED
  BY <1>2, <1>3

\* ... or fails ...
LEMMA FailsKeeps ==
  ASSUME VlogInv, V!Fails
  PROVE  VlogInv'
<1>0. V!LoopInv /\ V!KnownInv /\ V!FlagInv /\ V!RowsInv /\ V!OneDaemonInv
  BY DEF VlogInv, V!VlogInv
<1>1. /\ V!Asking \/ pc \in {"wait", "reply"}
      /\ V!Advance(TRUE)
      /\ UNCHANGED <<level, known, feature_head, flag, command, iter_feature, rows,
                     return_val, answers>>
  BY DEF V!Fails, V!daemons, V!static
<1>2. /\ V!LoopInv' /\ V!InLoop /\ V!InLoop' /\ V!Feature' = V!Feature
      /\ pc' = "ask" /\ failed' = TRUE
  BY <1>0, <1>1, AdvanceLoop DEF V!Fails
<1>3. V!Showing' = V!Showing /\ V!RowsFor(answers)' = V!RowsFor(answers)
  BY <1>1, <1>2 DEF V!Showing, V!RowsFor
<1>4. V!KnownInv'
  BY <1>0, <1>1, <1>2, <1>3, KnownStays
<1>5. V!FlagInv'
  BY <1>0, <1>1, <1>2, <1>3 DEF V!FlagInv
<1>6. V!RowsInv'
  BY <1>0, <1>1, <1>3 DEF V!RowsInv
<1>7. V!OneDaemonInv'
  BY <1>2 DEF V!OneDaemonInv
<1> QED
  BY <1>2, <1>4, <1>5, <1>6, <1>7 DEF VlogInv, V!VlogInv

\* The row that is displayed for an answer is the one that it should have.
LEMMA RowsGrow ==
  ASSUME V!LoopInv, V!FlagInv, V!RowsInv, V!InLoop, command.verb = "show"
  PROVE  V!RowsFor(Append(answers, V!Answer)) = rows \o V!Row
<1> DEFINE given == Append(answers, V!Answer)
<1>1. /\ given \in Seq(V!ToSet(answers) \cup {V!Answer}) /\ Len(answers) \in Nat
      /\ Len(given) = Len(answers) + 1
      /\ DOMAIN given = 1..Len(answers) + 1 /\ DOMAIN answers = 1..Len(answers)
      /\ given[Len(answers) + 1] = V!Answer
      /\ \A i \in 1..Len(answers) : given[i] = answers[i]
  <2> DEFINE S == V!ToSet(answers) \cup {V!Answer}
  <2>1. answers \in Seq(V!ToSet(answers))
    BY DEF V!RowsInv
  <2>2. /\ answers \in Seq(S) /\ V!Answer \in S /\ Len(answers) \in Nat
        /\ DOMAIN answers = 1..Len(answers)
    BY <2>1, LenProperties
  <2> HIDE DEF S
  <2>3. /\ given \in Seq(S) /\ Len(given) = Len(answers) + 1
        /\ \A i \in 1..Len(answers) : given[i] = answers[i]
        /\ given[Len(answers) + 1] = V!Answer
    BY <2>2, AppendProperties
  <2>4. DOMAIN given = 1..Len(answers) + 1
    BY <2>3, LenProperties
  <2> QED
    BY <2>2, <2>3, <2>4 DEF S
<1>2. rows = V!RowsFor(answers) /\ rows \in Seq(V!ToSet(rows))
  BY DEF V!RowsInv, V!Showing
<1>3. command.of \in {"daemon", "feature", "all"}
  BY CommandsAssumption DEF V!LoopInv, V!InLoop, CommandsAssumption
<1>4. answers = <<>> <=> Len(answers) = 0
  BY <1>1, EmptySeq DEF V!RowsInv
<1> SUFFICES V!RowsFor(given) = rows \o V!Row
  OBVIOUS
<1> HIDE DEF given
<1>5. CASE command.of = "daemon"
  <2>1. V!Row = <<V!Answer>> /\ V!RowsFor(given) = given /\ rows = answers
    BY <1>2, <1>5 DEF V!Row, V!Answer, V!RowsFor
  <2>2. given = answers \o <<V!Answer>>
    BY DEF given, V!RowsInv
  <2> QED
    BY <2>1, <2>2
<1>6. CASE command.of = "feature"
  <2>1. flag = (answers # <<>>)
    <3>1. \A i \in DOMAIN answers : answers[i].feature = V!Feature.name
      BY <1>6 DEF V!FlagInv, V!Feature
    <3>2. answers # <<>> => answers[Len(answers)].feature = V!Feature.name
      BY <1>1, <1>4, <3>1
    <3>3. flag = (answers # <<>> /\ answers[Len(answers)].feature = V!Feature.name)
      BY <1>6 DEF V!FlagInv
    <3> QED
      BY <3>2, <3>3
  <2>2. V!RowsFor(given) = [i \in 1..1 |-> [feature |-> given[i].feature, daemon |-> Blank,
                                          levels |-> given[i].levels]]
    BY <1>1, <1>6 DEF V!RowsFor
  <2>3. CASE answers = <<>>
    <3>1. given[1] = V!Answer
      BY <1>1, <1>4, <2>3
    <3>2. V!Row = <<[feature |-> V!Answer.feature, daemon |-> Blank,
                    levels |-> V!Answer.levels]>>
      BY <1>6, <2>1, <2>3 DEF V!Row, V!Answer
    <3>3. rows = <<>>
      BY <1>2, <1>6, <2>3 DEF V!RowsFor
    <3> QED
      BY <2>2, <3>1, <3>2, <3>3
  <2>4. CASE answers # <<>>
    <3>1. given[1] = answers[1]
      BY <1>1, <1>4, <2>4
    <3>2. V!Row = <<>>
      BY <1>6, <2>1, <2>4 DEF V!Row
    <3>3. rows = [i \in 1..1 |-> [feature |-> answers[i].feature, daemon |-> Blank,
                                  levels |-> answers[i].levels]]
      BY <1>2, <1>6, <2>4 DEF V!RowsFor
    <3>4. V!RowsFor(given) = rows
      BY <2>2, <3>1, <3>3
    <3>5. rows \o <<>> = rows
      BY <1>2
    <3> QED
      BY <3>2, <3>4, <3>5
  <2> QED
    BY <2>3, <2>4
<1>7. CASE command.of = "all"
  <2> DEFINE r == [feature |-> IF flag THEN Blank ELSE V!Feature.name,
                   daemon |-> V!Answer.daemon, levels |-> V!Answer.levels]
             RowAt(a, i) == [feature |-> IF i > 1 /\ a[i - 1].feature = a[i].feature
                                           THEN Blank ELSE a[i].feature,
                             daemon |-> a[i].daemon, levels |-> a[i].levels]
             n == Len(answers)
  <2>1. V!Row = <<r>>
    BY <1>7 DEF V!Row, V!Answer
  <2>2. V!RowsFor(given) = [i \in 1..n + 1 |-> RowAt(given, i)]
    BY <1>1, <1>7 DEF V!RowsFor
  <2>3. rows = [i \in 1..n |-> RowAt(answers, i)]
    BY <1>1, <1>2, <1>7 DEF V!RowsFor
  <2>4. \A i \in 1..n : RowAt(given, i) = RowAt(answers, i)
    <3> SUFFICES ASSUME NEW i \in 1..n PROVE RowAt(given, i) = RowAt(answers, i)
      OBVIOUS
    <3>1. given[i] = answers[i] /\ (i > 1 => given[i - 1] = answers[i - 1])
      BY <1>1
    <3> QED
      BY <3>1
  <2>5. RowAt(given, n + 1) = r
    <3>1. flag = (answers # <<>> /\ answers[n].feature = V!Feature.name)
      BY <1>7 DEF V!FlagInv
    <3>2. given[n + 1] = V!Answer /\ V!Answer.feature = V!Feature.name
      BY <1>1, <1>7 DEF V!Answer
    <3>3. n + 1 > 1 <=> answers # <<>>
      BY <1>1, <1>4
    <3>4. answers # <<>> => given[n + 1 - 1] = answers[n]
      BY <1>1, <1>4
    <3>5. (n + 1 > 1 /\ given[n + 1 - 1].feature = given[n + 1].feature) <=> flag
      BY <3>1, <3>2, <3>3, <3>4
    <3> QED
      BY <3>2, <3>5
  <2> HIDE DEF r, RowAt
  <2>6. Len(rows) = n
    BY <1>1, <2>3
  <2>7. rows \o <<r>> = Append(rows, r)
    BY <1>2
  <2>8. /\ Append(rows, r) = [i \in 1..n + 1 |-> Append(rows, r)[i]]
        /\ Append(rows, r)[n + 1] = r
        /\ \A i \in 1..n : Append(rows, r)[i] = rows[i]
    <3> DEFINE S == V!ToSet(rows) \cup {r}
    <3>1. rows \in Seq(S) /\ r \in S
      BY <1>2
    <3> HIDE DEF S
    <3>2. /\ Append(rows, r) \in Seq(S) /\ Len(Append(rows, r)) = n + 1
          /\ Append(rows, r)[n + 1] = r
          /\ \A i \in 1..n : Append(rows, r)[i] = rows[i]
      BY <2>6, <3>1, AppendProperties
    <3>3. Append(rows, r) \in [1..n + 1 -> S]
      BY <3>2, LenProperties
    <3> QED
      BY <3>2, <3>3
  <2>9. \A i \in 1..n + 1 : Append(rows, r)[i] = RowAt(given, i)
    <3> SUFFICES ASSUME NEW i \in 1..n + 1 PROVE Append(rows, r)[i] = RowAt(given, i)
      OBVIOUS
    <3>1. CASE i = n + 1
      BY <2>5, <2>8, <3>1
    <3>2. CASE i # n + 1
      <4>1. i \in 1..n
        BY <1>1, <3>2
      <4> QED
        BY <2>3, <2>4, <2>8, <4>1
    <3> QED
      BY <3>1, <3>2
  <2> QED
    BY <2>1, <2>2, <2>7, <2>8, <2>9
<1> QED
  BY <1>3, <1>5, <1>6, <1>7

\* ... its reply becomes a row of what is shown ...
LEMMA ReceiveKeeps ==
  ASSUME VlogInv, V!Receive
  PROVE  VlogInv'
<1>0. V!LoopInv /\ V!KnownInv /\ V!FlagInv /\ V!RowsInv /\ V!OneDaemonInv
  BY DEF VlogInv, V!VlogInv
<1>1. /\ pc = "reply" /\ V!Advance(FALSE)
      /\ answers' = Append(answers, V!Answer)
      /\ UNCHANGED <<level, known, feature_head, command, iter_feature, return_val>>
  BY DEF V!Receive, V!daemons
<1>2. /\ V!LoopInv' /\ V!InLoop /\ V!InLoop' /\ V!Feature' = V!Feature
      /\ pc' = "ask" /\ failed' = FALSE
  BY <1>0, <1>1, AdvanceLoop
<1>3. /\ V!Showing' = V!Showing /\ (V!Showing <=> command.verb = "show")
      /\ V!RowsFor(answers)' = V!RowsFor(answers')
  BY <1>1, <1>2 DEF V!Showing, V!RowsFor
<1>4. /\ Len(answers) \in Nat /\ Len(answers') = Len(answers) + 1
      /\ DOMAIN answers' = 1..Len(answers) + 1 /\ DOMAIN answers = 1..Len(answers)
      /\ answers'[Len(answers) + 1] = V!Answer
      /\ \A i \in 1..Len(answers) : answers'[i] = answers[i]
      /\ answers' \in Seq(V!ToSet(answers'))
  <2> DEFINE S == V!ToSet(answers) \cup {V!Answer}
  <2>1. answers \in Seq(V!ToSet(answers))
    BY <1>0 DEF V!RowsInv
  <2>2. /\ answers \in Seq(S) /\ V!Answer \in S /\ Len(answers) \in Nat
        /\ DOMAIN answers = 1..Len(answers)
    BY <2>1, LenProperties
  <2> HIDE DEF S
  <2>3. /\ answers' \in Seq(S) /\ Len(answers') = Len(answers) + 1
        /\ \A i \in 1..Len(answers) : answers'[i] = answers[i]
        /\ answers'[Len(answers) + 1] = V!Answer
    BY <1>1, <2>2, AppendProperties
  <2>4. DOMAIN answers' = 1..Len(answers) + 1
    BY <2>3, LenProperties
  <2>5. answers' \in Seq(V!ToSet(answers'))
    BY <2>3 DEF V!ToSet
  <2> QED
    BY <2>2, <2>3, <2>4, <2>5
<1>5. V!KnownInv'
  <2>1. /\ level = [d \in Daemons |-> level[d]] /\ known = [d \in Daemons |-> known[d]]
        /\ \A d \in Daemons, x \in {1, 2} : known[d][x] \in {Blank, level[d][x]}
    BY <1>0 DEF V!KnownInv, V!Agrees
  <2>2. V!Showing => \A i \in DOMAIN answers' :
          /\ answers'[i].daemon \in Daemons
          /\ \A x \in {1, 2} : known[answers'[i].daemon][x] \in {Blank, answers'[i].levels[x]}
    <3> SUFFICES ASSUME V!Showing, NEW i \in DOMAIN answers'
                 PROVE  /\ answers'[i].daemon \in Daemons
                        /\ \A x \in {1, 2} :
                             known[answers'[i].daemon][x] \in {Blank, answers'[i].levels[x]}
      OBVIOUS
    <3>1. CASE i = Len(answers) + 1
      <4>1. answers'[i].daemon = V!Daemon /\ answers'[i].levels = reply
        BY <1>4, <3>1 DEF V!Answer
      <4>2. V!Daemon \in Daemons
        BY <1>0, <1>1, WaitsForDaemon
      <4>3. \A x \in {1, 2} : known[V!Daemon][x] \in {Blank, reply[x]}
        BY <1>0, <1>1 DEF V!KnownInv, V!Agrees
      <4> QED
        BY <4>1, <4>2, <4>3
    <3>2. CASE i # Len(answers) + 1
      <4>1. i \in DOMAIN answers /\ answers'[i] = answers[i]
        BY <1>4, <3>2
      <4> QED
        BY <1>0, <4>1 DEF V!KnownInv, V!Agrees
    <3> QED
      BY <3>1, <3>2
  <2> QED
    BY <1>1, <1>2, <1>3, <2>1, <2>2 DEF V!KnownInv, V!Agrees
<1>6. V!FlagInv'
  <2>1. CASE command.verb = "show" /\ command.of # "daemon"
    <3>1. flag' = TRUE
      BY <2>1 DEF V!Receive
    <3>2. V!Answer.feature = V!Feature.name /\ iter_feature \in 1..Len(feature_head)
          /\ V!Feature.name = feature_head[iter_feature].name
      BY <1>0, <1>2, <2>1, AtFeature DEF V!Answer, V!Feature
    <3>3. answers' # <<>> /\ answers'[Len(answers')].feature = V!Feature.name
      BY <1>4, <3>2
    <3>4. ASSUME NEW i \in DOMAIN answers'
          PROVE  \E k \in 1..iter_feature :
                   /\ answers'[i].feature = feature_head[k].name
                   /\ command.of = "feature" => k = iter_feature
      <4>1. CASE i = Len(answers) + 1
        <5>1. iter_feature \in 1..iter_feature
          BY <3>2
        <5> QED
          BY <1>4, <3>2, <4>1, <5>1
      <4>2. CASE i # Len(answers) + 1
        <5>1. i \in DOMAIN answers /\ answers'[i] = answers[i]
          BY <1>4, <4>2
        <5> QED
          BY <1>0, <1>2, <2>1, <5>1 DEF V!FlagInv
      <4> QED
        BY <4>1, <4>2
    <3>5. flag' = (answers' # <<>> /\ answers'[Len(answers')].feature = V!Feature.name)
      BY <3>1, <3>3
    <3> QED
      BY <1>1, <1>2, <2>1, <3>4, <3>5 DEF V!FlagInv
  <2>2. CASE command.verb # "show" \/ command.of = "daemon"
    <3>1. flag = FALSE
      BY <1>0, <2>2 DEF V!FlagInv
    <3>2. flag' = FALSE
      <4>1. CASE command.verb = "set"
        BY <3>1, <4>1 DEF V!Receive
      <4>2. CASE command.verb # "set" /\ command.of = "daemon"
        BY <3>1, <4>2 DEF V!Receive
      <4>3. command.verb \in {"show", "set"}
        BY <1>0, <1>1, CommandsAssumption DEF V!LoopInv, CommandsAssumption
      <4> QED
        BY <2>2, <4>1, <4>2, <4>3
    <3> QED
      BY <1>1, <2>2, <3>2 DEF V!FlagInv
  <2> QED
    BY <2>1, <2>2
<1>7. V!RowsInv'
  <2>1. CASE command.verb = "show"
    <3>1. rows' = rows \o V!Row
      BY <2>1 DEF V!Receive
    <3>2. V!RowsFor(answers') = rows'
      BY <1>0, <1>1, <1>2, <2>1, <3>1, RowsGrow
    <3>3. rows' \in Seq(V!ToSet(rows'))
      <4>1. PICK T : rows \in Seq(T) /\ V!Row \in Seq(T)
        <5>1. V!Row = <<>> \/ \E r : V!Row = <<r>>
          BY DEF V!Row
        <5>2. rows \in Seq(V!ToSet(rows))
          BY <1>0 DEF V!RowsInv
        <5>3. CASE V!Row = <<>>
          BY <5>2, <5>3
        <5>4. ASSUME NEW r, V!Row = <<r>>
              PROVE  \E T : rows \in Seq(T) /\ V!Row \in Seq(T)
          <6>1. rows \in Seq(V!ToSet(rows) \cup {r}) /\ <<r>> \in Seq(V!ToSet(rows) \cup {r})
            BY <5>2
          <6> QED
            BY <5>4, <6>1
        <5> QED
          BY <5>1, <5>3, <5>4
      <4>2. rows' \in Seq(T)
        BY <3>1, <4>1
      <4> QED
        BY <4>2 DEF V!ToSet
    <3> QED
      BY <1>3, <1>4, <3>2, <3>3 DEF V!RowsInv
  <2>2. CASE command.verb # "show"
    <3>1. UNCHANGED rows
      <4>1. command.verb = "set"
        BY <1>0, <1>1, <2>2, CommandsAssumption DEF V!LoopInv, CommandsAssumption
      <4> QED
        BY <4>1 DEF V!Receive
    <3> QED
      BY <1>0, <1>3, <1>4, <2>2, <3>1 DEF V!RowsInv
  <2> QED
    BY <2>1, <2>2
<1>8. V!OneDaemonInv'
  <2>1. answers' # <<>>
    BY <1>4
  <2> QED
    BY <2>1 DEF V!OneDaemonInv
<1> QED
  BY <1>2, <1>5, <1>6, <1>7, <1>8 DEF VlogInv, V!VlogInv

\* ... a feature has no more daemons ...
LEMMA EndOfFeatureKeeps ==
  ASSUME VlogInv, V!EndOfFeature
  PROVE  VlogInv'
<1>0. V!LoopInv /\ V!KnownInv /\ V!FlagInv /\ V!RowsInv /\ V!OneDaemonInv
  BY DEF VlogInv, V!VlogInv
<1>1. /\ pc = "ask" /\ command.of # "daemon" /\ flag' = V!Rewound
      /\ UNCHANGED <<level, known, feature_head, command, reply, failed, rows, answers>>
  BY DEF V!EndOfFeature, V!daemons
<1>2. /\ V!InLoop /\ (V!Showing <=> command.verb = "show")
      /\ V!RowsFor(answers)' = V!RowsFor(answers)
  BY <1>1 DEF V!InLoop, V!Showing, V!RowsFor
<1>3. /\ feature_head \in Mappings /\ feature_head \in Seq(ToSet(feature_head))
      /\ iter_feature \in 1..Len(feature_head) /\ DOMAIN feature_head = 1..Len(feature_head)
      /\ \A i, j \in DOMAIN feature_head :
           feature_head[i].name = feature_head[j].name => i = j
  BY <1>0, <1>1, <1>2, AtFeature, LenProperties
<1>4. command \in Commands /\ command.verb \in {"show", "set"}
  BY <1>0, <1>1, CommandsAssumption DEF V!LoopInv, CommandsAssumption
<1>5. flag' = FALSE
  <2>1. CASE command.verb = "show"
    BY <1>1, <2>1 DEF V!Rewound
  <2>2. CASE command.verb = "set"
    BY <1>0, <1>1, <2>2 DEF V!Rewound, V!FlagInv
  <2> QED
    BY <1>4, <2>1, <2>2
<1>6. CASE command.of = "all" /\ iter_feature < Len(feature_head)
  <2>1. /\ iter_feature' = iter_feature + 1 /\ iter_daemon' = 1
        /\ UNCHANGED <<pc, return_val>>
    BY <1>6 DEF V!EndOfFeature
  <2>2. iter_feature' \in 1..Len(feature_head) /\ V!InLoop' /\ V!Showing' = V!Showing
    BY <1>1, <1>3, <1>6, <2>1 DEF V!InLoop, V!Showing
  <2>3. 1 \in 1..Len(V!Feature'.daemons) + 1
    <3>1. V!Feature'.daemons \in Seq(Daemons)
      BY <1>1, <1>3, <2>2, MappingsAssumption DEF MappingsAssumption, V!Feature
    <3> QED
      BY <3>1, LenProperties
  <2>4. V!LoopInv'
    BY <1>0, <1>1, <1>3, <1>4, <2>1, <2>2, <2>3 DEF V!LoopInv
  <2>5. V!KnownInv'
    BY <1>0, <1>1, <2>1, <2>2, KnownStays
  <2>6. V!FlagInv'
    <3>1. CASE command.verb = "show"
      <4>1. ASSUME NEW i \in DOMAIN answers
            PROVE  \E k \in 1..iter_feature : answers[i].feature = feature_head[k].name
        BY <1>0, <1>1, <1>2, <3>1 DEF V!FlagInv
      <4>2. ASSUME NEW i \in DOMAIN answers
            PROVE  /\ \E k \in 1..iter_feature' : answers[i].feature = feature_head[k].name
                   /\ answers[i].feature # V!Feature'.name
        <5>1. PICK k \in 1..iter_feature : answers[i].feature = feature_head[k].name
          BY <4>1
        <5>2. /\ k \in DOMAIN feature_head /\ iter_feature' \in DOMAIN feature_head
              /\ k # iter_feature' /\ k \in 1..iter_feature'
          BY <1>3, <2>1, <2>2
        <5>3. feature_head[k].name # feature_head[iter_feature'].name
          BY <1>3, <5>2
        <5>4. V!Feature'.name = feature_head[iter_feature'].name
          BY <1>1 DEF V!Feature
        <5> QED
          BY <5>1, <5>2, <5>3, <5>4
      <4>3. answers # <<>> => Len(answers) \in DOMAIN answers
        <5>1. /\ Len(answers) \in Nat /\ DOMAIN answers = 1..Len(answers)
              /\ answers = <<>> <=> Len(answers) = 0
          BY <1>0, EmptySeq, LenProperties DEF V!RowsInv
        <5> QED
          BY <5>1
      <4>4. flag' = (answers # <<>> /\ answers[Len(answers)].feature = V!Feature'.name)
        BY <1>5, <4>2, <4>3
      <4>5. \A i \in DOMAIN answers' :
              \E k \in 1..iter_feature' :
                /\ answers'[i].feature = feature_head'[k].name
                /\ command'.of = "feature" => k = iter_feature'
        BY <1>1, <1>6, <4>2
      <4>6. flag' = (answers' # <<>> /\ answers'[Len(answers')].feature = V!Feature'.name)
        BY <1>1, <4>4
      <4>7. V!InLoop' /\ command'.verb = "show" /\ command'.of # "daemon"
        BY <1>1, <2>2, <3>1
      <4> QED
        BY <4>5, <4>6, <4>7 DEF V!FlagInv
    <3>2. CASE command.verb # "show"
      BY <1>1, <1>5, <3>2 DEF V!FlagInv
    <3> QED
      BY <3>1, <3>2
  <2>7. V!RowsInv'
    BY <1>0, <1>1, <1>2, <2>2 DEF V!RowsInv
  <2>8. V!OneDaemonInv'
    BY <1>1 DEF V!OneDaemonInv
  <2> QED
    BY <2>4, <2>5, <2>6, <2>7, <2>8 DEF VlogInv, V!VlogInv
<1>7. CASE ~(command.of = "all" /\ iter_feature < Len(feature_head))
  <2>1. pc' = "done" /\ UNCHANGED <<iter_feature, iter_daemon>>
    BY <1>7 DEF V!EndOfFeature, V!Finish
  <2>2. ~V!InLoop' /\ V!Showing' = V!Showing
    BY <1>1, <1>2, <2>1 DEF V!InLoop, V!Showing
  <2>3. V!LoopInv'
    BY <1>0, <1>1, <1>4, <2>1, <2>2 DEF V!LoopInv
  <2>4. V!KnownInv'
    BY <1>0, <1>1, <2>1, <2>2, KnownStays
  <2>5. V!FlagInv'
    BY <1>5, <2>2 DEF V!FlagInv
  <2>6. V!RowsInv'
    BY <1>0, <1>1, <1>2, <2>2 DEF V!RowsInv
  <2>7. V!OneDaemonInv'
    BY <1>1 DEF V!OneDaemonInv
  <2> QED
    BY <2>3, <2>4, <2>5, <2>6, <2>7 DEF VlogInv, V!VlogInv
<1> QED
  BY <1>6, <1>7

\* ... the command returns ...
LEMMA ReturnKeeps ==
  ASSUME VlogInv, V!Return
  PROVE  VlogInv'
<1>0. V!LoopInv /\ V!KnownInv /\ V!FlagInv /\ V!RowsInv /\ V!OneDaemonInv
  BY DEF VlogInv, V!VlogInv
<1>1. /\ pc = "ask" /\ pc' = "done" /\ iter_daemon # 1 /\ command.of = "daemon"
      /\ return_val' = IF failed THEN "warning" ELSE "success"
      /\ UNCHANGED <<level, known, feature_head, flag, command, iter_feature, iter_daemon,
                     reply, failed, rows, answers>>
  BY DEF V!Return, V!Asking, V!Finish, V!daemons, V!static
<1>2. /\ V!InLoop /\ ~V!InLoop' /\ V!Showing' = V!Showing
      /\ V!RowsFor(answers)' = V!RowsFor(answers)
  BY <1>1 DEF V!InLoop, V!Showing, V!RowsFor
<1>3. V!LoopInv'
  BY <1>0, <1>1, <1>2 DEF V!LoopInv
<1>4. V!KnownInv'
  BY <1>0, <1>1, <1>2, KnownStays
<1>5. V!FlagInv'
  BY <1>0, <1>1, <1>2 DEF V!FlagInv
<1>6. V!RowsInv'
  BY <1>0, <1>1, <1>2 DEF V!RowsInv
<1>7. V!OneDaemonInv'
  <2>1. iter_daemon = 2
    BY <1>0, <1>1, <1>2 DEF V!LoopInv
  <2> QED
    BY <1>0, <1>1, <2>1 DEF V!OneDaemonInv
<1> QED
  BY <1>3, <1>4, <1>5, <1>6, <1>7 DEF VlogInv, V!VlogInv

\* ... and the next one is typed.
LEMMA PromptKeeps ==
  ASSUME VlogInv, V!Prompt
  PROVE  VlogInv'
<1>0. V!LoopInv /\ V!KnownInv /\ V!FlagInv /\ V!RowsInv /\ V!OneDaemonInv
  BY DEF VlogInv, V!VlogInv
<1>1. /\ pc = "done" /\ pc' = "idle" /\ command' = V!NoCommand /\ rows' = <<>>
      /\ answers' = <<>> /\ failed' = FALSE /\ iter_feature' = 1 /\ iter_daemon' = 1
      /\ UNCHANGED <<level, known, feature_head, flag, reply>>
  BY DEF V!Prompt, V!daemons, V!static
<1>2. ~V!InLoop' /\ ~V!Showing' /\ ~V!InLoop
  BY <1>1 DEF V!InLoop, V!Showing
<1>3. V!LoopInv'
  BY <1>0, <1>1, <1>2 DEF V!LoopInv
<1>4. V!KnownInv'
  BY <1>0, <1>1, <1>2 DEF V!KnownInv, V!Agrees
<1>5. V!FlagInv'
  BY <1>0, <1>1, <1>2 DEF V!FlagInv
<1>6. V!RowsInv'
  BY <1>1, <1>2, EmptySeq DEF V!RowsInv
<1>7. V!OneDaemonInv'
  BY <1>1 DEF V!OneDaemonInv
<1> QED
  BY <1>3, <1>4, <1>5, <1>6, <1>7 DEF VlogInv, V!VlogInv

\* Every step of a session.
LEMMA VlogKeeps == VlogInv /\ [V!VlogNext]_vlog => VlogInv'
<1> SUFFICES ASSUME VlogInv, [V!VlogNext]_vlog PROVE VlogInv'
  OBVIOUS
<1>1. CASE UNCHANGED vlog
  <2>0. V!LoopInv /\ V!KnownInv /\ V!FlagInv /\ V!RowsInv /\ V!OneDaemonInv
    BY DEF VlogInv, V!VlogInv
  <2>1. UNCHANGED <<level, known, pc, command, feature_head, iter_feature, iter_daemon,
                    reply, failed, flag, rows, return_val, answers>>
    BY <1>1 DEF vlog
  <2>2. V!LoopInv' /\ V!FlagInv' /\ V!RowsInv' /\ V!OneDaemonInv'
        /\ V!Daemon' = V!Daemon /\ V!Showing' = V!Showing
    BY <2>0, <2>1, LoopStays DEF V!Showing, V!InLoop
  <2>3. V!KnownInv'
    BY <2>0, <2>1, <2>2 DEF V!KnownInv, V!Agrees
  <2> QED
    BY <2>2, <2>3 DEF VlogInv, V!VlogInv
<1>2. CASE V!VlogNext
  BY <1>2, TypeKeeps, MapKeeps, EndOfFeatureKeeps, ConnectKeeps, ServeKeeps,
     ReceiveKeeps, FailsKeeps, ReturnKeeps, PromptKeeps, TroubleKeeps
  DEF V!VlogNext, V!Cli
<1> QED
  BY <1>1, <1>2

\* LevelsAreShown: what `show vlog config' displays is what the daemons have
\* answered, and the levels set from here are among it.
THEOREM LevelsCorrect == VtyshSpec => []LevelsAreShown
<1>1. VtyshInit => VlogInv
  BY VlogBegins DEF VtyshInit
<1>2. VlogInv /\ [VtyshNext]_<<vars, tech, vlog>> => VlogInv'
  <2>1. [VtyshNext]_<<vars, tech, vlog>> => [V!VlogNext]_vlog
    BY DEF VtyshNext
  <2> QED
    BY <2>1, VlogKeeps
<1>3. VlogInv => LevelsAreShown
  <2> SUFFICES ASSUME VlogInv, pc = "done"
               PROVE  /\ command.verb = "show" =>
                           /\ rows = V!RowsFor(answers)
                           /\ \A i \in DOMAIN answers, x \in {1, 2} :
                                known[answers[i].daemon][x] \in {Blank, answers[i].levels[x]}
                      /\ command.of = "daemon" /\ return_val = "success" => answers # <<>>
    BY DEF LevelsAreShown, V!LevelsAreShown
  <2>1. V!KnownInv /\ V!RowsInv /\ V!OneDaemonInv
    BY DEF VlogInv, V!VlogInv
  <2> QED
    BY <2>1 DEF V!KnownInv, V!RowsInv, V!OneDaemonInv, V!Showing, V!Agrees
<1> QED
  BY <1>1, <1>2, <1>3, PTL DEF VtyshSpec

-----------------------------------------------------------------------------
(* The daemons that a command of Vlog asks.                                *)

\* V!AskedInOrder and V!AskedBefore for the mapping h, the command c and the daemons
\* a that have been asked; and that only what precedes p has been.
ForIn(h, c, i, j) ==
  /\ i \in DOMAIN h /\ j \in DOMAIN h[i].daemons
  /\ c.of = "all" \/ h[i].name = c.name
AskedSo(h, c, a) ==
  /\ \A n \in DOMAIN a : ForIn(h, c, a[n][1], a[n][2])
  /\ \A m, n \in DOMAIN a : m < n => V!Precedes(a[m], a[n])
AskedUpTo(h, c, a, p) ==
  \A i, j : ForIn(h, c, i, j) /\ V!Precedes(<<i, j>>, p) => \E n \in DOMAIN a : a[n] = <<i, j>>
AskedOnly(a, p) == a \in Seq(Nat \X Nat) /\ \A n \in DOMAIN a : V!Precedes(a[n], p)

LEMMA AskedFunctions ==
  /\ V!AskedInOrder <=> AskedSo(feature_head, command, asked)
  /\ V!AskedInOrder' <=> AskedSo(feature_head', command', asked')
  /\ \A p : V!AskedBefore(p) <=> AskedUpTo(feature_head, command, asked, p)
<1>1. V!AskedInOrder <=> AskedSo(feature_head, command, asked)
  BY DEF V!AskedInOrder, AskedSo, V!IsFor, ForIn
<1>2. V!AskedInOrder' <=> AskedSo(feature_head', command', asked')
  BY DEF V!AskedInOrder, AskedSo, V!IsFor, ForIn
<1>3. \A p : V!AskedBefore(p) <=> AskedUpTo(feature_head, command, asked, p)
  BY DEF V!AskedBefore, AskedUpTo, V!IsFor, ForIn
<1>. QED
  BY <1>1, <1>2, <1>3

LEMMA AskedFunctionsAfter ==
  ASSUME NEW p
  PROVE  V!AskedBefore(p)' <=> AskedUpTo(feature_head', command', asked', p')
BY DEF V!AskedBefore, AskedUpTo, V!IsFor, ForIn

\* What AskedInv says within the loop, for a state and for the next one.
AskedLoop(h, c, f, d, a, b, fails) ==
  IF c.of = "daemon"
    THEN /\ f = 1
         /\ d = 1 => a = <<>> /\ b = <<>>
         /\ d = 2 => a = <<<<1, 1>>>> /\ (fails <=> b = <<>>)
    ELSE /\ c.of = "feature" => h[f].name = c.name
         /\ AskedSo(h, c, a) /\ AskedUpTo(h, c, a, <<f, d>>) /\ AskedOnly(a, <<f, d>>)

Loop == AskedLoop(feature_head, command, iter_feature, iter_daemon, asked, answers, failed)

LEMMA AskedInvIs ==
  V!AskedInv <=> /\ pc \in {"idle", "map"} => asked = <<>>
                 /\ pc = "map" => command.of # "daemon"
                 /\ V!InLoop => Loop
                 /\ AllAreAsked
BY AskedFunctions DEF V!AskedInv, Loop, AskedLoop, AskedOnly, V!Feature, AllAreAsked

LEMMA LoopAfter ==
  Loop' <=> AskedLoop(feature_head', command', iter_feature', iter_daemon', asked', answers',
                      failed')
BY DEF Loop, AskedLoop, AskedSo, AskedUpTo, AskedOnly, ForIn, V!Precedes

LEMMA AskedInvAfter ==
  V!AskedInv' <=> /\ pc' \in {"idle", "map"} => asked' = <<>>
                  /\ pc' = "map" => command'.of # "daemon"
                  /\ V!InLoop' => Loop'
                  /\ AllAreAsked'
BY AskedFunctions DEF V!AskedInv, Loop, AskedLoop, AskedOnly, V!Feature, AllAreAsked, V!AskedBefore,
   AskedUpTo, V!IsFor, ForIn

\* A step that neither moves the loop nor types a command.
LEMMA AskedStays ==
  ASSUME V!AskedInv,
         UNCHANGED <<command, feature_head, iter_feature, iter_daemon, failed, return_val,
                     asked, answers>>,
         pc' = pc \/ (V!InLoop /\ V!InLoop')
  PROVE  V!AskedInv'
<1>1. (V!InLoop' <=> V!InLoop) /\ (pc' = pc \/ V!InLoop')
  BY DEF V!InLoop
<1>2. /\ pc' \in {"idle", "map"} => pc \in {"idle", "map"}
      /\ pc' = "map" => pc = "map"
      /\ pc' = "done" => pc = "done"
  BY <1>1 DEF V!InLoop
<1>3. Loop => Loop'
  BY LoopAfter DEF Loop
<1>4. pc = "done" => AllAreAsked
  BY AskedInvIs
<1>5. V!AskedInOrder => V!AskedInOrder'
  BY AskedFunctions
<1>6. ASSUME V!AskedBefore(<<Len(feature_head) + 1, 1>>)
      PROVE  V!AskedBefore(<<Len(feature_head) + 1, 1>>)'
  BY <1>6 DEF V!AskedBefore, V!IsFor
<1>7. (\E i \in DOMAIN feature_head : V!Begins(feature_head, i))
        <=> (\E i \in DOMAIN feature_head' : V!Begins(feature_head, i)')
  BY DEF V!Begins
<1>8. AllAreAsked => AllAreAsked'
  BY <1>2, <1>5, <1>6, <1>7 DEF AllAreAsked, V!AllAreAsked
<1>9. AllAreAsked'
  <2>1. pc' # "done" => AllAreAsked'
    BY DEF AllAreAsked, V!AllAreAsked
  <2>. QED
    BY <1>2, <1>4, <1>8, <2>1
<1>. QED
  BY <1>1, <1>2, <1>3, <1>9, AskedInvIs, AskedInvAfter

\* The command is not at its end.
LEMMA NotDoneAsked ==
  ASSUME pc' # "done", pc' \in {"idle", "map"} => asked' = <<>>,
         pc' = "map" => command'.of # "daemon", V!InLoop' => Loop'
  PROVE  V!AskedInv'
<1>1. AllAreAsked'
  BY DEF AllAreAsked, V!AllAreAsked
<1>. QED
  BY <1>1, AskedInvAfter

\* A command is typed, or the prompt is back.
LEMMA TypeAsked ==
  ASSUME V!LoopInv, V!AskedInv, NEW c \in Commands, V!Type(c)
  PROVE  V!AskedInv'
<1>1. /\ pc = "idle" /\ command' = c /\ pc' = IF c.of = "daemon" THEN "ask" ELSE "map"
      /\ UNCHANGED <<iter_feature, iter_daemon, failed, asked, answers>>
  BY DEF V!Type
<1>2. asked = <<>> /\ answers = <<>> /\ iter_feature = 1 /\ iter_daemon = 1
  BY <1>1, AskedInvIs DEF V!LoopInv
<1>3. pc' # "done" /\ (V!InLoop' => c.of = "daemon")
  BY <1>1 DEF V!InLoop
<1>4. c.of = "daemon" => Loop'
  BY <1>1, <1>2, LoopAfter DEF AskedLoop
<1>. QED
  BY <1>1, <1>2, <1>3, <1>4, NotDoneAsked

LEMMA PromptAsked ==
  ASSUME V!Prompt
  PROVE  V!AskedInv'
BY NotDoneAsked DEF V!Prompt, V!InLoop

\* A command for one daemon returns.
LEMMA ReturnAsked ==
  ASSUME V!LoopInv, V!AskedInv, V!Return
  PROVE  V!AskedInv'
<1>1. /\ pc = "ask" /\ pc' = "done" /\ iter_daemon # 1 /\ command.of = "daemon"
      /\ return_val' = IF failed THEN "warning" ELSE "success"
      /\ UNCHANGED <<command, failed, asked, answers>>
  BY DEF V!Return, V!Asking, V!Finish
<1>2. V!InLoop /\ iter_daemon = 2
  BY <1>1 DEF V!LoopInv, V!InLoop
<1>3. asked = <<<<1, 1>>>> /\ (failed <=> answers = <<>>)
  BY <1>1, <1>2, AskedInvIs DEF Loop, AskedLoop
<1>4. return_val' = "warning" <=> answers = <<>>
  BY <1>1, <1>3
<1>5. AllAreAsked'
  BY <1>1, <1>3, <1>4 DEF AllAreAsked, V!AllAreAsked
<1>6. ~V!InLoop'
  BY <1>1 DEF V!InLoop
<1>. QED
  BY <1>1, <1>5, <1>6, AskedInvAfter

\* Places in a mapping are numbers, and its features have different names.
LEMMA ForType ==
  ASSUME NEW h, h = <<>> \/ h \in Mappings
  PROVE  /\ DOMAIN h = 1..Len(h) /\ Len(h) \in Nat
         /\ \A i \in DOMAIN h : DOMAIN h[i].daemons = 1..Len(h[i].daemons)
                                /\ Len(h[i].daemons) \in Nat
         /\ \A i, j \in DOMAIN h : h[i].name = h[j].name => i = j
<1>1. CASE h = <<>>
  BY <1>1
<1>2. CASE h \in Mappings
  <2>1. /\ h \in Seq(ToSet(h)) /\ \A i \in DOMAIN h : h[i].daemons \in Seq(Daemons)
        /\ \A i, j \in DOMAIN h : h[i].name = h[j].name => i = j
    BY <1>2, MappingsAssumption DEF MappingsAssumption
  <2>. QED
    BY <2>1, LenProperties
<1>. QED
  BY <1>1, <1>2

\* The mapping is read: nothing has been asked, and nothing is before the first daemon
\* that the command is for.
LEMMA MapAsked ==
  ASSUME V!LoopInv, V!AskedInv, V!Map
  PROVE  V!AskedInv'
<1>1. PICK h : h = feature_head'
  OBVIOUS
<1>2. /\ pc = "map" /\ (h = <<>> \/ h \in Mappings)
      /\ UNCHANGED <<command, iter_daemon, failed, asked, answers>>
      /\ \/ \E i \in DOMAIN h : V!Begins(h, i) /\ pc' = "ask" /\ iter_feature' = i
         \/ /\ \A i \in DOMAIN h : ~V!Begins(h, i)
            /\ pc' = "done" /\ return_val' = "warning"
  <2>1. pc = "map" /\ UNCHANGED <<command, iter_daemon, failed, asked, answers>>
    BY DEF V!Map
  <2>2. h = <<>> \/ h \in Mappings
    BY <1>1 DEF V!Map, V!LoopInv
  <2>3. \/ \E i \in DOMAIN h : V!Begins(h, i) /\ pc' = "ask" /\ iter_feature' = i
        \/ /\ \A i \in DOMAIN h : ~V!Begins(h, i)
           /\ pc' = "done" /\ return_val' = "warning"
    BY <1>1 DEF V!Map, V!Finish
  <2>. QED
    BY <2>1, <2>2, <2>3
<1>3. /\ asked = <<>> /\ asked' = <<>> /\ iter_daemon' = 1 /\ command \in Commands
      /\ command.of # "daemon"
  BY <1>2, AskedInvIs DEF V!LoopInv
<1>4. command.of \in {"feature", "all"}
  BY <1>3, CommandsAssumption DEF CommandsAssumption
<1>5. /\ DOMAIN h = 1..Len(h) /\ Len(h) \in Nat
      /\ \A i \in DOMAIN h : DOMAIN h[i].daemons = 1..Len(h[i].daemons)
                             /\ Len(h[i].daemons) \in Nat
      /\ \A i, j \in DOMAIN h : h[i].name = h[j].name => i = j
  BY <1>2, ForType
<1>6. \A p : AskedSo(h, command, asked') /\ AskedOnly(asked', p)
  BY <1>3 DEF AskedSo, AskedOnly
<1>7. ASSUME NEW i \in DOMAIN h, V!Begins(h, i), pc' = "ask", iter_feature' = i
      PROVE  V!AskedInv'
  <2>1. ASSUME NEW x, NEW y, ForIn(h, command, x, y) PROVE ~V!Precedes(<<x, y>>, <<i, 1>>)
    <3>1. /\ x \in 1..Len(h)
          /\ y \in 1..Len(h[x].daemons) /\ Len(h[x].daemons) \in Nat
      BY <1>5, <2>1 DEF ForIn
    <3>2. i = 1 \/ x = i
      BY <1>4, <1>5, <1>7, <2>1, <3>1 DEF ForIn, V!Begins
    <3>3. ~(x < i \/ (x = i /\ y < 1))
      BY <1>5, <3>1, <3>2
    <3>. QED
      BY <3>3 DEF V!Precedes
  <2>2. AskedUpTo(h, command, asked', <<i, 1>>)
    BY <2>1 DEF AskedUpTo
  <2>3. command.of = "feature" => h[i].name = command.name
    BY <1>7 DEF V!Begins
  <2>4. Loop'
    BY <1>1, <1>2, <1>3, <1>6, <1>7, <2>2, <2>3, LoopAfter DEF AskedLoop
  <2>. QED
    BY <1>7, <2>4, NotDoneAsked
<1>8. ASSUME \A i \in DOMAIN h : ~V!Begins(h, i), pc' = "done", return_val' = "warning"
      PROVE  V!AskedInv'
  <2>1. ASSUME NEW x, NEW y, ForIn(h, command, x, y) PROVE FALSE
    <3>1. x \in 1..Len(h)
      BY <1>5, <2>1 DEF ForIn
    <3>2. CASE command.of = "all"
      <4>1. 1 \in DOMAIN h
        BY <1>5, <3>1
      <4>. QED
        BY <1>8, <3>2, <4>1 DEF V!Begins
    <3>3. CASE command.of = "feature"
      <4>1. h[x].name = command.name
        BY <2>1, <3>3 DEF ForIn
      <4>2. \A j \in 1..x - 1 : j \in DOMAIN h /\ j # x
        BY <1>5, <3>1
      <4>3. \A j \in 1..x - 1 : h[j].name # command.name
        BY <1>5, <3>1, <4>1, <4>2
      <4>. QED
        BY <1>5, <1>8, <3>1, <3>3, <4>1, <4>3 DEF V!Begins
    <3>. QED
      BY <1>4, <3>2, <3>3
  <2>2. \A p : AskedUpTo(h, command, asked', p)
    BY <2>1 DEF AskedUpTo
  <2>3. PICK p : p = <<Len(h) + 1, 1>>
    OBVIOUS
  <2>4. V!AskedBefore(p)' /\ V!AskedInOrder'
    BY <1>1, <1>2, <1>6, <2>2, AskedFunctions, AskedFunctionsAfter
  <2>5. V!AskedBefore(<<Len(feature_head) + 1, 1>>)'
    BY <1>1, <2>3, <2>4 DEF V!AskedBefore
  <2>6. \A i \in DOMAIN feature_head' : ~(V!Begins(feature_head, i))'
    BY <1>1, <1>2, <1>8 DEF V!Begins
  <2>7. AllAreAsked'
    BY <1>2, <1>3, <1>8, <2>4, <2>5, <2>6 DEF AllAreAsked, V!AllAreAsked
  <2>. QED
    BY <1>8, <2>7, AskedInvAfter DEF V!InLoop
<1>. QED
  BY <1>2, <1>7, <1>8

\* The place of the daemon asked goes to the end of those asked so far.
LEMMA AskedGrows ==
  ASSUME NEW h, NEW c, NEW f \in Nat, NEW d \in Nat, NEW a,
         ForIn(h, c, f, d), AskedSo(h, c, a), AskedUpTo(h, c, a, <<f, d>>),
         AskedOnly(a, <<f, d>>),
         \A i, j : ForIn(h, c, i, j) => i \in Nat /\ j \in Nat
  PROVE  /\ AskedSo(h, c, Append(a, <<f, d>>))
         /\ AskedUpTo(h, c, Append(a, <<f, d>>), <<f, d + 1>>)
         /\ AskedOnly(Append(a, <<f, d>>), <<f, d + 1>>)
<1>. DEFINE b == Append(a, <<f, d>>)
<1>1. a \in Seq(Nat \X Nat) /\ <<f, d>> \in Nat \X Nat /\ Len(a) \in Nat
      /\ DOMAIN a = 1..Len(a)
  BY LenProperties DEF AskedOnly
<1>2. /\ b \in Seq(Nat \X Nat) /\ Len(b) = Len(a) + 1 /\ b[Len(a) + 1] = <<f, d>>
      /\ \A n \in 1..Len(a) : b[n] = a[n]
  BY <1>1, AppendProperties
<1>3. DOMAIN b = 1..Len(a) + 1
  BY <1>1, <1>2, LenProperties
<1>. HIDE DEF b
<1>4. \A n \in DOMAIN b : (n \in DOMAIN a /\ b[n] = a[n]) \/ (n = Len(a) + 1 /\ b[n] = <<f, d>>)
  <2>1. \A n \in DOMAIN b : n \in 1..Len(a) \/ n = Len(a) + 1
    BY <1>1, <1>3
  <2>. QED
    BY <1>1, <1>2, <2>1
<1>5. \A n \in DOMAIN a : n \in DOMAIN b /\ b[n] = a[n]
  BY <1>1, <1>2, <1>3
<1>6. AskedSo(h, c, b)
  <2>1. \A n \in DOMAIN b : ForIn(h, c, b[n][1], b[n][2])
    <3>1. ASSUME NEW n \in DOMAIN b PROVE ForIn(h, c, b[n][1], b[n][2])
      <4>1. CASE n \in DOMAIN a /\ b[n] = a[n]
        BY <4>1 DEF AskedSo
      <4>2. CASE b[n] = <<f, d>>
        BY <4>2
      <4>. QED
        BY <1>4, <4>1, <4>2
    <3>. QED
      BY <3>1
  <2>2. ASSUME NEW m \in DOMAIN b, NEW n \in DOMAIN b, m < n
        PROVE  V!Precedes(b[m], b[n])
    <3>1. m \in DOMAIN a /\ b[m] = a[m]
      BY <1>1, <1>3, <1>4, <2>2
    <3>2. CASE n \in DOMAIN a /\ b[n] = a[n]
      BY <2>2, <3>1, <3>2 DEF AskedSo
    <3>3. CASE b[n] = <<f, d>>
      BY <3>1, <3>3 DEF AskedOnly
    <3>. QED
      BY <1>4, <3>2, <3>3
  <2>. QED
    BY <2>1, <2>2 DEF AskedSo
<1>7. AskedUpTo(h, c, b, <<f, d + 1>>)
  <2>1. SUFFICES ASSUME NEW i, NEW j, ForIn(h, c, i, j), V!Precedes(<<i, j>>, <<f, d + 1>>)
                 PROVE  \E n \in DOMAIN b : b[n] = <<i, j>>
    BY DEF AskedUpTo
  <2>2. V!Precedes(<<i, j>>, <<f, d>>) \/ (i = f /\ j = d)
    <3>1. i \in Nat /\ j \in Nat
      BY <2>1
    <3>2. i < f \/ (i = f /\ j < d + 1)
      BY <2>1 DEF V!Precedes
    <3>3. i < f \/ (i = f /\ j < d) \/ (i = f /\ j = d)
      BY <3>1, <3>2
    <3>. QED
      BY <3>3 DEF V!Precedes
  <2>3. CASE V!Precedes(<<i, j>>, <<f, d>>)
    <3>1. PICK n \in DOMAIN a : a[n] = <<i, j>>
      BY <2>1, <2>3 DEF AskedUpTo
    <3>. QED
      BY <1>5, <3>1
  <2>4. CASE i = f /\ j = d
    <3>1. Len(a) + 1 \in DOMAIN b
      BY <1>1, <1>3
    <3>. QED
      BY <1>2, <2>4, <3>1
  <2>. QED
    BY <2>2, <2>3, <2>4
<1>8. AskedOnly(b, <<f, d + 1>>)
  <2>1. V!Precedes(<<f, d>>, <<f, d + 1>>)
    BY DEF V!Precedes
  <2>2. ASSUME NEW n \in DOMAIN a PROVE V!Precedes(a[n], <<f, d + 1>>)
    <3>1. a[n] \in Nat \X Nat /\ V!Precedes(a[n], <<f, d>>)
      <4>1. a[n] \in Nat \X Nat
        BY <1>1, <2>2, ElementOfSeq
      <4>2. V!Precedes(a[n], <<f, d>>)
        BY <2>2 DEF AskedOnly
      <4>. QED
        BY <4>1, <4>2
    <3>2. a[n][1] \in Nat /\ a[n][2] \in Nat
      BY <3>1
    <3>3. a[n][1] < f \/ (a[n][1] = f /\ a[n][2] < d)
      BY <3>1 DEF V!Precedes
    <3>4. a[n][1] < f \/ (a[n][1] = f /\ a[n][2] < d + 1)
      BY <3>2, <3>3
    <3>. QED
      BY <3>4 DEF V!Precedes
  <2>. QED
    BY <1>2, <1>4, <2>1, <2>2 DEF AskedOnly
<1>. QED
  BY <1>6, <1>7, <1>8 DEF b

\* The places that a command is for.
LEMMA ForPlaces ==
  ASSUME V!LoopInv, NEW i, NEW j, ForIn(feature_head, command, i, j)
  PROVE  /\ i \in 1..Len(feature_head) /\ j \in 1..Len(feature_head[i].daemons)
         /\ Len(feature_head) \in Nat /\ Len(feature_head[i].daemons) \in Nat
BY ForType DEF V!LoopInv, ForIn

\* A daemon has answered, or could not be asked.
LEMMA AdvanceAsked ==
  ASSUME V!LoopInv, V!AskedInv, NEW fails \in BOOLEAN, V!Advance(fails),
         V!Asking \/ pc \in {"wait", "reply"},
         UNCHANGED <<command, feature_head, iter_feature>>,
         answers = <<>> => (fails <=> answers' = <<>>)
  PROVE  V!AskedInv'
<1>1. /\ V!InLoop /\ V!InLoop' /\ pc' = "ask" /\ (failed' <=> fails)
      /\ command.of = "daemon" => iter_daemon' = 2
  BY AdvanceLoop
<1>2. /\ iter_daemon' = iter_daemon + 1
      /\ asked' = Append(asked, <<iter_feature, iter_daemon>>)
  BY DEF V!Advance
<1>3. Loop
  BY <1>1, AskedInvIs
<1>4. CASE command.of = "daemon"
  <2>1. iter_daemon = 1
    BY <1>1, <1>4 DEF V!LoopInv, V!Asking
  <2>2. iter_feature = 1 /\ asked = <<>> /\ answers = <<>>
    BY <1>3, <1>4, <2>1 DEF Loop, AskedLoop
  <2>3. asked' = <<<<1, 1>>>>
    BY <1>2, <2>1, <2>2
  <2>4. Loop'
    BY <1>1, <1>4, <2>2, <2>3, LoopAfter DEF AskedLoop
  <2>. QED
    BY <1>1, <2>4, NotDoneAsked
<1>5. CASE command.of # "daemon"
  <2>1. /\ iter_feature \in 1..Len(feature_head) /\ Len(V!Feature.daemons) \in Nat
        /\ iter_daemon \in 1..Len(V!Feature.daemons) /\ feature_head \in Mappings
    <3>1. iter_daemon <= Len(V!Feature.daemons)
      BY <1>5 DEF V!LoopInv, V!Asking
    <3>. QED
      BY <1>1, <1>5, <3>1, AtFeature
  <2>2. ForIn(feature_head, command, iter_feature, iter_daemon)
    <3>1. /\ iter_feature \in DOMAIN feature_head
          /\ iter_daemon \in DOMAIN feature_head[iter_feature].daemons
      BY <1>1, <1>5, <2>1, ForType DEF V!Feature, V!LoopInv
    <3>2. command.of = "all" \/ feature_head[iter_feature].name = command.name
      <4>1. command.of \in {"daemon", "feature", "all"}
        BY <1>1, CommandsAssumption DEF CommandsAssumption, V!LoopInv, V!InLoop
      <4>2. command.of = "feature" => feature_head[iter_feature].name = command.name
        BY <1>3, <1>5 DEF Loop, AskedLoop
      <4>. QED
        BY <1>5, <4>1, <4>2
    <3>. QED
      BY <3>1, <3>2 DEF ForIn
  <2>3. iter_feature \in Nat /\ iter_daemon \in Nat
    BY <2>1
  <2>4. \A i, j : ForIn(feature_head, command, i, j) => i \in Nat /\ j \in Nat
    BY ForPlaces
  <2>5. /\ command.of = "feature" => feature_head[iter_feature].name = command.name
        /\ AskedSo(feature_head, command, asked)
        /\ AskedUpTo(feature_head, command, asked, <<iter_feature, iter_daemon>>)
        /\ AskedOnly(asked, <<iter_feature, iter_daemon>>)
    BY <1>3, <1>5 DEF Loop, AskedLoop
  <2>6. /\ AskedSo(feature_head, command, asked')
        /\ AskedUpTo(feature_head, command, asked', <<iter_feature, iter_daemon + 1>>)
        /\ AskedOnly(asked', <<iter_feature, iter_daemon + 1>>)
    BY <1>2, <2>2, <2>3, <2>4, <2>5, AskedGrows
  <2>7. Loop'
    BY <1>2, <1>5, <2>5, <2>6, LoopAfter DEF AskedLoop
  <2>. QED
    BY <1>1, <2>7, NotDoneAsked
<1>. QED
  BY <1>4, <1>5

LEMMA ReceiveAsked ==
  ASSUME VlogInv, V!AskedInv, V!Receive
  PROVE  V!AskedInv'
<1>1. V!LoopInv /\ answers \in Seq(V!ToSet(answers))
  BY DEF VlogInv, V!VlogInv, V!RowsInv
<1>2. /\ V!Advance(FALSE) /\ pc \in {"wait", "reply"}
      /\ answers' = Append(answers, V!Answer)
      /\ UNCHANGED <<command, feature_head, iter_feature>>
  BY DEF V!Receive
<1>3. answers = <<>> => answers' # <<>>
  BY <1>2
<1>. QED
  BY <1>1, <1>2, <1>3, AdvanceAsked

LEMMA FailsAsked ==
  ASSUME V!LoopInv, V!AskedInv, V!Fails
  PROVE  V!AskedInv'
<1>1. /\ V!Advance(TRUE)
      /\ V!Asking \/ pc \in {"wait", "reply"}
      /\ UNCHANGED <<command, feature_head, iter_feature, answers>>
  BY DEF V!Fails, V!static
<1>. QED
  BY <1>1, AdvanceAsked

\* A feature has no more daemons: the next one begins, or the command succeeds.
LEMMA EndOfFeatureAsked ==
  ASSUME V!LoopInv, V!AskedInv, V!EndOfFeature
  PROVE  V!AskedInv'
<1>1. /\ pc = "ask" /\ command.of # "daemon" /\ ~(iter_daemon <= Len(V!Feature.daemons))
      /\ UNCHANGED <<feature_head, command, failed, asked, answers>>
  BY DEF V!EndOfFeature, V!Asking
<1>2. V!InLoop
  BY <1>1 DEF V!InLoop
<1>3. /\ iter_feature \in 1..Len(feature_head) /\ Len(V!Feature.daemons) \in Nat
      /\ iter_daemon = Len(V!Feature.daemons) + 1 /\ feature_head \in Mappings
      /\ \A i, j \in DOMAIN feature_head :
           feature_head[i].name = feature_head[j].name => i = j
      /\ DOMAIN feature_head = 1..Len(feature_head)
  BY <1>1, <1>2, AtFeature, ForType DEF V!LoopInv
<1>4. /\ command.of = "feature" => feature_head[iter_feature].name = command.name
      /\ AskedSo(feature_head, command, asked)
      /\ AskedUpTo(feature_head, command, asked, <<iter_feature, iter_daemon>>)
      /\ AskedOnly(asked, <<iter_feature, iter_daemon>>)
  BY <1>1, <1>2, AskedInvIs DEF Loop, AskedLoop
<1>5. command.of \in {"feature", "all"}
  BY <1>1, CommandsAssumption DEF CommandsAssumption, V!LoopInv
<1>6. ASSUME NEW i, NEW j, ForIn(feature_head, command, i, j), i <= iter_feature
      PROVE  V!Precedes(<<i, j>>, <<iter_feature, iter_daemon>>)
  <2>1. i \in Nat /\ j \in 1..Len(feature_head[i].daemons)
        /\ Len(feature_head[i].daemons) \in Nat
    BY <1>6, ForPlaces
  <2>2. i < iter_feature \/ (i = iter_feature /\ j < iter_daemon)
    BY <1>3, <1>6, <2>1 DEF V!Feature
  <2>. QED
    BY <2>2 DEF V!Precedes
<1>7. CASE command.of = "all" /\ iter_feature < Len(feature_head)
  <2>1. iter_feature' = iter_feature + 1 /\ iter_daemon' = 1 /\ pc' = "ask"
    BY <1>1, <1>7 DEF V!EndOfFeature
  <2>2. AskedUpTo(feature_head, command, asked, <<iter_feature + 1, 1>>)
    <3>1. SUFFICES ASSUME NEW i, NEW j, ForIn(feature_head, command, i, j),
                          V!Precedes(<<i, j>>, <<iter_feature + 1, 1>>)
                   PROVE  \E n \in DOMAIN asked : asked[n] = <<i, j>>
      BY DEF AskedUpTo
    <3>2. i \in Nat /\ j \in Nat /\ ~(j < 1)
      BY <3>1, ForPlaces
    <3>3. i < iter_feature + 1 \/ (i = iter_feature + 1 /\ j < 1)
      BY <3>1 DEF V!Precedes
    <3>4. i <= iter_feature
      BY <1>3, <3>2, <3>3
    <3>. QED
      BY <1>4, <1>6, <3>1, <3>4 DEF AskedUpTo
  <2>3. AskedOnly(asked, <<iter_feature + 1, 1>>)
    <3>1. asked \in Seq(Nat \X Nat) /\ DOMAIN asked = 1..Len(asked)
      BY <1>4, LenProperties DEF AskedOnly
    <3>2. ASSUME NEW n \in DOMAIN asked
          PROVE  V!Precedes(asked[n], <<iter_feature + 1, 1>>)
      <4>1. asked[n] \in Nat \X Nat
        BY <3>1, <3>2, ElementOfSeq
      <4>2. V!Precedes(asked[n], <<iter_feature, iter_daemon>>)
        BY <1>4, <3>2 DEF AskedOnly
      <4>3. asked[n][1] < iter_feature
            \/ (asked[n][1] = iter_feature /\ asked[n][2] < iter_daemon)
        BY <4>2 DEF V!Precedes
      <4>4. asked[n][1] < iter_feature + 1
        BY <1>3, <4>1, <4>3
      <4>. QED
        BY <4>4 DEF V!Precedes
    <3>. QED
      BY <3>1, <3>2 DEF AskedOnly
  <2>4. Loop'
    BY <1>1, <1>4, <1>7, <2>1, <2>2, <2>3, LoopAfter DEF AskedLoop
  <2>. QED
    BY <2>1, <2>4, NotDoneAsked
<1>8. CASE ~(command.of = "all" /\ iter_feature < Len(feature_head))
  <2>1. pc' = "done" /\ return_val' = "success"
    BY <1>8 DEF V!EndOfFeature, V!Finish
  <2>2. ASSUME NEW i, NEW j, ForIn(feature_head, command, i, j)
        PROVE  i <= iter_feature
    <3>1. i \in 1..Len(feature_head) /\ Len(feature_head) \in Nat
      BY <2>2, ForPlaces
    <3>2. CASE command.of = "all"
      BY <1>3, <1>8, <3>1, <3>2
    <3>3. CASE command.of = "feature"
      <4>1. feature_head[i].name = command.name
        BY <2>2, <3>3 DEF ForIn
      <4>2. i = iter_feature
        BY <1>3, <1>4, <3>1, <3>3, <4>1
      <4>. QED
        BY <1>3, <4>2
    <3>. QED
      BY <1>5, <3>2, <3>3
  <2>3. \A p : AskedUpTo(feature_head, command, asked, p)
    BY <1>4, <1>6, <2>2 DEF AskedUpTo
  <2>4. PICK p : p = <<Len(feature_head) + 1, 1>>
    OBVIOUS
  <2>5. V!AskedBefore(p)' /\ V!AskedInOrder'
    BY <1>1, <1>4, <2>3, AskedFunctions, AskedFunctionsAfter
  <2>6. V!AskedBefore(<<Len(feature_head) + 1, 1>>)'
    BY <1>1, <2>4, <2>5 DEF V!AskedBefore
  <2>7. \E i \in DOMAIN feature_head' : (V!Begins(feature_head, i))'
    <3>1. CASE command.of = "all"
      <4>1. 1 \in DOMAIN feature_head
        BY <1>3
      <4>. QED
        BY <1>1, <3>1, <4>1 DEF V!Begins
    <3>2. CASE command.of = "feature"
      <4>1. \A j \in 1..iter_feature - 1 : j \in DOMAIN feature_head /\ j # iter_feature
        BY <1>3
      <4>2. \A j \in 1..iter_feature - 1 : feature_head[j].name # command.name
        BY <1>3, <1>4, <3>2, <4>1
      <4>3. iter_feature \in DOMAIN feature_head
        BY <1>3
      <4>. QED
        BY <1>1, <1>4, <3>2, <4>2, <4>3 DEF V!Begins
    <3>. QED
      BY <1>5, <3>1, <3>2
  <2>8. AllAreAsked'
    BY <1>1, <2>1, <2>5, <2>6, <2>7 DEF AllAreAsked, V!AllAreAsked
  <2>. QED
    BY <2>1, <2>8, AskedInvAfter DEF V!InLoop
<1>. QED
  BY <1>7, <1>8

LEMMA AskedKeeps == VlogInv /\ V!AskedInv /\ [V!VlogNext]_vlog => V!AskedInv'
<1>. SUFFICES ASSUME VlogInv, V!AskedInv, [V!VlogNext]_vlog PROVE V!AskedInv'
  OBVIOUS
<1>0. V!LoopInv
  BY DEF VlogInv, V!VlogInv
<1>1. CASE UNCHANGED vlog
  BY <1>1, AskedStays DEF vlog
<1>2. ASSUME NEW c \in Commands, V!Type(c) PROVE V!AskedInv'
  BY <1>0, <1>2, TypeAsked
<1>3. ASSUME V!Connect \/ V!Serve PROVE V!AskedInv'
  BY <1>3, AskedStays DEF V!Connect, V!Serve, V!Asking, V!InLoop, V!static
<1>4. ASSUME NEW d \in Daemons,
             V!Hang(d) \/ V!Stop(d) \/ V!Start(d) \/ \E l \in Levels : V!SetElsewhere(d, l)
      PROVE  V!AskedInv'
  BY <1>4, AskedStays DEF V!Hang, V!Stop, V!Start, V!SetElsewhere, V!static, V!local
<1>. QED
  BY <1>0, <1>1, <1>2, <1>3, <1>4, MapAsked, EndOfFeatureAsked, ReceiveAsked, FailsAsked,
     ReturnAsked, PromptAsked DEF V!VlogNext, V!Cli

\* AllAreAsked: a daemon that is down, stops or refuses keeps no other from being asked,
\* in the order of the mapping, and what the command returns is what it may tell.
THEOREM AskedCorrect == VtyshSpec => []AllAreAsked
<1>1. VtyshInit => VlogInv /\ V!AskedInv
  <2>1. V!VlogInit => V!AskedInv
    BY AskedInvIs DEF V!VlogInit, V!InLoop, AllAreAsked, V!AllAreAsked
  <2>. QED
    BY <2>1, VlogBegins DEF VtyshInit
<1>2. VlogInv /\ V!AskedInv /\ [VtyshNext]_<<vars, tech, vlog>> => VlogInv' /\ V!AskedInv'
  <2>1. [VtyshNext]_<<vars, tech, vlog>> => [V!VlogNext]_vlog
    BY DEF VtyshNext
  <2>. QED
    BY <2>1, VlogKeeps, AskedKeeps
<1>3. V!AskedInv => AllAreAsked
  BY AskedInvIs
<1>. QED
  BY <1>1, <1>2, <1>3, PTL DEF VtyshSpec
=============================================================================
