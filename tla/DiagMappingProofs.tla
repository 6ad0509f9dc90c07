-------------------------- MODULE DiagMappingProofs --------------------------
(***************************************************************************)
(* Proofs about the feature mapping in Diag, for every set of files: what  *)
(* the parser has stored is the file up to where it has come.              *)
(***************************************************************************)
EXTENDS Diag, SequenceTheorems, TLAPS

-----------------------------------------------------------------------------
(* Sequences.                                                              *)

LEMMA DumpFlag ==
  ASSUME NEW ds \in Seq(DaemonSet), NEW k, NEW flag \in BOOLEAN
  PROVE  [ds EXCEPT ![k].dump = flag] \in Seq(DaemonSet)
<1> DEFINE es == [ds EXCEPT ![k].dump = flag]
<1>1. DOMAIN es = 1..Len(ds)
  OBVIOUS
<1>2. ASSUME NEW i \in 1..Len(ds)
      PROVE  es[i] \in DaemonSet
  <2>1. ds[i] \in DaemonSet
    OBVIOUS
  <2>2. es[i] = IF i = k THEN [ds[i] EXCEPT !.dump = flag] ELSE ds[i]
    OBVIOUS
  <2> QED
    BY <2>1, <2>2 DEF DaemonSet
<1>3. es \in [1..Len(ds) -> DaemonSet]
  BY <1>1, <1>2
<1> QED
  BY <1>3, SeqDef

LEMMA PutElement ==
  ASSUME NEW S, NEW s \in Seq(S), NEW k, NEW x \in S
  PROVE  [s EXCEPT ![k] = x] \in Seq(S)
<1> DEFINE t == [s EXCEPT ![k] = x]
<1>1. DOMAIN t = 1..Len(s)
  OBVIOUS
<1>2. ASSUME NEW i \in 1..Len(s)
      PROVE  t[i] \in S
  OBVIOUS
<1>3. t = [i \in 1..Len(s) |-> t[i]]
  BY <1>1
<1>4. t \in [1..Len(s) -> S]
  <2> HIDE DEF t
  <2> QED
    BY <1>2, <1>3
<1> QED
  BY <1>4, SeqDef

-----------------------------------------------------------------------------
(* The file and the place of the parser in it.                             *)

LEMMA FileTyped ==
  ASSUME MappingOK
  PROVE  /\ Len(file) \in Nat /\ DOMAIN file = 1..Len(file)
         /\ \A i \in 1..Len(file) :
              /\ file[i].name \in Text /\ file[i].desc \in Text
              /\ file[i].daemons \in Seq([name : Text, dump : Text])
              /\ Len(file[i].daemons) \in Nat
<1> DEFINE Daemons == Seq([name : Text, dump : Text])
           Source == [name : Text, desc : Text, daemons : Daemons]
<1>1. file \in Seq(Source)
  BY DocsAssumption DEF MappingOK, DocSet
<1>2. Len(file) \in Nat /\ DOMAIN file = 1..Len(file)
  BY ONLY <1>1
<1>3. ASSUME NEW i \in 1..Len(file)
      PROVE  /\ file[i].name \in Text /\ file[i].desc \in Text
             /\ file[i].daemons \in Daemons /\ Len(file[i].daemons) \in Nat
  <2>1. file[i] \in Source
    BY ONLY <1>1, <1>3, ElementOfSeq
  <2>2. file[i].name \in Text /\ file[i].desc \in Text
        /\ file[i].daemons \in Daemons
    <3> HIDE DEF Daemons
    <3> QED
      BY ONLY <2>1
  <2> QED
    BY ONLY <2>2
<1> QED
  BY <1>2, <1>3

\* The scalar at every place: keys and values take turns.
LEMMA ScalarAt ==
  ASSUME MappingOK, ~Mapping!AtEnd
  PROVE  /\ pos.feature \in 1..Len(file) /\ pos.scalar \in 1..5
         /\ pos.daemon \in Nat
         /\ Mapping!Scalar \in Mapping!Keys <=> pos.scalar \in {1, 3, 5}
         /\ pos.daemon = 0 =>
              /\ pos.scalar = 1 => Mapping!Scalar = "feature_name"
              /\ pos.scalar = 2 => Mapping!Scalar = file[pos.feature].name
              /\ pos.scalar = 3 => Mapping!Scalar = "feature_desc"
              /\ pos.scalar = 4 => Mapping!Scalar = file[pos.feature].desc
              /\ pos.scalar = 5 => Mapping!Scalar = "daemon"
         /\ pos.daemon > 0 =>
              LET d == file[pos.feature].daemons[pos.daemon]
              IN  /\ pos.daemon \in 1..Len(file[pos.feature].daemons)
                  /\ pos.scalar \in 1..4
                  /\ d.name \in Text /\ d.dump \in Text
                  /\ pos.scalar = 1 => Mapping!Scalar = "name"
                  /\ pos.scalar = 2 => Mapping!Scalar = d.name
                  /\ pos.scalar = 3 => Mapping!Scalar = "diag_dump"
                  /\ pos.scalar = 4 => Mapping!Scalar = d.dump
<1> DEFINE n == pos.feature
           d == pos.daemon
           k == pos.scalar
           source == file[n]
<1>1. n \in 1..Len(file) /\ k \in 1..5 /\ d \in Nat
      /\ d <= Len(source.daemons) /\ (d > 0 => k < 5)
  BY FileTyped DEF MappingOK, Mapping!ParserInv, Mapping!PositionOK,
     Mapping!AtEnd
<1>2. source.name \in Text /\ source.desc \in Text
      /\ source.daemons \in Seq([name : Text, dump : Text])
  BY <1>1, FileTyped
<1>3. d > 0 => /\ d \in 1..Len(source.daemons)
               /\ source.daemons[d] \in [name : Text, dump : Text]
  <2> DEFINE Source == [name : Text, dump : Text]
  <2>1. d > 0 => d \in 1..Len(source.daemons)
    BY <1>1, <1>2
  <2> HIDE DEF Source
  <2>2. source.daemons \in Seq(Source)
    BY <1>2 DEF Source
  <2>3. d > 0 => source.daemons[d] \in Source
    BY ONLY <2>1, <2>2, ElementOfSeq
  <2> QED
    BY <2>1, <2>3 DEF Source
<1>4. CASE d = 0
  <2>1. Mapping!Scalar = Mapping!Heading(source)[k]
    BY <1>4 DEF Mapping!Scalar
  <2>2. /\ k = 1 => Mapping!Scalar = "feature_name"
        /\ k = 2 => Mapping!Scalar = source.name
        /\ k = 3 => Mapping!Scalar = "feature_desc"
        /\ k = 4 => Mapping!Scalar = source.desc
        /\ k = 5 => Mapping!Scalar = "daemon"
    BY <2>1 DEF Mapping!Heading
  <2>3. Mapping!Scalar \in Mapping!Keys <=> k \in {1, 3, 5}
    BY <1>1, <1>2, <2>2 DEF Text, Mapping!Keys
  <2> QED
    BY <1>1, <1>4, <2>2, <2>3
<1>5. CASE d > 0
  <2>1. Mapping!Scalar = Mapping!Entry(source.daemons[d])[k]
    BY <1>5 DEF Mapping!Scalar
  <2>2. /\ k = 1 => Mapping!Scalar = "name"
        /\ k = 2 => Mapping!Scalar = source.daemons[d].name
        /\ k = 3 => Mapping!Scalar = "diag_dump"
        /\ k = 4 => Mapping!Scalar = source.daemons[d].dump
    BY <2>1 DEF Mapping!Entry
  <2>3. k \in 1..4 /\ source.daemons[d].name \in Text
        /\ source.daemons[d].dump \in Text
    BY <1>1, <1>3, <1>5
  <2>4. Mapping!Scalar \in Mapping!Keys <=> k \in {1, 3, 5}
    BY <2>2, <2>3 DEF Text, Mapping!Keys
  <2> QED
    BY <1>1, <1>3, <1>5, <2>2, <2>3, <2>4
<1> QED
  BY <1>1, <1>4, <1>5

\* The next place: in the same heading or entry, or at an entry after it, or at
\* the next feature after the last entry.
LEMMA FollowingAt ==
  ASSUME MappingOK, ~Mapping!AtEnd, pos' = Mapping!Following, file' = file,
         NEW n, n = pos.feature
  PROVE  LET last == pos.scalar = IF pos.daemon = 0 THEN 5 ELSE 4
         IN  /\ Mapping!PositionOK'
             /\ Mapping!NextDaemon(n)' = pos.daemon + (IF last THEN 1 ELSE 0)
             /\ Mapping!NextScalar(n)' = IF last THEN 1 ELSE pos.scalar + 1
             /\ ~last => pos' = Mapping!Place(n, pos.daemon, pos.scalar + 1)
             /\ last => /\ pos'.scalar = 1
                        /\ \/ pos'.daemon > 0 /\ pos'.feature = n
                           \/ pos'.daemon = 0 /\ pos'.feature = n + 1
             /\ \A i \in 1..n - 1 :
                  /\ Mapping!NextDaemon(i)' = Mapping!NextDaemon(i)
                  /\ Mapping!NextScalar(i)' = Mapping!NextScalar(i)
<1> DEFINE d == pos.daemon
           k == pos.scalar
           len == Len(file[n].daemons)
           last == k = IF d = 0 THEN 5 ELSE 4
<1>1. /\ pos \in [feature : 1..Len(file) + 1, daemon : Nat, scalar : 1..5]
      /\ n \in 1..Len(file) /\ k \in 1..5 /\ d \in Nat /\ len \in Nat
      /\ d <= len /\ (d > 0 => k < 5) /\ Len(file) \in Nat
  BY FileTyped DEF MappingOK, Mapping!ParserInv, Mapping!PositionOK,
     Mapping!AtEnd
<1> USE DEF Mapping!PositionOK, Mapping!AtEnd, Mapping!NextDaemon,
            Mapping!NextScalar, Mapping!Following, Mapping!Place
<1>2. CASE ~last
  <2>1. pos' = Mapping!Place(n, d, k + 1)
    BY <1>1, <1>2
  <2>2. pos'.feature = n /\ pos'.daemon = d /\ pos'.scalar = k + 1
    BY <1>1, <2>1
  <2>3. pos' \in [feature : 1..Len(file) + 1, daemon : Nat, scalar : 1..5]
    BY <1>1, <1>2, <2>1
  <2> QED
    BY <1>1, <1>2, <2>1, <2>2, <2>3
<1>3. CASE last /\ d < len
  <2>1. pos' = Mapping!Place(n, d + 1, 1)
    BY <1>1, <1>3
  <2>2. pos'.feature = n /\ pos'.daemon = d + 1 /\ pos'.scalar = 1
    BY <1>1, <2>1
  <2>3. pos' \in [feature : 1..Len(file) + 1, daemon : Nat, scalar : 1..5]
    BY <1>1, <1>3, <2>1
  <2> QED
    BY <1>1, <1>3, <2>2, <2>3
<1>4. CASE last /\ d = len
  <2>1. pos' = Mapping!Place(n + 1, 0, 1)
    BY <1>1, <1>4
  <2>2. pos'.feature = n + 1 /\ pos'.daemon = 0 /\ pos'.scalar = 1
    BY <2>1
  <2>3. n + 1 \in 1..Len(file) + 1
    BY <1>1
  <2>4. pos' \in [feature : 1..Len(file) + 1, daemon : Nat, scalar : 1..5]
    BY <2>1, <2>3
  <2>5. n + 1 <= Len(file) => 0 <= Len(file[n + 1].daemons)
    BY <1>1, FileTyped
  <2>6. Mapping!PositionOK'
    BY <1>1, <2>2, <2>4, <2>5
  <2>7. \A i \in 1..n - 1 :
          /\ Mapping!NextDaemon(i)' = Mapping!NextDaemon(i)
          /\ Mapping!NextScalar(i)' = Mapping!NextScalar(i)
    BY <1>1, <2>2
  <2>8. Mapping!NextDaemon(n)' = d + 1 /\ Mapping!NextScalar(n)' = 1
    BY <1>1, <1>4, <2>2
  <2> QED
    BY <1>1, <1>4, <2>2, <2>6, <2>7, <2>8
<1> QED
  BY <1>1, <1>2, <1>3, <1>4

-----------------------------------------------------------------------------
(* The steps of the parser.                                                *)

\* One more scalar keeps the invariant if it changes only the feature it is in,
\* to one that holds this scalar too.
LEMMA OneMore ==
  ASSUME MappingOK, ~Mapping!AtEnd, pos' = Mapping!Following, file' = file,
         features' \in Seq(FeatureSet), NEW n, n = pos.feature,
         NEW d, d = pos.daemon, NEW k, k = pos.scalar,
         Len(features') = IF d = 0 /\ k = 1 THEN n - 1 ELSE n,
         \A i \in 1..n - 1 : features'[i] = features[i],
         n <= Len(features') =>
           IF k = IF d = 0 THEN 5 ELSE 4
             THEN Mapping!HoldsUpTo(features'[n], file[n], d + 1, 1)
             ELSE Mapping!HoldsUpTo(features'[n], file[n], d, k + 1),
         k = 1 => state' = IF d = 0 THEN "feature_name" ELSE "name",
         k = 3 => state' = IF d = 0 THEN "feature_desc" ELSE "diag_dump",
         d > 0 /\ k > 1 => daemon'
  PROVE  MappingOK'
<1> DEFINE last == k = IF d = 0 THEN 5 ELSE 4
<1>1. n \in 1..Len(file) /\ k \in 1..5 /\ d \in Nat /\ Len(file) \in Nat
      /\ (d > 0 => k \in 1..4)
  BY ScalarAt, FileTyped
<1>2. /\ Mapping!PositionOK'
      /\ Mapping!NextDaemon(n)' = IF last THEN d + 1 ELSE d
      /\ Mapping!NextScalar(n)' = IF last THEN 1 ELSE k + 1
      /\ \A i \in 1..n - 1 :
           /\ Mapping!NextDaemon(i)' = Mapping!NextDaemon(i)
           /\ Mapping!NextScalar(i)' = Mapping!NextScalar(i)
  BY <1>1, FollowingAt
<1>3. ~last => pos'.feature = n /\ pos'.daemon = d /\ pos'.scalar = k + 1
  BY FollowingAt DEF Mapping!Place
<1>4. last => /\ pos'.scalar = 1
              /\ \/ pos'.daemon > 0 /\ pos'.feature = n
                 \/ pos'.daemon = 0 /\ pos'.feature = n + 1
  BY FollowingAt
<1>5. Mapping!StateOK'
  <2>1. CASE last
    BY <1>4, <2>1 DEF Mapping!StateOK
  <2>2. CASE ~last
    BY <1>1, <1>3, <2>2 DEF Mapping!StateOK
  <2> QED
    BY <2>1, <2>2
<1>6. Len(features') = pos'.feature
        - (IF pos'.daemon = 0 /\ pos'.scalar < 3 THEN 1 ELSE 0)
  <2>1. CASE last
    BY <1>1, <1>4, <2>1
  <2>2. CASE ~last
    BY <1>1, <1>3, <2>2
  <2> QED
    BY <2>1, <2>2
<1>7. ASSUME NEW i \in DOMAIN features'
      PROVE  Mapping!HoldsUpTo(features'[i], file[i], Mapping!NextDaemon(i)',
                               Mapping!NextScalar(i)')
  <2>1. i \in 1..Len(features') /\ Len(features') \in {n - 1, n}
    BY <1>1, <1>7
  <2>2. CASE i = n
    <3>1. CASE last
      BY <1>1, <1>2, <2>1, <2>2, <3>1
    <3>2. CASE ~last
      BY <1>1, <1>2, <2>1, <2>2, <3>2
    <3> QED
      BY <3>1, <3>2
  <2>3. CASE i # n
    <3>1. i \in 1..n - 1
      BY <1>1, <2>1, <2>3
    <3>2. Len(features) >= n - 1 /\ DOMAIN features = 1..Len(features)
      BY <1>1 DEF MappingOK, Mapping!ParserInv, Mapping!StoredOK
    <3>3. i \in DOMAIN features
      BY <1>1, <3>1, <3>2
    <3>4. Mapping!HoldsUpTo(features[i], file[i], Mapping!NextDaemon(i),
                            Mapping!NextScalar(i))
      BY <3>3 DEF MappingOK, Mapping!ParserInv, Mapping!StoredOK
    <3> QED
      BY <1>2, <3>1, <3>4
  <2> QED
    BY <2>2, <2>3
<1>8. Mapping!StoredOK'
  BY <1>6, <1>7 DEF Mapping!StoredOK, Mapping!HoldsUpTo
<1> QED
  BY <1>2, <1>5, <1>8 DEF MappingOK, Mapping!ParserInv

\* The feature that is being read, when it is stored already.
LEMMA Current ==
  ASSUME MappingOK, ~Mapping!AtEnd, NEW n, n = pos.feature,
         NEW d, d = pos.daemon, NEW k, k = pos.scalar
  PROVE  /\ n \in 1..Len(file) /\ d \in Nat /\ k \in 1..5 /\ (d > 0 => k < 5)
         /\ Len(features) = IF d = 0 /\ k < 3 THEN n - 1 ELSE n
         /\ DOMAIN features = 1..Len(features)
         /\ \A i \in 1..Len(features) : features[i] \in FeatureSet
         /\ ~(d = 0 /\ k < 3) =>
              /\ features # <<>> /\ features[n] \in FeatureSet
              /\ features[n].daemons \in Seq(DaemonSet)
              /\ Mapping!HoldsUpTo(features[n], file[n], d, k)
<1>1. n \in 1..Len(file) /\ d \in Nat /\ k \in 1..5 /\ (d > 0 => k < 5)
  BY ScalarAt
<1>2. Len(features) = IF d = 0 /\ k < 3 THEN n - 1 ELSE n
  BY <1>1, FileTyped DEF MappingOK, Mapping!ParserInv, Mapping!StoredOK
<1>3. features \in Seq(FeatureSet) /\ DOMAIN features = 1..Len(features)
  BY DEF MappingOK
<1>4. ASSUME NEW i \in 1..Len(features)
      PROVE  features[i] \in FeatureSet
  BY ONLY <1>3, <1>4, ElementOfSeq
<1>5. ASSUME ~(d = 0 /\ k < 3)
      PROVE  /\ features # <<>> /\ features[n] \in FeatureSet
             /\ features[n].daemons \in Seq(DaemonSet)
             /\ Mapping!HoldsUpTo(features[n], file[n], d, k)
  <2>1. n \in DOMAIN features /\ features # <<>>
    BY <1>1, <1>2, <1>3, <1>5, FileTyped
  <2>2. features[n] \in FeatureSet
    BY <1>3, <1>4, <2>1
  <2>3. features[n].daemons \in Seq(DaemonSet)
    <3> DEFINE D == Seq(DaemonSet)
    <3>1. features[n] \in [name : Text, desc : Text \cup {None}, daemons : D,
                           dump : BOOLEAN]
      BY <2>2 DEF FeatureSet
    <3> HIDE DEF D
    <3>2. features[n].daemons \in D
      BY ONLY <3>1
    <3> QED
      BY <3>2 DEF D
  <2>4. Mapping!NextDaemon(n) = d /\ Mapping!NextScalar(n) = k
    BY <1>1, FileTyped DEF Mapping!NextDaemon, Mapping!NextScalar
  <2>5. Mapping!HoldsUpTo(features[n], file[n], d, k)
    BY <2>1, <2>4 DEF MappingOK, Mapping!ParserInv, Mapping!StoredOK
  <2> QED
    BY <2>1, <2>2, <2>3, <2>5
<1> QED
  BY <1>1, <1>2, <1>3, <1>4, <1>5

LEMMA KeyStep ==
  ASSUME MappingOK, Mapping!ReadKey
  PROVE  MappingOK'
<1> USE DEF Mapping!ReadKey
<1>0. PICK n, d, k : n = pos.feature /\ d = pos.daemon /\ k = pos.scalar
  OBVIOUS
<1>1. /\ k \in {1, 3, 5}
      /\ k = 1 => state' = IF d = 0 THEN "feature_name" ELSE "name"
      /\ k = 3 => state' = IF d = 0 THEN "feature_desc" ELSE "diag_dump"
  BY <1>0, ScalarAt
<1>2. /\ Len(features) = IF d = 0 /\ k < 3 THEN n - 1 ELSE n
      /\ n \in 1..Len(file) /\ d \in Nat /\ (d > 0 => k < 5)
      /\ n <= Len(features) => Mapping!HoldsUpTo(features[n], file[n], d, k)
  BY <1>0, Current, FileTyped
<1>3. ASSUME n <= Len(features)
      PROVE  IF k = IF d = 0 THEN 5 ELSE 4
               THEN Mapping!HoldsUpTo(features[n], file[n], d + 1, 1)
               ELSE Mapping!HoldsUpTo(features[n], file[n], d, k + 1)
  <2>1. Mapping!HoldsUpTo(features[n], file[n], d, k)
    BY <1>2, <1>3
  <2>2. k = 5 => d = 0
    BY <1>2
  <2>3. ~(d = 0 /\ k = 1)
    BY <1>2, <1>3, FileTyped
  <2>4. CASE k = 5
    <3>1. DOMAIN features[n].daemons = {}
      <4>1. features[n].daemons \in Seq(DaemonSet)
            /\ Len(features[n].daemons) = 0
        BY <1>0, <2>1, <2>2, <2>4, Current DEF Mapping!HoldsUpTo
      <4> QED
        BY <4>1
    <3> QED
      BY <1>1, <2>1, <2>2, <2>4, <3>1 DEF Mapping!HoldsUpTo
  <2>5. CASE k # 5
    <3>1. k \in {1, 3} /\ d \in Nat /\ (k = 1 => d > 0)
      BY <1>1, <1>2, <2>3, <2>5
    <3>2. Mapping!HoldsUpTo(features[n], file[n], d, k + 1)
      BY <2>1, <3>1 DEF Mapping!HoldsUpTo
    <3> QED
      BY <3>1, <3>2
  <2> QED
    BY <2>4, <2>5
<1>4. d > 0 /\ k > 1 => daemon'
  BY <1>0, <1>1, <1>2 DEF MappingOK, Mapping!ParserInv, Mapping!StateOK
<1>5. Len(features) = IF d = 0 /\ k = 1 THEN n - 1 ELSE n
  BY <1>1, <1>2
<1>6. features' = features /\ features \in Seq(FeatureSet)
  BY DEF MappingOK
<1> QED
  BY <1>0, <1>1, <1>3, <1>4, <1>5, <1>6, OneMore

\* A value comes after its key.
LEMMA ValueAt ==
  ASSUME MappingOK, NEW expected, Mapping!Value(expected)
  PROVE  /\ ~Mapping!AtEnd /\ pos' = Mapping!Following /\ file' = file
         /\ Mapping!Scalar \in Text
         /\ expected = "feature_name" => pos.daemon = 0 /\ pos.scalar = 2
         /\ expected = "feature_desc" => pos.daemon = 0 /\ pos.scalar = 4
         /\ expected = "name" => pos.daemon > 0 /\ pos.scalar = 2
         /\ expected = "diag_dump" => pos.daemon > 0 /\ pos.scalar = 4
<1> USE DEF Mapping!Value
<1>1. pos.daemon \in Nat /\ pos.scalar \in {2, 4}
  BY ScalarAt
<1>2. Mapping!Scalar \in Text
  BY <1>1, ScalarAt, FileTyped
<1>3. state = expected /\ Mapping!StateOK
  BY DEF MappingOK, Mapping!ParserInv
<1> QED
  BY <1>1, <1>2, <1>3 DEF Mapping!StateOK

LEMMA NameStep ==
  ASSUME MappingOK, Mapping!AddFeature
  PROVE  MappingOK'
<1> USE DEF Mapping!AddFeature
<1> DEFINE new == [name |-> Mapping!Scalar, desc |-> None, daemons |-> <<>>,
                   dump |-> FALSE]
<1>0. PICK n, d, k : n = pos.feature /\ d = pos.daemon /\ k = pos.scalar
  OBVIOUS
<1>1. /\ ~Mapping!AtEnd /\ pos' = Mapping!Following /\ file' = file
      /\ Mapping!Scalar \in Text /\ d = 0 /\ k = 2
  BY <1>0, ValueAt
<1>2. Mapping!Scalar = file[n].name
  BY <1>0, <1>1, ScalarAt
<1>3. Len(features) = n - 1 /\ n \in 1..Len(file) /\ Len(file) \in Nat
  BY <1>0, <1>1, Current, FileTyped
<1>4. new \in FeatureSet /\ features \in Seq(FeatureSet)
  BY <1>1 DEF FeatureSet, MappingOK
<1>5. features' = Append(features, new)
  OBVIOUS
<1> HIDE DEF new
<1>6. /\ features' \in Seq(FeatureSet) /\ Len(features') = n
      /\ features'[n] = new /\ \A i \in 1..n - 1 : features'[i] = features[i]
  <2>1. n \in Nat /\ n - 1 + 1 = n
    BY ONLY <1>3
  <2> QED
    BY ONLY <1>3, <1>4, <1>5, <2>1, AppendProperties
<1>7. Mapping!HoldsUpTo(new, file[n], 0, 3)
  BY <1>2 DEF Mapping!HoldsUpTo, new
<1>8. /\ Len(features') = IF d = 0 /\ k = 1 THEN n - 1 ELSE n
      /\ IF k = IF d = 0 THEN 5 ELSE 4
           THEN Mapping!HoldsUpTo(features'[n], file[n], d + 1, 1)
           ELSE Mapping!HoldsUpTo(features'[n], file[n], d, k + 1)
      /\ k # 1 /\ k # 3 /\ ~(d > 0)
  BY ONLY <1>1, <1>6, <1>7
<1> HIDE DEF Mapping!AddFeature
<1> QED
  BY <1>0, <1>1, <1>6, <1>8, OneMore

\* Changing the feature that is read, and no other.
LEMMA ChangeLast ==
  ASSUME MappingOK, NEW expected, Mapping!Value(expected),
         expected \in {"feature_desc", "name", "diag_dump"},
         NEW n, n = pos.feature, NEW d, d = pos.daemon, NEW k, k = pos.scalar,
         NEW new \in FeatureSet, features' = [features EXCEPT ![n] = new],
         IF k = 4 /\ d > 0 THEN Mapping!HoldsUpTo(new, file[n], d + 1, 1)
         ELSE Mapping!HoldsUpTo(new, file[n], d, k + 1),
         d > 0 => daemon', UNCHANGED state
  PROVE  MappingOK'
<1>1. /\ ~Mapping!AtEnd /\ pos' = Mapping!Following /\ file' = file
      /\ k \in {2, 4} /\ ~(d = 0 /\ k < 3) /\ k < 5
  BY ValueAt
<1>2. /\ Len(features) = n /\ n \in 1..Len(file) /\ DOMAIN features = 1..n
      /\ Len(file) \in Nat /\ d \in Nat
      /\ \A i \in 1..n : features[i] \in FeatureSet
  BY <1>1, Current, FileTyped
<1>3. features \in Seq(FeatureSet)
  BY DEF MappingOK
<1>4. features' \in Seq(FeatureSet)
  BY ONLY <1>3, PutElement, new \in FeatureSet,
     features' = [features EXCEPT ![n] = new]
<1>5. Len(features') = n /\ features'[n] = new
      /\ \A i \in 1..n - 1 : features'[i] = features[i]
  BY <1>2, <1>3, <1>4
<1>6. n <= Len(features') =>
           IF k = IF d = 0 THEN 5 ELSE 4
             THEN Mapping!HoldsUpTo(features'[n], file[n], d + 1, 1)
             ELSE Mapping!HoldsUpTo(features'[n], file[n], d, k + 1)
  BY <1>1, <1>2, <1>5
<1> QED
  BY <1>1, <1>3, <1>4, <1>5, <1>6, OneMore

LEMMA DescStep ==
  ASSUME MappingOK, Mapping!AddDesc
  PROVE  MappingOK'
<1> USE DEF Mapping!AddDesc
<1>0. PICK n, d, k : n = pos.feature /\ d = pos.daemon /\ k = pos.scalar
  OBVIOUS
<1> DEFINE new == [features[n] EXCEPT !.desc = Mapping!Scalar]
<1>1. /\ Mapping!Value("feature_desc") /\ UNCHANGED state
      /\ ~Mapping!AtEnd /\ Mapping!Scalar \in Text /\ d = 0 /\ k = 4
  BY <1>0, ValueAt DEF Mapping!Value
<1>2. Mapping!Scalar = file[n].desc
  BY <1>0, <1>1, ScalarAt
<1>3. /\ features # <<>> /\ features[n] \in FeatureSet /\ Len(features) = n
      /\ Mapping!HoldsUpTo(features[n], file[n], 0, 4)
  BY <1>0, <1>1, Current
<1>4. new \in FeatureSet
  BY <1>1, <1>3 DEF FeatureSet
<1>5. features' = [features EXCEPT ![n] = new]
  BY <1>3 DEF Mapping!LastFeature
<1>6. Mapping!HoldsUpTo(new, file[n], 0, 5)
  <2>1. /\ new.name = features[n].name /\ new.desc = file[n].desc
        /\ new.daemons = features[n].daemons /\ new.dump = features[n].dump
    BY <1>2, <1>3 DEF FeatureSet
  <2> HIDE DEF new
  <2> QED
    BY <1>3, <2>1 DEF Mapping!HoldsUpTo
<1>7. IF k = 4 /\ d > 0 THEN Mapping!HoldsUpTo(new, file[n], d + 1, 1)
      ELSE Mapping!HoldsUpTo(new, file[n], d, k + 1)
  BY ONLY <1>1, <1>6
<1>8. d > 0 => daemon'
  BY <1>1
<1> HIDE DEF new, Mapping!AddDesc
<1> QED
  BY <1>0, <1>1, <1>4, <1>5, <1>7, <1>8, ChangeLast

LEMMA DaemonStep ==
  ASSUME MappingOK, Mapping!AddDaemon
  PROVE  MappingOK'
<1> USE DEF Mapping!AddDaemon
<1>0. PICK n, d, k : n = pos.feature /\ d = pos.daemon /\ k = pos.scalar
  OBVIOUS
<1> DEFINE entry == [name |-> Mapping!Scalar, dump |-> FALSE]
           new == [features[n] EXCEPT !.daemons = Append(@, entry)]
<1>1. /\ Mapping!Value("name") /\ UNCHANGED state
      /\ ~Mapping!AtEnd /\ Mapping!Scalar \in Text /\ d > 0 /\ k = 2
  BY <1>0, ValueAt DEF Mapping!Value
<1>2. /\ Mapping!Scalar = file[n].daemons[d].name /\ d \in Nat
  BY <1>0, <1>1, ScalarAt
<1>3. /\ features # <<>> /\ features[n] \in FeatureSet /\ Len(features) = n
      /\ features[n].daemons \in Seq(DaemonSet)
      /\ Mapping!HoldsUpTo(features[n], file[n], d, 2)
  BY <1>0, <1>1, Current
<1>4. entry \in DaemonSet
  BY <1>1 DEF DaemonSet
<1> HIDE DEF entry
<1>5. /\ Append(features[n].daemons, entry) \in Seq(DaemonSet)
      /\ Len(features[n].daemons) = d - 1
      /\ Len(Append(features[n].daemons, entry)) = d
      /\ \A i \in 1..d - 1 :
           Append(features[n].daemons, entry)[i] = features[n].daemons[i]
      /\ Append(features[n].daemons, entry)[d] = entry
  <2>1. Len(features[n].daemons) = d - 1 /\ d - 1 + 1 = d
    BY <1>1, <1>2, <1>3 DEF Mapping!HoldsUpTo
  <2> QED
    BY ONLY <1>3, <1>4, <2>1, AppendProperties
<1>6. new \in FeatureSet
  BY <1>3, <1>5 DEF FeatureSet
<1>7. features' = [features EXCEPT ![n] = new]
  BY <1>3 DEF Mapping!LastFeature, entry
<1>8. Mapping!HoldsUpTo(new, file[n], d, 3)
  <2>1. /\ new.name = features[n].name /\ new.desc = features[n].desc
        /\ new.daemons = Append(features[n].daemons, entry)
        /\ new.dump = features[n].dump
    BY <1>3 DEF FeatureSet
  <2> HIDE DEF new
  <2>2. DOMAIN features[n].daemons = 1..d - 1 /\ DOMAIN new.daemons = 1..d
    BY <1>1, <1>2, <1>3, <1>5, <2>1
  <2>3. entry.name = file[n].daemons[d].name /\ entry.dump = FALSE
    BY <1>2 DEF entry
  <2>4. ASSUME NEW j \in 1..d
        PROVE  /\ new.daemons[j].name = file[n].daemons[j].name
               /\ new.daemons[j].dump
                    = (j < d /\ file[n].daemons[j].dump = "y")
               /\ j < d => new.daemons[j] = features[n].daemons[j]
    <3>1. CASE j = d
      <4>1. ~(j < d) /\ new.daemons[j] = entry
        BY <1>2, <1>5, <2>1, <3>1
      <4>2. new.daemons[j].name = file[n].daemons[j].name
        BY <2>3, <3>1, <4>1
      <4>3. new.daemons[j].dump = (j < d /\ file[n].daemons[j].dump = "y")
        BY ONLY <2>3, <4>1
      <4> QED
        BY ONLY <4>1, <4>2, <4>3
    <3>2. CASE j < d
      <4>1. j \in 1..d - 1 /\ new.daemons[j] = features[n].daemons[j]
        BY <1>2, <1>5, <2>1, <3>2
      <4> QED
        BY <1>3, <2>2, <3>2, <4>1 DEF Mapping!HoldsUpTo
    <3> QED
      BY <1>2, <3>1, <3>2
  <2>5. new.dump => \E j \in DOMAIN new.daemons : new.daemons[j].dump
    <3>1. ASSUME new.dump
          PROVE  \E j \in DOMAIN new.daemons : new.daemons[j].dump
      <4>1. PICK j \in 1..d - 1 : features[n].daemons[j].dump
        BY <1>3, <2>1, <2>2, <3>1 DEF Mapping!HoldsUpTo
      <4>2. j \in 1..d /\ new.daemons[j] = features[n].daemons[j]
        BY <1>2, <1>5, <2>1, <4>1
      <4> QED
        BY <2>2, <4>1, <4>2
    <3> QED
      BY <3>1
  <2>6. /\ new.name = file[n].name /\ new.desc = file[n].desc
        /\ Len(new.daemons) = d
    BY <1>1, <1>3, <1>5, <2>1 DEF Mapping!HoldsUpTo
  <2> QED
    BY <1>1, <2>2, <2>4, <2>5, <2>6 DEF Mapping!HoldsUpTo
<1> HIDE DEF new
<1>9. IF k = 4 /\ d > 0 THEN Mapping!HoldsUpTo(new, file[n], d + 1, 1)
      ELSE Mapping!HoldsUpTo(new, file[n], d, k + 1)
  BY ONLY <1>1, <1>8
<1>10. d > 0 => daemon'
  OBVIOUS
<1> HIDE DEF Mapping!AddDaemon
<1> QED
  BY <1>0, <1>1, <1>6, <1>7, <1>9, <1>10, ChangeLast

LEMMA FlagStep ==
  ASSUME MappingOK, Mapping!AddFlag
  PROVE  MappingOK'
<1> USE DEF Mapping!AddFlag
<1>0. PICK n, d, k : n = pos.feature /\ d = pos.daemon /\ k = pos.scalar
  OBVIOUS
<1> DEFINE flag == Mapping!Scalar = "y"
           old == features[n].daemons
           ds  == [old EXCEPT ![d].dump = flag]
           new == [features[n] EXCEPT !.daemons = ds, !.dump = flag]
<1>1. /\ Mapping!Value("diag_dump") /\ UNCHANGED state
      /\ ~Mapping!AtEnd /\ Mapping!Scalar \in Text /\ d > 0 /\ k = 4
  BY <1>0, ValueAt DEF Mapping!Value
<1>2. Mapping!Scalar = file[n].daemons[d].dump /\ d \in Nat
  BY <1>0, <1>1, ScalarAt
<1>3. /\ features # <<>> /\ features[n] \in FeatureSet /\ Len(features) = n
      /\ old \in Seq(DaemonSet)
      /\ Mapping!HoldsUpTo(features[n], file[n], d, 4)
  BY <1>0, <1>1, Current
<1>4. daemon /\ daemon'
  BY <1>0, <1>1 DEF MappingOK, Mapping!ParserInv, Mapping!StateOK
<1>5. Len(old) = d /\ DOMAIN old = 1..d /\ d \in 1..d
  BY <1>1, <1>2, <1>3 DEF Mapping!HoldsUpTo
<1>6. /\ ds \in Seq(DaemonSet) /\ DOMAIN ds = 1..d
      /\ \A j \in 1..d - 1 : ds[j] = old[j]
      /\ ds[d].name = old[d].name /\ ds[d].dump = flag
  <2>1. flag \in BOOLEAN
    OBVIOUS
  <2>2. old[d] \in DaemonSet
    BY ONLY <1>3, <1>5, ElementOfSeq
  <2> HIDE DEF flag
  <2>3. ds \in Seq(DaemonSet)
    BY ONLY <1>3, <2>1, DumpFlag
  <2>4. /\ DOMAIN ds = 1..d /\ \A j \in 1..d - 1 : ds[j] = old[j]
        /\ ds[d] = [old[d] EXCEPT !.dump = flag]
    BY ONLY <1>2, <1>5
  <2>5. ds[d].name = old[d].name /\ ds[d].dump = flag
    BY ONLY <2>2, <2>4 DEF DaemonSet
  <2> QED
    BY ONLY <2>3, <2>4, <2>5
<1> HIDE DEF ds
<1>7. /\ new \in FeatureSet /\ new.name = features[n].name
      /\ new.desc = features[n].desc /\ new.daemons = ds /\ new.dump = flag
  <2> DEFINE D == Seq(DaemonSet)
  <2>1. features[n] \in [name : Text, desc : Text \cup {None}, daemons : D,
                         dump : BOOLEAN]
    BY <1>3 DEF FeatureSet
  <2>2. ds \in D /\ flag \in BOOLEAN
    BY <1>6
  <2> HIDE DEF D, flag
  <2>3. /\ new \in [name : Text, desc : Text \cup {None}, daemons : D,
                    dump : BOOLEAN]
        /\ new.name = features[n].name
        /\ new.desc = features[n].desc /\ new.daemons = ds /\ new.dump = flag
    BY ONLY <2>1, <2>2
  <2> QED
    BY <2>3 DEF D, FeatureSet
<1>8. features' = [features EXCEPT ![n] = new]
  <2>1. Mapping!Flagged(features[n], flag) = new
    BY <1>3, <1>4, <1>5 DEF Mapping!Flagged, FeatureSet, ds
  <2> QED
    BY <1>3, <2>1 DEF Mapping!LastFeature, Mapping!Flagged
<1> HIDE DEF new
<1>9. Mapping!HoldsUpTo(new, file[n], d + 1, 1)
  <2>1. ASSUME NEW j \in 1..d
        PROVE  /\ ds[j].name = file[n].daemons[j].name
               /\ ds[j].dump = (j < d + 1 /\ file[n].daemons[j].dump = "y")
    <3>1. /\ old[j].name = file[n].daemons[j].name
          /\ old[j].dump = (j < d /\ file[n].daemons[j].dump = "y")
      BY <1>3, <1>5 DEF Mapping!HoldsUpTo
    <3>2. CASE j = d
      BY <1>2, <1>6, <3>1, <3>2
    <3>3. CASE j < d
      <4>1. ds[j] = old[j] /\ (j < d + 1 <=> j < d)
        BY <1>2, <1>6, <3>3
      <4> QED
        BY ONLY <3>1, <4>1
    <3> QED
      BY <1>2, <3>2, <3>3
  <2>2. new.dump => \E j \in DOMAIN ds : ds[j].dump
    BY <1>5, <1>6, <1>7
  <2>3. /\ new.name = file[n].name /\ new.desc = file[n].desc
        /\ Len(ds) = d + 1 - 1
    BY <1>1, <1>2, <1>3, <1>6, <1>7 DEF Mapping!HoldsUpTo
  <2> QED
    BY <1>1, <1>2, <1>6, <1>7, <2>1, <2>2, <2>3 DEF Mapping!HoldsUpTo
<1>10. IF k = 4 /\ d > 0 THEN Mapping!HoldsUpTo(new, file[n], d + 1, 1)
       ELSE Mapping!HoldsUpTo(new, file[n], d, k + 1)
  BY ONLY <1>1, <1>9
<1> HIDE DEF Mapping!AddFlag
<1> QED
  BY <1>0, <1>1, <1>4, <1>7, <1>8, <1>10, ChangeLast

LEMMA MappingKept ==
  ASSUME MappingOK, UNCHANGED <<file, features, pos, state, daemon>>
  PROVE  MappingOK'
<1>1. Mapping!PositionOK'
  BY DEF MappingOK, Mapping!ParserInv, Mapping!PositionOK, Mapping!AtEnd
<1>2. Mapping!StateOK'
  BY DEF MappingOK, Mapping!ParserInv, Mapping!StateOK
<1>3. Mapping!StoredOK'
  BY DEF MappingOK, Mapping!ParserInv, Mapping!StoredOK, Mapping!NextDaemon,
     Mapping!NextScalar, Mapping!HoldsUpTo
<1> QED
  BY <1>1, <1>2, <1>3 DEF MappingOK, Mapping!ParserInv

\* Whatever the scalar is, and where the file ends in an error.
LEMMA ParseInv ==
  ASSUME MappingOK, Mapping!ParseStep
  PROVE  MappingOK'
<1>1. ASSUME Mapping!ParseEnd \/ Mapping!ParseError
      PROVE  MappingOK'
  BY <1>1, MappingKept DEF Mapping!ParseEnd, Mapping!ParseError
<1> QED
  BY <1>1, KeyStep, NameStep, DescStep, DaemonStep, FlagStep
  DEF Mapping!ParseStep

LEMMA StartInv ==
  ASSUME file \in Docs, features = <<>>, pos = Mapping!Start, daemon = FALSE
  PROVE  MappingOK
<1>1. file \in DocSet
  BY DocsAssumption
<1>2. Len(file) \in Nat
  BY <1>1 DEF DocSet
<1>3. pos.feature = 1 /\ pos.daemon = 0 /\ pos.scalar = 1
      /\ pos \in [feature : 1..Len(file) + 1, daemon : Nat, scalar : 1..5]
  BY <1>2 DEF Mapping!Start, Mapping!Place
<1>4. 1 \in 1..Len(file) => Len(file[1].daemons) \in Nat
  <2> DEFINE Daemons == Seq([name : Text, dump : Text])
             Source == [name : Text, desc : Text, daemons : Daemons]
  <2>1. file \in Seq(Source)
    BY <1>1 DEF DocSet
  <2>2. 1 \in 1..Len(file) => file[1] \in Source
    BY ONLY <2>1, ElementOfSeq
  <2>3. file[1] \in Source => file[1].daemons \in Daemons
    <3> HIDE DEF Daemons
    <3> QED
      OBVIOUS
  <2>4. file[1].daemons \in Daemons => Len(file[1].daemons) \in Nat
    OBVIOUS
  <2> QED
    BY ONLY <2>2, <2>3, <2>4
<1>5. Mapping!PositionOK
  BY <1>2, <1>3, <1>4 DEF Mapping!PositionOK, Mapping!AtEnd
<1>6. Mapping!StateOK /\ Mapping!StoredOK /\ features \in Seq(FeatureSet)
  BY <1>3 DEF Mapping!StateOK, Mapping!StoredOK
<1> QED
  BY <1>5, <1>6 DEF MappingOK, Mapping!ParserInv

LEMMA ReadInv ==
  ASSUME MappingOK, Mapping!GetMapping
  PROVE  MappingOK'
<1>1. file' \in Docs /\ features' = <<>> /\ pos' = Mapping!Start
      /\ daemon' = FALSE
  BY DEF Mapping!GetMapping, MappingOK
<1>2. file' \in DocSet
  BY <1>1, DocsAssumption
<1>3. Len(file') \in Nat
  BY <1>2 DEF DocSet
<1>4. pos'.feature = 1 /\ pos'.daemon = 0 /\ pos'.scalar = 1
      /\ pos' \in [feature : 1..Len(file') + 1, daemon : Nat, scalar : 1..5]
  BY <1>1, <1>3 DEF Mapping!Start, Mapping!Place
<1>5. 1 \in 1..Len(file') => Len(file'[1].daemons) \in Nat
  BY FileTyped DEF Mapping!GetMapping
<1>6. Mapping!PositionOK'
  BY <1>3, <1>4, <1>5 DEF Mapping!PositionOK, Mapping!AtEnd
<1>7. Mapping!StateOK' /\ Mapping!StoredOK' /\ features' \in Seq(FeatureSet)
  BY <1>1, <1>4 DEF Mapping!StateOK, Mapping!StoredOK
<1> QED
  BY <1>1, <1>6, <1>7 DEF MappingOK, Mapping!ParserInv

\* Parsing, reading and installing.
BootStep == Read \/ Parse \/ InstallDiagDump

LEMMA BootMapping ==
  ASSUME MappingOK, MapInv, boot \in {"start", "read", "up"}, BootStep
  PROVE  MappingOK' /\ MapInv' /\ boot' \in {"start", "read", "up"}
<1> USE DEF MapInv
<1>1. CASE Read
  <2>1. MappingOK' /\ pc' = "idle" /\ features = <<>> /\ features' = <<>>
        /\ installed' = installed /\ boot' \in {"read", "up"}
    BY <1>1, ReadInv DEF Read, others, main, Mapping!GetMapping
  <2>2. installed = {}
    BY <2>1
  <2> QED
    BY <2>1, <2>2
<1>2. CASE Parse
  <2>1. parsing
    BY <1>2 DEF Parse, Mapping!ParseStep, Mapping!ReadKey, Mapping!AddFeature,
       Mapping!AddDesc, Mapping!AddDaemon, Mapping!AddFlag, Mapping!Value,
       Mapping!ParseEnd, Mapping!ParseError
  <2>2. installed = {} /\ installed' = {} /\ pc = "idle" /\ pc' = "idle"
    BY <1>2, <2>1 DEF Parse, others, main
  <2> QED
    BY <1>2, <2>2, ParseInv DEF Parse
<1>3. CASE InstallDiagDump
  BY <1>3, MappingKept DEF InstallDiagDump, main, parser
<1> QED
  BY <1>1, <1>2, <1>3 DEF BootStep

-----------------------------------------------------------------------------
(* What the invariant says of the mapping.                                 *)

\* A feature that is read to its end is the feature of the file.
LEMMA WholeFeature ==
  ASSUME NEW f \in FeatureSet, NEW source,
         source.daemons \in Seq([name : Text, dump : Text]),
         Mapping!HoldsUpTo(f, source, Len(source.daemons) + 1, 1)
  PROVE  [name |-> f.name, desc |-> f.desc, daemons |-> f.daemons]
           = Mapping!FeatureOf(source)
<1> DEFINE n == Len(source.daemons)
           Of(d) == [name |-> d.name, dump |-> d.dump = "y"]
<1>1. n \in Nat /\ DOMAIN source.daemons = 1..n
  OBVIOUS
<1>2. f.daemons \in Seq(DaemonSet)
  <2> DEFINE D == Seq(DaemonSet)
  <2>1. f \in [name : Text, desc : Text \cup {None}, daemons : D,
               dump : BOOLEAN]
    BY DEF FeatureSet
  <2>2. f.daemons \in D
    <3> HIDE DEF D
    <3> QED
      BY ONLY <2>1
  <2> QED
    BY <2>2
<1>3. DOMAIN f.daemons = 1..n
  BY <1>1, <1>2 DEF Mapping!HoldsUpTo
<1>4. ASSUME NEW j \in 1..n
      PROVE  f.daemons[j] = Of(source.daemons[j])
  <2>1. f.daemons[j] \in DaemonSet
    BY ONLY <1>2, <1>3, <1>4, ElementOfSeq
  <2>2. f.daemons[j].name = source.daemons[j].name
    BY <1>3 DEF Mapping!HoldsUpTo
  <2>3. f.daemons[j].dump = (j < n + 1 /\ source.daemons[j].dump = "y")
    BY <1>3 DEF Mapping!HoldsUpTo
  <2>4. j < n + 1
    BY <1>1
  <2>5. f.daemons[j].dump = (source.daemons[j].dump = "y")
    BY ONLY <2>3, <2>4
  <2> QED
    BY ONLY <2>1, <2>2, <2>5 DEF DaemonSet
<1>5. f.daemons = [j \in 1..n |-> Of(source.daemons[j])]
  <2> HIDE DEF Of
  <2>1. f.daemons = [j \in 1..n |-> f.daemons[j]]
    BY ONLY <1>2, <1>3
  <2> QED
    BY ONLY <1>4, <2>1
<1>6. f.name = source.name /\ f.desc = source.desc
  BY <1>1 DEF Mapping!HoldsUpTo
<1> QED
  BY <1>1, <1>5, <1>6 DEF Mapping!FeatureOf

LEMMA PrefixHolds ==
  ASSUME MappingOK
  PROVE  MappingIsPrefix
<1> DEFINE Daemons == Seq([name : Text, dump : Text])
           Source == [name : Text, desc : Text, daemons : Daemons]
           Stored(i) == [name |-> features[i].name, desc |-> features[i].desc,
                         daemons |-> features[i].daemons]
<1>1. /\ pos.feature \in 1..Len(file) + 1 /\ pos.daemon \in Nat
      /\ pos.scalar \in 1..5 /\ Len(file) \in Nat
      /\ ~Mapping!AtEnd => pos.feature <= Len(file)
      /\ Mapping!AtEnd =>
           pos.feature = Len(file) + 1 /\ pos.daemon = 0 /\ pos.scalar = 1
  BY FileTyped DEF MappingOK, Mapping!ParserInv, Mapping!PositionOK,
     Mapping!AtEnd
<1>2. /\ Len(features) = pos.feature
           - (IF pos.daemon = 0 /\ pos.scalar < 3 THEN 1 ELSE 0)
      /\ features \in Seq(FeatureSet) /\ DOMAIN features = 1..Len(features)
      /\ Len(features) \in Nat
  BY DEF MappingOK, Mapping!ParserInv, Mapping!StoredOK
<1>3. Len(features) <= Len(file)
      /\ (Mapping!Whole => Len(features) = Len(file))
  BY <1>1, <1>2 DEF Mapping!Whole
<1>4. ASSUME NEW i \in DOMAIN features
      PROVE  /\ features[i] \in FeatureSet /\ file[i] \in Source
             /\ Mapping!HoldsUpTo(features[i], file[i], Mapping!NextDaemon(i),
                                  Mapping!NextScalar(i))
  <2>1. i \in 1..Len(file)
    BY <1>1, <1>2, <1>3
  <2>2. file \in Seq(Source)
    BY DocsAssumption DEF MappingOK, DocSet
  <2>3. file[i] \in Source
    BY ONLY <2>1, <2>2, ElementOfSeq
  <2>4. features[i] \in FeatureSet
    BY ONLY <1>2, <1>4, ElementOfSeq
  <2> QED
    BY <2>3, <2>4 DEF MappingOK, Mapping!ParserInv, Mapping!StoredOK
<1>5. ASSUME NEW i \in DOMAIN features, i < Len(features) \/ Mapping!Whole
      PROVE  Stored(i) = Mapping!FeatureOf(file[i])
  <2>1. i < pos.feature
    BY <1>1, <1>2, <1>5 DEF Mapping!Whole
  <2>2. Mapping!HoldsUpTo(features[i], file[i], Len(file[i].daemons) + 1, 1)
    BY <1>4, <2>1 DEF Mapping!NextDaemon, Mapping!NextScalar
  <2>3. file[i].daemons \in Daemons
    <3> HIDE DEF Daemons
    <3> QED
      BY <1>4
  <2> QED
    BY <1>4, <2>2, <2>3, WholeFeature
<1>6. ASSUME NEW i \in DOMAIN features, ~(i < Len(features) \/ Mapping!Whole)
      PROVE  /\ features[i].name = file[i].name
             /\ Len(features[i].daemons) <= Len(file[i].daemons)
             /\ \A j \in 1..Len(features[i].daemons) - 1 :
                  features[i].daemons[j]
                    = Mapping!FeatureOf(file[i]).daemons[j]
  <2> DEFINE d == Mapping!NextDaemon(i)
             k == Mapping!NextScalar(i)
             ds == features[i].daemons
  <2>1. ds \in Seq(DaemonSet) /\ file[i].daemons \in Daemons
    <3> DEFINE D == Seq(DaemonSet)
    <3>1. features[i] \in [name : Text, desc : Text \cup {None}, daemons : D,
                           dump : BOOLEAN] /\ file[i] \in Source
      BY <1>4, <1>6 DEF FeatureSet
    <3> HIDE DEF D, Daemons
    <3>2. ds \in D /\ file[i].daemons \in Daemons
      BY ONLY <3>1
    <3> QED
      BY <3>2 DEF D
  <2>2. Len(ds) \in Nat /\ DOMAIN ds = 1..Len(ds)
        /\ Len(file[i].daemons) \in Nat
        /\ DOMAIN file[i].daemons = 1..Len(file[i].daemons)
    BY ONLY <2>1
  <2>3. /\ features[i].name = file[i].name
        /\ Len(ds) = IF d > 0 /\ k < 3 THEN d - 1 ELSE d
        /\ \A j \in DOMAIN ds :
             /\ ds[j].name = file[i].daemons[j].name
             /\ ds[j].dump = (j < d /\ file[i].daemons[j].dump = "y")
    BY <1>4, <1>6 DEF Mapping!HoldsUpTo
  <2>4. d \in Nat /\ (d <= Len(file[i].daemons)
          \/ (d = Len(file[i].daemons) + 1 /\ k = 1))
    <3>1. CASE i < pos.feature
      BY <2>2, <3>1 DEF Mapping!NextDaemon, Mapping!NextScalar
    <3>2. CASE ~(i < pos.feature)
      <4>1. i = pos.feature /\ ~Mapping!AtEnd
        BY <1>1, <1>2, <1>3, <1>6, <3>2
      <4>2. pos.daemon <= Len(file[i].daemons)
        BY <4>1 DEF MappingOK, Mapping!ParserInv, Mapping!PositionOK
      <4> QED
        BY <1>1, <3>2, <4>2 DEF Mapping!NextDaemon
    <3> QED
      BY <3>1, <3>2
  <2> HIDE DEF d, k
  <2>5. Len(ds) <= Len(file[i].daemons) /\ Len(ds) - 1 < d
    BY ONLY <2>2, <2>3, <2>4
  <2>6. ASSUME NEW j \in 1..Len(ds) - 1
        PROVE  ds[j] = Mapping!FeatureOf(file[i]).daemons[j]
    <3>1. j \in DOMAIN ds /\ j < d /\ j \in DOMAIN file[i].daemons
      BY ONLY <2>2, <2>4, <2>5, <2>6
    <3>2. ds[j].name = file[i].daemons[j].name
      BY <2>3, <3>1
    <3>3. ds[j].dump = (j < d /\ file[i].daemons[j].dump = "y")
      BY <2>3, <3>1
    <3>4. ds[j].dump = (file[i].daemons[j].dump = "y")
      BY ONLY <3>1, <3>3
    <3>5. ds[j] \in DaemonSet
      BY ONLY <2>1, <2>2, <3>1, ElementOfSeq
    <3>6. ds[j] = [name |-> file[i].daemons[j].name,
                   dump |-> file[i].daemons[j].dump = "y"]
      BY ONLY <3>2, <3>4, <3>5 DEF DaemonSet
    <3> QED
      BY ONLY <3>1, <3>6 DEF Mapping!FeatureOf
  <2> QED
    BY ONLY <2>3, <2>5, <2>6
<1> QED
  BY <1>3, <1>5, <1>6 DEF MappingIsPrefix, Mapping!MappingIsPrefix

LEMMA CanDumpHolds ==
  ASSUME MappingOK
  PROVE  InstalledCanDump
<1> SUFFICES ASSUME NEW i \in DOMAIN features, features[i].dump
             PROVE  /\ features[i].desc # None
                    /\ \E j \in DOMAIN features[i].daemons :
                         features[i].daemons[j].dump
  BY DEF InstalledCanDump, Mapping!InstalledCanDump
<1> DEFINE d == Mapping!NextDaemon(i)
           k == Mapping!NextScalar(i)
           ds == features[i].daemons
<1>1. i \in 1..Len(file) /\ i <= pos.feature /\ pos.daemon \in Nat
      /\ pos.scalar \in 1..5
  <2>1. Len(features) = pos.feature
           - (IF pos.daemon = 0 /\ pos.scalar < 3 THEN 1 ELSE 0)
        /\ DOMAIN features = 1..Len(features)
    BY DEF MappingOK, Mapping!ParserInv, Mapping!StoredOK
  <2>2. Len(features) <= Len(file)
    BY PrefixHolds DEF MappingIsPrefix, Mapping!MappingIsPrefix
  <2> QED
    BY <2>1, <2>2, FileTyped DEF MappingOK, Mapping!ParserInv,
       Mapping!PositionOK
<1>2. Mapping!HoldsUpTo(features[i], file[i], d, k)
  BY DEF MappingOK, Mapping!ParserInv, Mapping!StoredOK
<1>3. PICK j \in DOMAIN ds : ds[j].dump
  BY <1>2 DEF Mapping!HoldsUpTo
<1>4. ds[j].dump = (j < d /\ file[i].daemons[j].dump = "y")
  BY <1>2 DEF Mapping!HoldsUpTo
<1>5. j < d
  BY <1>3, <1>4
<1>6. j \in Nat \ {0} /\ d \in Nat
  <2>1. features[i] \in FeatureSet
    BY ElementOfSeq DEF MappingOK
  <2>2. ds \in Seq(DaemonSet)
    <3> DEFINE D == Seq(DaemonSet)
    <3>1. features[i] \in [name : Text, desc : Text \cup {None}, daemons : D,
                           dump : BOOLEAN]
      BY <2>1 DEF FeatureSet
    <3> HIDE DEF D
    <3>2. ds \in D
      BY ONLY <3>1
    <3> QED
      BY <3>2 DEF D
  <2>3. j \in Nat \ {0}
    BY ONLY <1>3, <2>2
  <2> QED
    BY <1>1, <2>3, FileTyped DEF Mapping!NextDaemon
<1>7. d > 0
  BY ONLY <1>5, <1>6
<1>8. features[i].desc = file[i].desc
  BY <1>2, <1>7 DEF Mapping!HoldsUpTo
<1> QED
  BY <1>1, <1>3, <1>8, FileTyped, DocsAssumption
=============================================================================
