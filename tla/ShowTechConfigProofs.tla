------------------------ MODULE ShowTechConfigProofs ------------------------
(***************************************************************************)
(* Proofs about ShowTechConfig, for every set of files and every place at  *)
(* which the parser is stopped. What has been stored is, between any two   *)
(* scalars, a function of the file and of the parser's place: it is built  *)
(* up here for a sub feature, a feature and the list, and every step moves *)
(* it on by one scalar.                                                    *)
(***************************************************************************)
EXTENDS ShowTechConfig, SequenceTheorems, TLAPS

USE NoneAssumption

-----------------------------------------------------------------------------
(* The rows of a file.                                                     *)

\* A scalar. The provers do not know that the name of a key is in STRING.
Word == Keys \cup STRING

\* A sub feature as a file may have it.
Proper(s) ==
  /\ s \in FileSub
  /\ IF s.dummy THEN s.name = None /\ s.desc = None ELSE s.name # None /\ s.desc # None

\* The parts that a row is written from: one scalar ...
LEMMA OneWord ==
  ASSUME NEW a \in Word
  PROVE  <<a>> \in Seq(Word) /\ Len(<<a>>) = 1 /\ <<a>>[1] = a
  OBVIOUS

\* ... a key with its value ...
LEMMA TwoWords ==
  ASSUME NEW a \in Word, NEW b \in Word
  PROVE  /\ <<a, b>> \in Seq(Word) /\ Len(<<a, b>>) = 2
         /\ <<a, b>>[1] = a /\ <<a, b>>[2] = b
  OBVIOUS

\* ... the head of a table ...
LEMMA FourWords ==
  ASSUME NEW a \in Word, NEW b \in Word, NEW c \in Word, NEW d \in Word
  PROVE  /\ <<a, b, c, d>> \in Seq(Word) /\ Len(<<a, b, c, d>>) = 4
         /\ <<a, b, c, d>>[1] = a /\ <<a, b, c, d>>[2] = b
         /\ <<a, b, c, d>>[3] = c /\ <<a, b, c, d>>[4] = d
  OBVIOUS

\* ... the head of a feature or of a sub feature ...
LEMMA FiveWords ==
  ASSUME NEW a \in Word, NEW b \in Word, NEW c \in Word, NEW d \in Word, NEW e \in Word
  PROVE  /\ <<a, b, c, d, e>> \in Seq(Word) /\ Len(<<a, b, c, d, e>>) = 5
         /\ <<a, b, c, d, e>>[1] = a /\ <<a, b, c, d, e>>[2] = b
         /\ <<a, b, c, d, e>>[3] = c /\ <<a, b, c, d, e>>[4] = d
         /\ <<a, b, c, d, e>>[5] = e
  OBVIOUS

\* ... and nothing.
LEMMA NoWords == <<>> \in Seq(Word) /\ Len(<<>>) = 0
  OBVIOUS

\* The elements of a concatenation.
LEMMA Join ==
  ASSUME NEW p \in Seq(Word), NEW q \in Seq(Word)
  PROVE  /\ p \o q \in Seq(Word) /\ Len(p \o q) = Len(p) + Len(q)
         /\ Len(p) \in Nat /\ Len(q) \in Nat
         /\ \A i \in 1..Len(p) : (p \o q)[i] = p[i]
         /\ \A i \in 1..Len(q) : (p \o q)[Len(p) + i] = q[i]
<1>1. Len(p) \in Nat /\ Len(q) \in Nat
  OBVIOUS
<1>2. /\ p \o q \in Seq(Word) /\ Len(p \o q) = Len(p) + Len(q)
      /\ \A i \in 1 .. Len(p) + Len(q) : (p \o q)[i] =
                     IF i <= Len(p) THEN p[i] ELSE q[i - Len(p)]
  BY ConcatProperties
<1>3. ASSUME NEW i \in 1..Len(p) PROVE (p \o q)[i] = p[i]
  BY <1>1, <1>2
<1>4. ASSUME NEW i \in 1..Len(q) PROVE (p \o q)[Len(p) + i] = q[i]
  <2>1. /\ Len(p) + i \in 1..Len(p) + Len(q) /\ ~(Len(p) + i <= Len(p))
        /\ (Len(p) + i) - Len(p) = i
    BY <1>1
  <2>. QED
    BY <1>2, <2>1
<1>. QED
  BY <1>1, <1>2, <1>3, <1>4

\* A sequence in another one, after so many of its elements.
Inside(x, n, p) ==
  n + Len(x) <= Len(p) /\ \A i \in 1..Len(x) : p[n + i] = x[i]

\* What is appended comes after all of the rest ...
LEMMA InsideJoin ==
  ASSUME NEW p \in Seq(Word), NEW q \in Seq(Word)
  PROVE  Inside(q, Len(p), p \o q)
<1>1. /\ Len(p \o q) = Len(p) + Len(q) /\ Len(p) \in Nat /\ Len(q) \in Nat
      /\ \A i \in 1..Len(q) : (p \o q)[Len(p) + i] = q[i]
  BY Join
<1>. QED
  BY <1>1 DEF Inside

\* ... and what was there stays where it is.
LEMMA InsideWider ==
  ASSUME NEW p \in Seq(Word), NEW q \in Seq(Word), NEW x \in Seq(Word), NEW n \in Nat,
         Inside(x, n, p)
  PROVE  Inside(x, n, p \o q)
<1>1. /\ Len(p \o q) = Len(p) + Len(q) /\ Len(p) \in Nat /\ Len(q) \in Nat
      /\ \A i \in 1..Len(p) : (p \o q)[i] = p[i]
  BY Join
<1>2. Len(x) \in Nat /\ n + Len(x) <= Len(p) /\ \A i \in 1..Len(x) : p[n + i] = x[i]
  BY DEF Inside
<1>3. n + Len(x) <= Len(p \o q)
  BY <1>1, <1>2
<1>4. ASSUME NEW i \in 1..Len(x) PROVE (p \o q)[n + i] = x[i]
  <2>1. n + i \in 1..Len(p)
    BY <1>1, <1>2
  <2>. QED
    BY <2>1, <1>1, <1>2
<1>. QED
  BY <1>3, <1>4 DEF Inside

\* A key with its value, or nothing.
LEMMA PairScalars ==
  ASSUME NEW key \in Word, NEW value \in Text \cup {None}
  PROVE  /\ Pair(key, value) \in Seq(Word)
         /\ Len(Pair(key, value)) = (IF value = None THEN 0 ELSE 2)
         /\ value # None => Pair(key, value)[1] = key /\ Pair(key, value)[2] = value
<1>1. CASE value = None
  BY <1>1, NoWords DEF Pair
<1>2. CASE value # None
  <2>1. value \in Word /\ Pair(key, value) = <<key, value>>
    BY <1>2 DEF Pair, Text, Word
  <2>. QED
    BY <1>2, <2>1, TwoWords
<1>. QED
  BY <1>1, <1>2

\* The keys are words.
LEMMA KeyWords ==
  /\ "feature" \in Word /\ "feature_name" \in Word /\ "feature_desc" \in Word
  /\ "sub_feature" \in Word /\ "sub_feature_name" \in Word /\ "sub_feature_desc" \in Word
  /\ "support_showtech_all" \in Word /\ "support_showtech_feature" \in Word
  /\ "cli_cmds" \in Word /\ "ovsdb" \in Word /\ "table" \in Word
  /\ "table_name" \in Word /\ "col_names" \in Word
  BY DEF Word, Keys

\* The attributes of a sub feature.
LEMMA SubFields ==
  ASSUME NEW s, Proper(s)
  PROVE  /\ s.all \in Text \cup {None} /\ s.feature \in Text \cup {None}
         /\ s.cmds \in Seq(Text) /\ s.cmds \in Seq(Word) /\ s.tables \in Seq(FileTable)
         /\ s.dummy \in BOOLEAN
         /\ s.name \in Text \cup {None} /\ s.desc \in Text \cup {None}
         /\ s.dummy => s.name = None /\ s.desc = None
         /\ ~s.dummy => /\ s.name \in Text /\ s.desc \in Text
                        /\ s.name \in Word /\ s.desc \in Word
         /\ Len(s.cmds) \in Nat /\ Len(s.tables) \in Nat
<1>1. Text \subseteq Word
  BY DEF Text, Word
<1>2. /\ s.all \in Text \cup {None} /\ s.feature \in Text \cup {None}
      /\ s.cmds \in Seq(Text) /\ s.tables \in Seq(FileTable)
      /\ s.dummy \in BOOLEAN /\ s.name \in Text \cup {None}
      /\ s.desc \in Text \cup {None}
  BY DEF Proper, FileSub
<1>. QED
  BY <1>1, <1>2 DEF Proper

\* The ends of the parts of a sub feature.
LEMMA EndsType ==
  ASSUME NEW s, Proper(s)
  PROVE  /\ HeadEnd(s) = IF s.dummy THEN 0 ELSE 5
         /\ AllEnd(s) = HeadEnd(s) + (IF s.all = None THEN 0 ELSE 2)
         /\ FlagsEnd(s) = AllEnd(s) + (IF s.feature = None THEN 0 ELSE 2)
         /\ CmdsEnd(s) = FlagsEnd(s) + (IF s.cmds = <<>> THEN 0 ELSE 1 + Len(s.cmds))
         /\ HeadEnd(s) \in Nat /\ AllEnd(s) \in Nat /\ FlagsEnd(s) \in Nat /\ CmdsEnd(s) \in Nat
<1>1. HeadEnd(s) \in Nat /\ HeadEnd(s) = (IF s.dummy THEN 0 ELSE 5)
  BY DEF HeadEnd
<1>2. Len(Pair("support_showtech_all", s.all)) = IF s.all = None THEN 0 ELSE 2
  BY KeyWords, SubFields, PairScalars
<1>3. Len(Pair("support_showtech_feature", s.feature)) = IF s.feature = None THEN 0 ELSE 2
  <2>1. "support_showtech_feature" \in Word /\ s.feature \in Text \cup {None}
    BY KeyWords, SubFields
  <2>. QED
    BY <2>1, PairScalars
<1>4. /\ AllEnd(s) = HeadEnd(s) + (IF s.all = None THEN 0 ELSE 2)
      /\ AllEnd(s) \in Nat
  BY <1>1, <1>2 DEF AllEnd
<1>5. /\ FlagsEnd(s) = AllEnd(s) + (IF s.feature = None THEN 0 ELSE 2)
      /\ FlagsEnd(s) \in Nat
  BY <1>4, <1>3 DEF FlagsEnd
<1>6. /\ CmdsEnd(s) = FlagsEnd(s) + (IF s.cmds = <<>> THEN 0 ELSE 1 + Len(s.cmds))
      /\ CmdsEnd(s) \in Nat
  BY <1>5, SubFields DEF CmdsEnd
<1>. QED
  BY <1>1, <1>4, <1>5, <1>6

\* What precedes the tables of a sub feature, part by part.
LEMMA SubRow ==
  ASSUME NEW s, Proper(s)
  PROVE  LET r == SubScalars(s)
         IN  /\ r \in Seq(Word)
             /\ Len(r) = CmdsEnd(s) + (IF s.tables = <<>> THEN 0 ELSE 1)
             /\ ~s.dummy => /\ r[1] = "sub_feature" /\ r[2] = "sub_feature_name"
                            /\ r[3] = s.name /\ r[4] = "sub_feature_desc"
                            /\ r[5] = s.desc
             /\ s.all # None => /\ r[HeadEnd(s) + 1] = "support_showtech_all"
                                /\ r[HeadEnd(s) + 2] = s.all
             /\ s.feature # None => /\ r[AllEnd(s) + 1] = "support_showtech_feature"
                                    /\ r[AllEnd(s) + 2] = s.feature
             /\ s.cmds # <<>> => /\ r[FlagsEnd(s) + 1] = "cli_cmds"
                                 /\ \A i \in 1..Len(s.cmds) : r[FlagsEnd(s) + (1 + i)] = s.cmds[i]
             /\ s.tables # <<>> => r[CmdsEnd(s) + 1] = "ovsdb"
<1> DEFINE h == IF s.dummy THEN <<>>
                ELSE <<"sub_feature", "sub_feature_name", s.name,
                       "sub_feature_desc", s.desc>>
           a == Pair("support_showtech_all", s.all)
           f == Pair("support_showtech_feature", s.feature)
           m == IF s.cmds = <<>> THEN <<>> ELSE <<"cli_cmds">> \o s.cmds
           o == IF s.tables = <<>> THEN <<>> ELSE <<"ovsdb">>
<1>1. /\ HeadEnd(s) = (IF s.dummy THEN 0 ELSE 5)
      /\ AllEnd(s) = HeadEnd(s) + (IF s.all = None THEN 0 ELSE 2)
      /\ FlagsEnd(s) = AllEnd(s) + (IF s.feature = None THEN 0 ELSE 2)
      /\ CmdsEnd(s) = FlagsEnd(s) + (IF s.cmds = <<>> THEN 0 ELSE 1 + Len(s.cmds))
      /\ HeadEnd(s) \in Nat /\ AllEnd(s) \in Nat /\ FlagsEnd(s) \in Nat /\ CmdsEnd(s) \in Nat
  BY EndsType
<1>2. /\ h \in Seq(Word) /\ Len(h) = HeadEnd(s)
      /\ ~s.dummy => /\ h[1] = "sub_feature" /\ h[2] = "sub_feature_name"
                     /\ h[3] = s.name /\ h[4] = "sub_feature_desc"
                     /\ h[5] = s.desc
  <2>1. CASE s.dummy
    BY <2>1, NoWords DEF HeadEnd
  <2>2. CASE ~s.dummy
    BY <2>2, SubFields, KeyWords, FiveWords DEF HeadEnd
  <2>. QED
    BY <2>1, <2>2
<1>3. /\ a \in Seq(Word) /\ Len(a) = (IF s.all = None THEN 0 ELSE 2)
      /\ s.all # None => a[1] = "support_showtech_all" /\ a[2] = s.all
  <2>1. "support_showtech_all" \in Word /\ s.all \in Text \cup {None}
    BY KeyWords, SubFields
  <2>. QED
    BY <2>1, PairScalars
<1>4. /\ f \in Seq(Word) /\ Len(f) = (IF s.feature = None THEN 0 ELSE 2)
      /\ s.feature # None => f[1] = "support_showtech_feature" /\ f[2] = s.feature
  <2>1. "support_showtech_feature" \in Word /\ s.feature \in Text \cup {None}
    BY KeyWords, SubFields
  <2>. QED
    BY <2>1, PairScalars
<1>5. /\ m \in Seq(Word) /\ Len(m) = (IF s.cmds = <<>> THEN 0 ELSE 1 + Len(s.cmds))
      /\ s.cmds # <<>> => m[1] = "cli_cmds" /\ \A i \in 1..Len(s.cmds) : m[1 + i] = s.cmds[i]
  <2>1. CASE s.cmds = <<>>
    BY <2>1, NoWords
  <2>2. CASE s.cmds # <<>>
    <3>1. /\ <<"cli_cmds">> \in Seq(Word) /\ Len(<<"cli_cmds">>) = 1
          /\ <<"cli_cmds">>[1] = "cli_cmds"
      BY KeyWords, OneWord
    <3>2. m = <<"cli_cmds">> \o s.cmds /\ s.cmds \in Seq(Word)
      BY <2>2, SubFields
    <3> DEFINE q == <<"cli_cmds">>
    <3>. HIDE DEF q, m
    <3>3. m = q \o s.cmds /\ q \in Seq(Word) /\ Len(q) = 1 /\ q[1] = "cli_cmds"
      BY <3>1, <3>2 DEF q
    <3>4. /\ m \in Seq(Word) /\ Len(m) = 1 + Len(s.cmds)
          /\ \A i \in 1..1 : m[i] = q[i]
          /\ \A i \in 1..Len(s.cmds) : m[1 + i] = s.cmds[i]
      BY <3>2, <3>3, Join
    <3>. QED
      BY <2>2, <3>3, <3>4
  <2>. QED
    BY <2>1, <2>2
<1>6. /\ o \in Seq(Word) /\ Len(o) = (IF s.tables = <<>> THEN 0 ELSE 1)
      /\ s.tables # <<>> => o[1] = "ovsdb"
  <2>1. CASE s.tables = <<>>
    BY <2>1, NoWords
  <2>2. CASE s.tables # <<>>
    BY <2>2, KeyWords, OneWord
  <2>. QED
    BY <2>1, <2>2
<1> DEFINE p1 == h \o a
           p2 == p1 \o f
           p3 == p2 \o m
           r  == p3 \o o
<1>7. SubScalars(s) = r
  BY DEF SubScalars
<1>. HIDE DEF h, a, f, m, o
<1>8. /\ Len(h) \in Nat /\ Len(a) \in Nat /\ Len(f) \in Nat /\ Len(m) \in Nat /\ Len(o) \in Nat
  BY <1>2, <1>3, <1>4, <1>5, <1>6
<1>9. p1 \in Seq(Word) /\ Len(p1) = AllEnd(s)
  <2>1. p1 \in Seq(Word) /\ Len(p1) = Len(h) + Len(a)
    BY <1>2, <1>3, Join
  <2>. QED
    BY <2>1, <1>1, <1>2, <1>3
<1>10. Inside(h, 0, p1) /\ Inside(a, HeadEnd(s), p1)
  <2>1. \A i \in 1..Len(h) : p1[i] = h[i]
    BY <1>2, <1>3, Join
  <2>2. Len(h) <= Len(p1)
    BY <1>9, <1>1, <1>2
  <2>3. \A i \in 1..Len(h) : 0 + i = i
    BY <1>8
  <2>4. Inside(h, 0, p1)
    BY <2>1, <2>2, <2>3, <1>8 DEF Inside
  <2>. QED
    BY <2>4, <1>2, <1>3, InsideJoin
<1>. HIDE DEF p1
<1>11. p2 \in Seq(Word) /\ Len(p2) = FlagsEnd(s)
  <2>1. p2 \in Seq(Word) /\ Len(p2) = Len(p1) + Len(f)
    BY <1>9, <1>4, Join
  <2>. QED
    BY <2>1, <1>1, <1>9, <1>4
<1>12. Inside(h, 0, p2) /\ Inside(a, HeadEnd(s), p2) /\ Inside(f, AllEnd(s), p2)
  <2>1. Inside(f, AllEnd(s), p2)
    BY <1>4, <1>9, InsideJoin
  <2>. QED
    BY <2>1, <1>1, <1>2, <1>3, <1>4, <1>9, <1>10, InsideWider
<1>. HIDE DEF p2
<1>13. p3 \in Seq(Word) /\ Len(p3) = CmdsEnd(s)
  <2>1. p3 \in Seq(Word) /\ Len(p3) = Len(p2) + Len(m)
    BY <1>11, <1>5, Join
  <2>. QED
    BY <2>1, <1>1, <1>11, <1>5
<1>14. /\ Inside(h, 0, p3) /\ Inside(a, HeadEnd(s), p3) /\ Inside(f, AllEnd(s), p3)
       /\ Inside(m, FlagsEnd(s), p3)
  <2>1. Inside(m, FlagsEnd(s), p3)
    BY <1>5, <1>11, InsideJoin
  <2>2. Inside(h, 0, p3)
    BY <1>2, <1>5, <1>11, <1>12, InsideWider
  <2>3. Inside(a, HeadEnd(s), p3)
    BY <1>1, <1>3, <1>5, <1>11, <1>12, InsideWider
  <2>4. Inside(f, AllEnd(s), p3)
    BY <1>1, <1>4, <1>5, <1>11, <1>12, InsideWider
  <2>. QED
    BY <2>1, <2>2, <2>3, <2>4
<1>. HIDE DEF p3
<1>15. r \in Seq(Word) /\ Len(r) = CmdsEnd(s) + (IF s.tables = <<>> THEN 0 ELSE 1)
  <2>1. r \in Seq(Word) /\ Len(r) = Len(p3) + Len(o)
    BY <1>13, <1>6, Join
  <2>. QED
    BY <2>1, <1>1, <1>13, <1>6
<1>16. /\ Inside(h, 0, r) /\ Inside(a, HeadEnd(s), r) /\ Inside(f, AllEnd(s), r)
       /\ Inside(m, FlagsEnd(s), r) /\ Inside(o, CmdsEnd(s), r)
  <2>1. Inside(o, CmdsEnd(s), r)
    BY <1>6, <1>13, InsideJoin
  <2>2. Inside(h, 0, r)
    BY <1>2, <1>6, <1>13, <1>14, InsideWider
  <2>3. Inside(a, HeadEnd(s), r)
    BY <1>1, <1>3, <1>6, <1>13, <1>14, InsideWider
  <2>4. Inside(f, AllEnd(s), r)
    BY <1>1, <1>4, <1>6, <1>13, <1>14, InsideWider
  <2>5. Inside(m, FlagsEnd(s), r)
    BY <1>1, <1>5, <1>6, <1>13, <1>14, InsideWider
  <2>. QED
    BY <2>1, <2>2, <2>3, <2>4, <2>5
<1>. HIDE DEF r
<1>17. ~s.dummy => /\ r[1] = "sub_feature" /\ r[2] = "sub_feature_name"
                   /\ r[3] = s.name /\ r[4] = "sub_feature_desc"
                   /\ r[5] = s.desc
  <2>. SUFFICES ASSUME ~s.dummy PROVE \A i \in 1..5 : r[i] = h[i]
    BY <1>2
  <2>1. \A i \in 1..Len(h) : r[0 + i] = h[i]
    BY <1>16 DEF Inside
  <2>2. Len(h) = 5 /\ \A i \in 1..5 : 0 + i = i
    BY <1>1, <1>2
  <2>. QED
    BY <2>1, <2>2
<1>18. s.all # None => /\ r[HeadEnd(s) + 1] = "support_showtech_all"
                       /\ r[HeadEnd(s) + 2] = s.all
  <2>1. \A i \in 1..Len(a) : r[HeadEnd(s) + i] = a[i]
    BY <1>16 DEF Inside
  <2>. QED
    BY <2>1, <1>3
<1>19. s.feature # None => /\ r[AllEnd(s) + 1] = "support_showtech_feature"
                           /\ r[AllEnd(s) + 2] = s.feature
  <2>1. \A i \in 1..Len(f) : r[AllEnd(s) + i] = f[i]
    BY <1>16 DEF Inside
  <2>. QED
    BY <2>1, <1>4
<1>20. s.cmds # <<>> => /\ r[FlagsEnd(s) + 1] = "cli_cmds"
                        /\ \A i \in 1..Len(s.cmds) : r[FlagsEnd(s) + (1 + i)] = s.cmds[i]
  <2>. SUFFICES ASSUME s.cmds # <<>>
                PROVE  /\ r[FlagsEnd(s) + 1] = m[1]
                       /\ \A i \in 1..Len(s.cmds) : r[FlagsEnd(s) + (1 + i)] = m[1 + i]
    BY <1>5
  <2>1. \A i \in 1..Len(m) : r[FlagsEnd(s) + i] = m[i]
    BY <1>16 DEF Inside
  <2>2. 1 \in 1..Len(m) /\ \A i \in 1..Len(s.cmds) : 1 + i \in 1..Len(m)
    BY <1>5, SubFields
  <2>. QED
    BY <2>1, <2>2
<1>21. s.tables # <<>> => r[CmdsEnd(s) + 1] = "ovsdb"
  <2>1. \A i \in 1..Len(o) : r[CmdsEnd(s) + i] = o[i]
    BY <1>16 DEF Inside
  <2>. QED
    BY <2>1, <1>6
<1>. QED
  BY <1>7, <1>15, <1>17, <1>18, <1>19, <1>20, <1>21

\* The row of a table.
LEMMA TableRow ==
  ASSUME NEW t \in FileTable
  PROVE  LET r == TableScalars(t)
         IN  /\ r \in Seq(Word) /\ Len(r) = 4 + Len(t.cols) /\ Len(t.cols) \in Nat
             /\ r[1] = "table" /\ r[2] = "table_name" /\ r[3] = t.name
             /\ r[4] = "col_names"
             /\ \A i \in 1..Len(t.cols) : r[4 + i] = t.cols[i]
             /\ t.name \in Text /\ t.cols \in Seq(Text)
<1> DEFINE h == <<"table", "table_name", t.name, "col_names">>
<1>1. /\ t.name \in Text /\ t.cols \in Seq(Text) /\ t.cols \in Seq(Word)
      /\ t.name \in Word
  <2>1. Text \subseteq Word
    BY DEF Text, Word
  <2>2. t.name \in Text /\ t.cols \in Seq(Text)
    BY DEF FileTable
  <2>. QED
    BY <2>1, <2>2
<1>2. /\ h \in Seq(Word) /\ Len(h) = 4 /\ h[1] = "table" /\ h[2] = "table_name"
      /\ h[3] = t.name /\ h[4] = "col_names"
  BY <1>1, KeyWords, FourWords
<1>3. TableScalars(t) = h \o t.cols
  BY DEF TableScalars
<1>. HIDE DEF h
<1> DEFINE r == h \o t.cols
<1>4. /\ r \in Seq(Word) /\ Len(r) = 4 + Len(t.cols) /\ Len(t.cols) \in Nat
      /\ \A i \in 1..4 : r[i] = h[i]
      /\ \A i \in 1..Len(t.cols) : r[4 + i] = t.cols[i]
  <2>1. /\ r \in Seq(Word) /\ Len(r) = Len(h) + Len(t.cols) /\ Len(t.cols) \in Nat
        /\ \A i \in 1..Len(h) : r[i] = h[i]
        /\ \A i \in 1..Len(t.cols) : r[Len(h) + i] = t.cols[i]
    BY <1>1, <1>2, Join
  <2>. QED
    BY <2>1, <1>2
<1>. HIDE DEF r
<1>5. r[1] = h[1] /\ r[2] = h[2] /\ r[3] = h[3] /\ r[4] = h[4]
  BY <1>4
<1>6. TableScalars(t) = r
  BY <1>3 DEF r
<1>. QED
  BY <1>1, <1>2, <1>4, <1>5, <1>6

\* The row of a feature.
LEMMA FeatureRow ==
  ASSUME NEW f \in FileFeature
  PROVE  LET r == FeatureScalars(f)
         IN  /\ r \in Seq(Word) /\ Len(r) = 5
             /\ r[1] = "feature" /\ r[2] = "feature_desc" /\ r[3] = f.desc
             /\ r[4] = "feature_name" /\ r[5] = f.name
             /\ f.desc \in Text /\ f.name \in Text /\ f.subs \in Seq(FileSub)
<1>1. /\ f.desc \in Text /\ f.name \in Text /\ f.subs \in Seq(FileSub)
      /\ f.desc \in Word /\ f.name \in Word
  BY DEF FileFeature, Text, Word
<1>. QED
  BY <1>1, KeyWords, FiveWords DEF FeatureScalars

-----------------------------------------------------------------------------
(* The places of a file.                                                   *)

\* What a file is: FilesAssumption, feature by feature.
LEMMA DocType ==
  ASSUME NEW d \in Files
  PROVE  /\ d.stray \in Seq(STRING) /\ d.doc \in Seq(FileFeature)
         /\ Len(d.stray) \in Nat /\ Len(d.doc) \in Nat
         /\ \A i \in 1..Len(d.stray) : d.stray[i] # "feature"
         /\ \A i \in 1..Len(d.doc) : d.doc[i] \in FileFeature
<1>1. d.stray \in Seq(STRING \ {"feature"}) /\ d.doc \in Seq(FileFeature)
  BY FilesAssumption DEF FilesAssumption
<1>. QED
  BY <1>1

\* The sub features of a feature: only the first can be the dummy one.
LEMMA SubsType ==
  ASSUME NEW d \in Files, NEW i \in 1..Len(d.doc)
  PROVE  /\ d.doc[i].subs \in Seq(FileSub) /\ Len(d.doc[i].subs) \in Nat
         /\ d.doc[i].name \in Text /\ d.doc[i].desc \in Text
         /\ \A j \in 1..Len(d.doc[i].subs) :
              /\ Proper(d.doc[i].subs[j])
              /\ d.doc[i].subs[j].dummy => j = 1 /\ SubScalars(d.doc[i].subs[j]) # <<>>
<1>1. d.doc[i] \in FileFeature /\ i \in DOMAIN d.doc
  BY DocType
<1>2. /\ d.doc[i].subs \in Seq(FileSub) /\ Len(d.doc[i].subs) \in Nat
      /\ d.doc[i].name \in Text /\ d.doc[i].desc \in Text
  BY <1>1 DEF FileFeature
<1>3. ASSUME NEW j \in 1..Len(d.doc[i].subs)
      PROVE  /\ Proper(d.doc[i].subs[j])
             /\ d.doc[i].subs[j].dummy => j = 1 /\ SubScalars(d.doc[i].subs[j]) # <<>>
  <2> DEFINE s == d.doc[i].subs[j]
  <2>1. s \in FileSub /\ j \in DOMAIN d.doc[i].subs
    BY <1>2
  <2>2. IF s.dummy
          THEN j = 1 /\ s.name = None /\ s.desc = None /\ SubScalars(s) # <<>>
          ELSE s.name # None /\ s.desc # None
    BY <1>1, <2>1, FilesAssumption DEF FilesAssumption
  <2>. HIDE DEF s
  <2>3. Proper(s) /\ (s.dummy => j = 1 /\ SubScalars(s) # <<>>)
    BY <2>1, <2>2 DEF Proper
  <2>. QED
    BY <2>3 DEF s
<1>. QED
  BY <1>2, <1>3

\* What precedes the tables of a sub feature is not empty.
LEMMA SubRowLength ==
  ASSUME NEW d \in Files, NEW i \in 1..Len(d.doc), NEW j \in 1..Len(d.doc[i].subs)
  PROVE  /\ SubScalars(d.doc[i].subs[j]) \in Seq(Word)
         /\ Len(SubScalars(d.doc[i].subs[j])) \in Nat \ {0}
<1> DEFINE s == d.doc[i].subs[j]
<1>1. Proper(s) /\ (s.dummy => SubScalars(s) # <<>>)
  BY SubsType
<1>. HIDE DEF s
<1>2. /\ SubScalars(s) \in Seq(Word)
      /\ Len(SubScalars(s)) = CmdsEnd(s) + (IF s.tables = <<>> THEN 0 ELSE 1)
  BY <1>1, SubRow
<1>3. ~s.dummy => CmdsEnd(s) >= 5
  BY <1>1, EndsType, SubFields
<1>4. CmdsEnd(s) \in Nat
  BY <1>1, EndsType
<1>5. s.dummy => Len(SubScalars(s)) # 0
  BY <1>1, <1>2, EmptySeq
<1>. QED
  BY <1>2, <1>3, <1>4, <1>5 DEF s

\* The row of a place that is not the end, and the sub feature and the table that
\* the place is in.
LEMMA RowType ==
  ASSUME file \in Files, PositionOK, ~AtEnd
  PROVE  /\ pos.feature \in Nat /\ pos.sub \in Nat /\ pos.table \in Nat
         /\ pos.scalar \in Nat /\ pos.scalar # 0
         /\ pos.scalar <= Len(Row) /\ Row \in Seq(Word) /\ Len(Row) \in Nat
         /\ Len(Subs) \in Nat /\ Len(Tables) \in Nat
         /\ pos.sub <= Len(Subs) /\ pos.table <= Len(Tables)
         /\ pos.feature <= Len(file.doc) /\ Len(file.doc) \in Nat
         /\ pos.feature = 0 => pos.sub = 0 /\ pos.table = 0
         /\ pos.sub = 0 => pos.table = 0
         /\ pos.sub > 0 => Proper(Subs[pos.sub])
         /\ pos.table > 0 => Tables[pos.table] \in FileTable
<1>1. /\ pos.feature \in Nat /\ pos.sub \in Nat /\ pos.table \in Nat
      /\ pos.scalar \in Nat /\ pos.scalar # 0
      /\ pos.scalar <= Len(Row) /\ pos.sub <= Len(Subs) /\ pos.table <= Len(Tables)
  BY DEF PositionOK, Places
<1>2. Len(file.doc) \in Nat /\ pos.feature <= Len(file.doc)
  BY <1>1, DocType DEF AtEnd
<1>3. Len(<<>>) = 0
  OBVIOUS
<1>4. pos.feature = 0 => Subs = <<>> /\ pos.sub = 0
  BY <1>1, <1>3 DEF Subs
<1>5. pos.sub = 0 => Tables = <<>> /\ pos.table = 0
  BY <1>1, <1>3 DEF Tables
<1>6. Len(Subs) \in Nat
  <2>1. CASE pos.feature = 0
    BY <1>3, <1>4, <2>1
  <2>2. CASE pos.feature # 0
    <3>1. pos.feature \in 1..Len(file.doc) /\ Subs = file.doc[pos.feature].subs
      BY <1>1, <1>2, <2>2 DEF Subs
    <3>. QED
      BY <3>1, SubsType
  <2>. QED
    BY <2>1, <2>2
<1>7. pos.sub > 0 => /\ pos.feature \in 1..Len(file.doc) /\ pos.sub \in 1..Len(Subs)
                     /\ Subs = file.doc[pos.feature].subs
  BY <1>1, <1>2, <1>4 DEF Subs
<1>8. pos.sub > 0 => Proper(Subs[pos.sub])
  BY <1>7, SubsType
<1>9. /\ Len(Tables) \in Nat
      /\ pos.table > 0 => Tables[pos.table] \in FileTable
  <2>1. CASE pos.sub = 0
    BY <1>3, <1>5, <2>1
  <2>2. CASE pos.sub # 0
    <3>1. Tables = Subs[pos.sub].tables /\ Proper(Subs[pos.sub])
      BY <1>1, <1>8, <2>2 DEF Tables
    <3>2. Tables \in Seq(FileTable)
      BY <3>1, SubFields
    <3>3. Len(Tables) \in Nat /\ \A t \in 1..Len(Tables) : Tables[t] \in FileTable
      BY <3>2
    <3>. QED
      BY <1>1, <3>3
  <2>. QED
    BY <2>1, <2>2
<1>10. Row \in Seq(Word)
  <2>1. CASE pos.feature = 0
    <3>1. Row = file.stray
      BY <2>1 DEF Row
    <3>2. Row \in Seq(STRING)
      BY <3>1, DocType
    <3>. QED
      BY <3>2 DEF Word
  <2>2. CASE pos.feature # 0 /\ pos.sub = 0
    <3>1. Row = FeatureScalars(file.doc[pos.feature]) /\ pos.feature \in 1..Len(file.doc)
      BY <1>1, <1>2, <2>2 DEF Row
    <3>. QED
      BY <3>1, DocType, FeatureRow
  <2>3. CASE pos.sub # 0 /\ pos.table = 0
    <3>1. Row = SubScalars(Subs[pos.sub]) /\ Proper(Subs[pos.sub])
      BY <1>1, <1>4, <1>8, <2>3 DEF Row
    <3>. QED
      BY <3>1, SubRow
  <2>4. CASE pos.table # 0
    <3>1. Row = TableScalars(Tables[pos.table]) /\ Tables[pos.table] \in FileTable
      BY <1>1, <1>4, <1>5, <1>9, <2>4 DEF Row
    <3>. QED
      BY <3>1, TableRow
  <2>. QED
    BY <1>1, <1>5, <2>1, <2>2, <2>3, <2>4
<1>11. Len(Row) \in Nat
  BY <1>10
<1>. QED
  BY <1>1, <1>2, <1>4, <1>5, <1>6, <1>8, <1>9, <1>10, <1>11

\* The first scalar of a row is a place, and so is the end.
IsFirst(d, f, j, t) ==
  \/ f = 0 /\ j = 0 /\ t = 0 /\ d.stray # <<>>
  \/ f \in 1..Len(d.doc) /\ j = 0 /\ t = 0
  \/ f \in 1..Len(d.doc) /\ j \in 1..Len(d.doc[f].subs) /\ t = 0
  \/ /\ f \in 1..Len(d.doc) /\ j \in 1..Len(d.doc[f].subs)
     /\ t \in 1..Len(d.doc[f].subs[j].tables)
  \/ f = Len(d.doc) + 1 /\ j = 0 /\ t = 0

\* The first scalar of each of them is a place ...
LEMMA FirstIsPlace ==
  \A f, j, t \in Nat :
    file \in Files /\ pos = Place(f, j, t, 1) /\ IsFirst(file, f, j, t) => PositionOK
<1>. SUFFICES ASSUME NEW f \in Nat, NEW j \in Nat, NEW t \in Nat, file \in Files,
                     pos = Place(f, j, t, 1), IsFirst(file, f, j, t)
              PROVE  PositionOK
  OBVIOUS
<1>1. /\ pos \in [feature : Nat, sub : Nat, table : Nat, scalar : Nat \ {0}]
      /\ pos.feature = f /\ pos.sub = j /\ pos.table = t /\ pos.scalar = 1
  BY DEF Place
<1>2. /\ file.stray \in Seq(STRING) /\ Len(file.stray) \in Nat /\ Len(file.doc) \in Nat
  BY DocType
<1>3. Len(<<>>) = 0
  OBVIOUS
<1>4. CASE f = Len(file.doc) + 1 /\ j = 0 /\ t = 0
  <2>1. AtEnd
    BY <1>1, <1>2, <1>4 DEF AtEnd
  <2>2. pos = Place(Len(file.doc) + 1, 0, 0, 1)
    BY <1>4
  <2>. QED
    BY <1>1, <2>1, <2>2 DEF PositionOK, Places
<1>5. ASSUME f # Len(file.doc) + 1, j = 0, t = 0
      PROVE  PositionOK
  <2>1. ~AtEnd
    BY <1>1, <1>2, <1>5 DEF AtEnd, IsFirst
  <2>2. Tables = <<>> /\ Len(Subs) \in Nat
    <3>1. f # 0 => Subs = file.doc[f].subs /\ Len(file.doc[f].subs) \in Nat
      BY <1>1, <1>5, SubsType DEF Subs
    <3>2. f = 0 => Subs = <<>>
      BY <1>1 DEF Subs
    <3>. QED
      BY <1>1, <1>3, <1>5, <3>1, <3>2 DEF Tables
  <2>3. 1 <= Len(Row)
    <3>1. CASE f = 0
      <4>1. Row = file.stray /\ file.stray # <<>>
        BY <1>1, <1>2, <1>5, <3>1 DEF Row, IsFirst
      <4>. QED
        BY <1>2, <4>1, EmptySeq
    <3>2. CASE f # 0
      <4>1. Row = FeatureScalars(file.doc[f]) /\ file.doc[f] \in FileFeature
        <5>1. f \in 1..Len(file.doc) /\ Row = FeatureScalars(file.doc[f])
          BY <1>1, <1>5, <3>2 DEF Row, IsFirst
        <5>. QED
          BY <5>1, DocType
      <4>. QED
        BY <4>1, FeatureRow
    <3>. QED
      BY <3>1, <3>2
  <2>. QED
    BY <1>1, <1>3, <1>5, <2>1, <2>2, <2>3 DEF PositionOK, Places
<1>6. ASSUME f \in 1..Len(file.doc), j \in 1..Len(file.doc[f].subs), t = 0
      PROVE  PositionOK
  <2>1. ~AtEnd
    BY <1>1, <1>2, <1>6 DEF AtEnd
  <2>2. Subs = file.doc[f].subs /\ Tables = file.doc[f].subs[j].tables
    BY <1>1, <1>6 DEF Subs, Tables
  <2>3. Row = SubScalars(file.doc[f].subs[j])
    BY <1>1, <1>6, <2>2 DEF Row
  <2>4. Len(Row) \in Nat \ {0} /\ Len(Subs) \in Nat /\ Len(Tables) \in Nat
    <3>1. Proper(file.doc[f].subs[j])
      BY <1>6, SubsType
    <3>2. Len(file.doc[f].subs[j].tables) \in Nat
      BY <3>1, SubFields
    <3>3. Len(Row) \in Nat \ {0}
      BY <1>6, <2>3, SubRowLength, SubsType
    <3>4. Len(Subs) \in Nat
      BY <1>6, <2>2, SubsType
    <3>. QED
      BY <2>2, <3>2, <3>3, <3>4
  <2>. QED
    BY <1>1, <1>6, <2>1, <2>2, <2>4 DEF PositionOK, Places
<1>7. ASSUME f \in 1..Len(file.doc), j \in 1..Len(file.doc[f].subs),
             t \in 1..Len(file.doc[f].subs[j].tables)
      PROVE  PositionOK
  <2>1. ~AtEnd
    BY <1>1, <1>2, <1>7 DEF AtEnd
  <2>2. Subs = file.doc[f].subs /\ Tables = file.doc[f].subs[j].tables
    BY <1>1, <1>7 DEF Subs, Tables
  <2>3. Row = TableScalars(file.doc[f].subs[j].tables[t])
    BY <1>1, <1>7, <2>2 DEF Row
  <2>4. Len(Row) \in Nat \ {0} /\ Len(Subs) \in Nat /\ Len(Tables) \in Nat
    <3>1. Proper(file.doc[f].subs[j])
      BY <1>7, SubsType
    <3>2. file.doc[f].subs[j].tables \in Seq(FileTable)
      BY <3>1, SubFields
    <3>3. file.doc[f].subs[j].tables[t] \in FileTable
      BY <1>7, <3>2
    <3>4. Len(Row) \in Nat \ {0}
      BY <2>3, <3>3, TableRow
    <3>5. Len(Subs) \in Nat
      BY <1>7, <2>2, SubsType
    <3>6. Len(Tables) \in Nat
      BY <2>2, <3>1, SubFields
    <3>. QED
      BY <3>4, <3>5, <3>6
  <2>. QED
    BY <1>1, <1>7, <2>1, <2>2, <2>4 DEF PositionOK, Places
<1>. QED
  <2>1. f = 0 => f # Len(file.doc) + 1
    BY <1>2
  <2>2. f \in 1..Len(file.doc) => f # Len(file.doc) + 1
    BY <1>2
  <2>. QED
    BY <1>4, <1>5, <1>6, <1>7, <2>1, <2>2 DEF IsFirst

\* ... after a step as well ...
LEMMA NextFirstIsPlace ==
  (\A f, j, t \in Nat :
     file \in Files /\ pos = Place(f, j, t, 1) /\ IsFirst(file, f, j, t) => PositionOK)'
  BY FirstIsPlace, PTL

\* The place after a scalar is one.
LEMMA FollowingIsPlace ==
  ASSUME file \in Files, PositionOK, ~AtEnd, pos' = Following, file' = file
  PROVE  PositionOK'
<1>1. /\ pos.feature \in Nat /\ pos.sub \in Nat /\ pos.table \in Nat
      /\ pos.scalar \in Nat /\ pos.scalar # 0
      /\ Len(Row) \in Nat /\ Len(Subs) \in Nat /\ Len(Tables) \in Nat
      /\ pos.sub <= Len(Subs) /\ pos.table <= Len(Tables)
      /\ pos.feature <= Len(file.doc) /\ Len(file.doc) \in Nat
      /\ pos.feature = 0 => pos.sub = 0 /\ pos.table = 0
      /\ pos.sub = 0 => pos.table = 0
  BY RowType
<1>2. CASE pos.scalar < Len(Row)
  <2>1. pos' = Place(pos.feature, pos.sub, pos.table, pos.scalar + 1)
    BY <1>2 DEF Following
  <2>2. /\ pos' \in [feature : Nat, sub : Nat, table : Nat, scalar : Nat \ {0}]
        /\ pos'.feature = pos.feature /\ pos'.sub = pos.sub /\ pos'.table = pos.table
        /\ pos'.scalar = pos.scalar + 1
    BY <1>1, <2>1 DEF Place
  <2>3. AtEnd' = AtEnd /\ Subs' = Subs
    BY <2>2 DEF AtEnd, Subs
  <2>4. Tables' = Tables
    BY <2>2, <2>3 DEF Tables
  <2>5. Row' = Row
    BY <2>2, <2>3, <2>4 DEF Row
  <2>. QED
    BY <1>1, <1>2, <2>2, <2>3, <2>4, <2>5 DEF PositionOK, Places
<1>3. CASE ~(pos.scalar < Len(Row)) /\ pos.table < Len(Tables)
  <2>1. pos' = Place(pos.feature, pos.sub, pos.table + 1, 1)
    BY <1>3 DEF Following
  <2>2. pos.sub # 0
    <3>1. pos.sub = 0 => Tables = <<>>
      BY DEF Tables
    <3>2. Len(<<>>) = 0
      OBVIOUS
    <3>. QED
      BY <1>1, <1>3, <3>1, <3>2
  <2>3. /\ pos.feature \in 1..Len(file.doc) /\ Subs = file.doc[pos.feature].subs
        /\ Tables = Subs[pos.sub].tables
    BY <1>1, <2>2 DEF Subs, Tables
  <2>4. /\ pos.sub \in 1..Len(file.doc[pos.feature].subs)
        /\ pos.table + 1 \in 1..Len(file.doc[pos.feature].subs[pos.sub].tables)
    <3>1. pos.sub \in 1..Len(Subs) /\ pos.table + 1 \in 1..Len(Tables)
      BY <1>1, <1>3, <2>2
    <3>. QED
      BY <2>3, <3>1
  <2>5. /\ pos.feature \in 1..Len(file'.doc)
        /\ pos.sub \in 1..Len(file'.doc[pos.feature].subs)
        /\ pos.table + 1 \in 1..Len(file'.doc[pos.feature].subs[pos.sub].tables)
        /\ pos.table + 1 \in Nat /\ file' \in Files
    BY <1>1, <2>3, <2>4
  <2>. QED
    BY <1>1, <2>1, <2>5, NextFirstIsPlace DEF IsFirst
<1>4. CASE ~(pos.scalar < Len(Row)) /\ ~(pos.table < Len(Tables)) /\ pos.sub < Len(Subs)
  <2>1. pos' = Place(pos.feature, pos.sub + 1, 0, 1)
    BY <1>4 DEF Following
  <2>2. pos.feature # 0
    <3>1. pos.feature = 0 => Subs = <<>>
      BY DEF Subs
    <3>2. Len(<<>>) = 0
      OBVIOUS
    <3>. QED
      BY <1>1, <1>4, <3>1, <3>2
  <2>3. pos.feature \in 1..Len(file.doc) /\ Subs = file.doc[pos.feature].subs
    BY <1>1, <2>2 DEF Subs
  <2>4. pos.sub + 1 \in 1..Len(file.doc[pos.feature].subs)
    BY <1>1, <1>4, <2>3
  <2>5. /\ pos.feature \in 1..Len(file'.doc)
        /\ pos.sub + 1 \in 1..Len(file'.doc[pos.feature].subs)
        /\ pos.sub + 1 \in Nat /\ 0 \in Nat /\ file' \in Files
    BY <1>1, <2>3, <2>4
  <2>. QED
    BY <1>1, <2>1, <2>5, NextFirstIsPlace DEF IsFirst
<1>5. CASE ~(pos.scalar < Len(Row)) /\ ~(pos.table < Len(Tables)) /\ ~(pos.sub < Len(Subs))
  <2>1. pos' = Place(pos.feature + 1, 0, 0, 1)
    BY <1>5 DEF Following
  <2>2. /\ pos.feature + 1 \in 1..Len(file'.doc) \/ pos.feature + 1 = Len(file'.doc) + 1
        /\ pos.feature + 1 \in Nat /\ 0 \in Nat /\ file' \in Files
    BY <1>1
  <2>. QED
    BY <1>1, <2>1, <2>2, NextFirstIsPlace DEF IsFirst
<1>. QED
  BY <1>2, <1>3, <1>4, <1>5

\* So is where the parser starts.
LEMMA StartIsPlace == file \in Files /\ pos = Start => PositionOK
<1>. SUFFICES ASSUME file \in Files, pos = Start PROVE PositionOK
  OBVIOUS
<1>1. Len(file.doc) \in Nat /\ 0 \in Nat /\ 1 \in Nat
  BY DocType
<1>2. CASE file.stray = <<>>
  <2>1. pos = Place(1, 0, 0, 1) /\ (1 \in 1..Len(file.doc) \/ 1 = Len(file.doc) + 1)
    BY <1>1, <1>2 DEF Start
  <2>. QED
    BY <1>1, <2>1, FirstIsPlace DEF IsFirst
<1>3. CASE file.stray # <<>>
  <2>1. pos = Place(0, 0, 0, 1)
    BY <1>3 DEF Start
  <2>. QED
    BY <1>1, <1>3, <2>1, FirstIsPlace DEF IsFirst
<1>. QED
  BY <1>2, <1>3

\* ... and so is the start of the next file.
LEMMA NextStartIsPlace == (file \in Files /\ pos = Start => PositionOK)'
  BY StartIsPlace, PTL

-----------------------------------------------------------------------------
(* What the parser builds is a list of features: each operation on it      *)
(* keeps it one.                                                           *)

Features   == Seq(Feature)
OneSub     == SubFeature

\* Appending a sub feature to a feature.
LEMMA WithSubType ==
  ASSUME NEW f \in Feature, NEW s \in OneSub
  PROVE  /\ WithSub(f, s) \in Feature
         /\ WithSub(f, s).subs # <<>>
         /\ Last(WithSub(f, s).subs) = s
<1>1. /\ f.subs \in Seq(OneSub) /\ f.name \in STRING \cup {None}
      /\ f.desc \in STRING \cup {None}
  BY DEF Feature, OneSub
<1>2. /\ Append(f.subs, s) \in Seq(OneSub) /\ Append(f.subs, s) # <<>>
      /\ Last(Append(f.subs, s)) = s
  BY <1>1 DEF Last
<1>3. WithSub(f, s) = [name |-> f.name, desc |-> f.desc,
                       subs |-> Append(f.subs, s)]
  BY DEF WithSub, Feature
<1>. QED
  BY <1>1, <1>2, <1>3 DEF Feature, OneSub

\* Replacing the last sub feature of a feature.
LEMMA LastSubType ==
  ASSUME NEW f \in Feature, f.subs # <<>>, NEW s \in OneSub
  PROVE  LET g == [f EXCEPT !.subs[Len(f.subs)] = s]
         IN  /\ g \in Feature
             /\ g.subs # <<>>
             /\ Last(g.subs) = s
<1>1. /\ f.subs \in Seq(OneSub) /\ f.name \in STRING \cup {None}
      /\ f.desc \in STRING \cup {None}
  BY DEF Feature, OneSub
<1> DEFINE t == [f.subs EXCEPT ![Len(f.subs)] = s]
<1>2. /\ t \in Seq(OneSub) /\ t # <<>> /\ Len(t) = Len(f.subs)
      /\ Last(t) = s
  BY <1>1 DEF Last
<1>3. [f EXCEPT !.subs[Len(f.subs)] = s]
        = [name |-> f.name, desc |-> f.desc, subs |-> t]
  BY DEF Feature
<1>. QED
  BY <1>1, <1>2, <1>3 DEF Feature, OneSub

\* An element more.
LEMMA AppendType ==
  ASSUME NEW S, NEW q \in Seq(S), NEW e \in S
  PROVE  Append(q, e) \in Seq(S) /\ Append(q, e) # <<>>
  BY AppendProperties, EmptySeq

\* Changing one attribute of a sub feature: its name and its description ...
LEMMA NameEdit ==
  ASSUME NEW c \in OneSub, NEW n \in STRING
  PROVE  /\ LET s == [c EXCEPT !.name = n]
            IN  s \in OneSub /\ s.tables = c.tables
         /\ LET s == [c EXCEPT !.desc = n]
            IN  s \in OneSub /\ s.tables = c.tables
  BY DEF OneSub, SubFeature

\* ... one of its flags ...
LEMMA FlagEdit ==
  ASSUME NEW c \in OneSub, NEW b \in BOOLEAN
  PROVE  /\ LET s == [c EXCEPT !.all = b]
            IN  s \in OneSub /\ s.tables = c.tables
         /\ LET s == [c EXCEPT !.feature = b]
            IN  s \in OneSub /\ s.tables = c.tables
  BY DEF OneSub, SubFeature

\* ... its commands ...
LEMMA CommandsEdit ==
  ASSUME NEW c \in OneSub, NEW m \in Seq(STRING)
  PROVE  LET s == [c EXCEPT !.cmds = m]
         IN  s \in OneSub /\ s.tables = c.tables
  BY DEF OneSub, SubFeature

\* ... or its tables.
LEMMA TablesEdit ==
  ASSUME NEW c \in OneSub, NEW t \in Seq(Table)
  PROVE  LET s == [c EXCEPT !.tables = t]
         IN  s \in OneSub /\ s.tables = t
  BY DEF OneSub, SubFeature

\* The sub feature in hand, or a new dummy; its last table is there when
\* curr_table is.
LEMMA CurrentType ==
  ASSUME IInv, parsing
  PROVE  /\ Current \in OneSub
         /\ table => sub # None /\ features # <<>> /\ Current.tables # <<>>
<1>1. NewSub(TRUE) \in OneSub
  BY DEF NewSub, OneSub, SubFeature
<1>2. CASE sub \in {None, 0}
  BY <1>1, <1>2 DEF Current, IInv, ParserOK
<1>3. CASE sub \notin {None, 0}
  <2>1. /\ sub \in Nat \ {0} /\ sub = Len(features)
        /\ features[sub].subs # <<>>
    BY <1>3 DEF IInv, ParserOK
  <2>2. features[sub] \in Feature
    BY <2>1 DEF IInv
  <2>3. features[sub].subs \in Seq(OneSub)
    BY <2>2 DEF Feature, OneSub
  <2>4. Last(features[sub].subs) \in OneSub
    BY <2>1, <2>3 DEF Last
  <2>. QED
    BY <1>3, <2>1, <2>4 DEF Current, IInv, ParserOK
<1>. QED
  BY <1>2, <1>3

\* PutSub keeps the list one of features, and s is its last sub feature,
\* unless there is no feature to put it in.
LEMMA PutSubType ==
  ASSUME IInv, parsing, NEW s \in OneSub, PutSub(s)
  PROVE  /\ features' \in Features
         /\ sub' \in Nat
         /\ sub' = 0 => features' = <<>>
         /\ sub' # 0 => /\ sub' = Len(features')
                        /\ features'[sub'].subs # <<>>
                        /\ Last(features'[sub'].subs) = s
<1>1. features \in Features /\ sub \in {None} \cup Nat
  BY DEF IInv, ParserOK, Features
<1>2. CASE sub' = 0
  <2>1. features' = features /\ features = <<>>
    BY <1>1, <1>2 DEF PutSub, LastFeature, IInv, ParserOK, Features
  <2>. QED
    BY <1>1, <1>2, <2>1
<1>3. CASE sub' # 0 /\ sub = None
  <2>1. sub' = Len(features) /\ Len(features) \in Nat \ {0}
    BY <1>1, <1>3 DEF PutSub, LastFeature, Features
  <2>2. features' = [features EXCEPT ![sub'] = WithSub(features[sub'], s)]
    BY <1>3, <2>1 DEF PutSub, LastFeature
  <2>3. features[sub'] \in Feature
    BY <1>1, <2>1 DEF Features
  <2>4. /\ WithSub(features[sub'], s) \in Feature
        /\ WithSub(features[sub'], s).subs # <<>>
        /\ Last(WithSub(features[sub'], s).subs) = s
    BY <2>3, WithSubType
  <2>. QED
    BY <1>1, <2>1, <2>2, <2>4 DEF Features
<1>4. CASE sub' # 0 /\ sub # None
  <2>1. /\ sub' = sub /\ sub = Len(features) /\ sub \in Nat \ {0}
        /\ features[sub].subs # <<>>
    BY <1>4 DEF PutSub, IInv, ParserOK
  <2> DEFINE g == [features[sub] EXCEPT !.subs[Len(features[sub].subs)] = s]
  <2>2. features' = [features EXCEPT ![sub] = g]
    BY <1>4, <2>1 DEF PutSub
  <2>3. features[sub] \in Feature
    BY <1>1, <2>1 DEF Features
  <2>4. g \in Feature /\ g.subs # <<>> /\ Last(g.subs) = s
    BY <2>1, <2>3, LastSubType
  <2>. HIDE DEF g
  <2>. QED
    BY <1>1, <2>1, <2>2, <2>4 DEF Features
<1>. QED
  BY <1>2, <1>3, <1>4

\* What reading a scalar leaves of the parser, beside features, sub and table.
PlaceOK ==
  file \in Files /\ parsing \in BOOLEAN /\ PositionOK /\ current_state \in Keys

\* A key of the file moves the parser on and leaves the rest to the action.
LEMMA KeyFrame ==
  ASSUME IInv, NEW k \in Keys, Key(k)
  PROVE  PlaceOK' /\ parsing
<1>1. file \in Files /\ parsing \in BOOLEAN /\ PositionOK
  BY DEF IInv, ParserOK
<1>2. PositionOK'
  BY <1>1, FollowingIsPlace DEF Key, More
<1>. QED
  BY <1>1, <1>2 DEF PlaceOK, Key, More

\* A value moves the parser on, and is a string.
LEMMA ValueFrame ==
  ASSUME IInv, NEW k \in Keys, Value(k)
  PROVE  PlaceOK' /\ parsing /\ Scalar \in STRING
<1>1. /\ file \in Files /\ parsing \in BOOLEAN /\ PositionOK /\ ~AtEnd
      /\ current_state \in Keys /\ parsing /\ Scalar \notin Keys
      /\ UNCHANGED <<file, parsing, current_state>>
  BY DEF IInv, ParserOK, Value, More
<1>2. PositionOK'
  BY <1>1, FollowingIsPlace DEF Value
<1>3. Scalar \in Word
  <2>1. Row \in Seq(Word) /\ pos.scalar \in 1..Len(Row)
    BY <1>1, RowType
  <2>. QED
    BY <2>1 DEF Scalar
<1>4. Scalar \in STRING
  BY <1>1, <1>3 DEF Word
<1>. QED
  BY <1>1, <1>2, <1>4 DEF PlaceOK

\* After PutSub the parser is at the sub feature s, and at its last table if
\* curr_table is set.
LEMMA PutSubStep ==
  ASSUME IInv, parsing, PlaceOK', NEW s \in OneSub, PutSub(s),
         table' \in BOOLEAN,
         table' => s.tables # <<>> /\ features # <<>>
  PROVE  IInv'
<1>1. /\ features' \in Features /\ sub' \in Nat
      /\ sub' = 0 => features' = <<>>
      /\ sub' # 0 => /\ sub' = Len(features')
                     /\ features'[sub'].subs # <<>>
                     /\ Last(features'[sub'].subs) = s
  BY PutSubType
<1>2. table' => sub' # 0
  <2>1. features \in Features /\ (sub = 0 => features = <<>>)
    BY DEF IInv, ParserOK, Features
  <2>. QED
    BY <1>1, <2>1 DEF PutSub, LastFeature, Features
<1>. QED
  BY <1>1, <1>2 DEF IInv, ParserOK, PlaceOK, Features

-----------------------------------------------------------------------------
(* One lemma for each action that links something.                         *)

\* "feature": the parser is in no sub feature of it yet.
LEMMA AddFeatureInv == ASSUME IInv, AddFeature PROVE IInv'
<1>1. PlaceOK' /\ parsing
  BY KeyFrame DEF AddFeature, Keys
<1>2. NewFeature \in Feature
  BY DEF NewFeature, Feature, SubFeature
<1>3. features' \in Features
  BY <1>2 DEF AddFeature, IInv, Features
<1>4. sub' = None /\ sub' \notin Nat /\ table' = FALSE
  BY DEF AddFeature
<1>5. sub' # 0
  BY <1>4
<1>. QED
  BY <1>1, <1>3, <1>4, <1>5 DEF IInv, ParserOK, PlaceOK, Features

\* "sub_feature": it is the last of the last feature.
LEMMA AddSubFeatureInv == ASSUME IInv, AddSubFeature PROVE IInv'
<1>1. PlaceOK' /\ parsing
  BY KeyFrame DEF AddSubFeature, Keys
<1>2. NewSub(FALSE) \in OneSub
  BY DEF NewSub, OneSub, SubFeature
<1>3. /\ features \in Features /\ LastFeature \in Nat \ {0}
      /\ LastFeature = Len(features)
      /\ features[LastFeature] \in Feature
  BY DEF AddSubFeature, LastFeature, IInv, Features
<1> DEFINE g == WithSub(features[LastFeature], NewSub(FALSE))
<1>4. g \in Feature /\ g.subs # <<>>
  BY <1>2, <1>3, WithSubType
<1>5. /\ features' = [features EXCEPT ![LastFeature] = g]
      /\ sub' = LastFeature /\ table' = FALSE
  BY DEF AddSubFeature
<1>. HIDE DEF g
<1>6. /\ features' \in Features /\ Len(features') = LastFeature
      /\ features'[LastFeature] = g
  BY <1>3, <1>4, <1>5 DEF Features
<1>. QED
  BY <1>1, <1>3, <1>4, <1>5, <1>6 DEF IInv, ParserOK, PlaceOK, Features

\* "table": of the sub feature in hand, or of a new dummy.
LEMMA AddTableInv == ASSUME IInv, AddTable PROVE IInv'
<1>1. PlaceOK' /\ parsing /\ features # <<>>
  BY KeyFrame DEF AddTable, Keys
<1> DEFINE q == Append(Current.tables, NewTable)
           s == [Current EXCEPT !.tables = q]
<1>2. Current \in OneSub
  BY <1>1, CurrentType
<1>3. s \in OneSub /\ s.tables # <<>>
  <2>1. NewTable \in Table
    BY DEF NewTable, Table
  <2>2. Current.tables \in Seq(Table)
    BY <1>2 DEF OneSub, SubFeature
  <2>3. q \in Seq(Table) /\ q # <<>>
    BY <2>1, <2>2, AppendType
  <2>. HIDE DEF q
  <2>. QED
    BY <1>2, <2>3, TablesEdit
<1>4. PutSub(s) /\ table' = TRUE
  BY DEF AddTable
<1>. HIDE DEF s
<1>. QED
  BY <1>1, <1>3, <1>4, PutSubStep

\* The name or the description of the last feature: its sub features stay.
LEMMA SetFeatureInv == ASSUME IInv, SetFeature PROVE IInv'
<1>1. /\ PlaceOK' /\ parsing /\ Scalar \in STRING
      /\ features # <<>> /\ UNCHANGED <<sub, table>>
  BY ValueFrame DEF SetFeature, Keys
<1>2. /\ features \in Features /\ LastFeature \in Nat \ {0}
      /\ LastFeature = Len(features)
      /\ features[LastFeature] \in Feature
  BY <1>1 DEF LastFeature, IInv, Features
<1>3. PICK g \in Feature :
        /\ g.subs = features[LastFeature].subs
        /\ features' = [features EXCEPT ![LastFeature] = g]
  <2>1. CASE features' = [features EXCEPT ![LastFeature].name = Scalar]
    BY <1>1, <1>2, <2>1 DEF Feature
  <2>2. CASE features' = [features EXCEPT ![LastFeature].desc = Scalar]
    BY <1>1, <1>2, <2>2 DEF Feature
  <2>. QED
    BY <2>1, <2>2 DEF SetFeature
<1>4. /\ features' \in Features /\ Len(features') = Len(features)
      /\ features'[LastFeature].subs = features[LastFeature].subs
      /\ features' # <<>>
  BY <1>2, <1>3 DEF Features
<1>5. sub # 0
  BY <1>1 DEF IInv, ParserOK
<1>. QED
  BY <1>1, <1>2, <1>4, <1>5 DEF IInv, ParserOK, PlaceOK, Features

\* The name or the description of the sub feature in hand.
LEMMA SetSubInv == ASSUME IInv, SetSub PROVE IInv'
<1>1. /\ PlaceOK' /\ parsing /\ Scalar \in STRING /\ table' = table
  BY ValueFrame DEF SetSub, Keys
<1> DEFINE n == [Current EXCEPT !.name = Scalar]
           d == [Current EXCEPT !.desc = Scalar]
<1>2. /\ Current \in OneSub
      /\ table => features # <<>> /\ Current.tables # <<>>
  BY <1>1, CurrentType
<1>3. /\ n \in OneSub /\ n.tables = Current.tables
      /\ d \in OneSub /\ d.tables = Current.tables
  BY <1>1, <1>2, NameEdit
<1>4. (PutSub(n) \/ PutSub(d)) /\ table' \in BOOLEAN
  BY <1>1 DEF SetSub, IInv, ParserOK
<1>. HIDE DEF n, d
<1>5. CASE PutSub(n)
  BY <1>1, <1>2, <1>3, <1>4, <1>5, PutSubStep
<1>6. CASE PutSub(d)
  BY <1>1, <1>2, <1>3, <1>4, <1>6, PutSubStep
<1>. QED
  BY <1>4, <1>5, <1>6

\* KeepTable keeps curr_table only for the sub feature it belongs to.
LEMMA KeepTableType ==
  ASSUME IInv, KeepTable
  PROVE  table' \in BOOLEAN /\ (table' => table)
  BY DEF KeepTable, IInv, ParserOK

\* A flag of the sub feature in hand, or of a new dummy.
LEMMA SetSupportInv == ASSUME IInv, SetSupport PROVE IInv'
<1>1. /\ PlaceOK' /\ parsing /\ KeepTable
  BY ValueFrame DEF SetSupport, Keys
<1> DEFINE a == [Current EXCEPT !.all = Yes]
           b == [Current EXCEPT !.feature = Yes]
<1>2. /\ Current \in OneSub
      /\ table => features # <<>> /\ Current.tables # <<>>
  BY <1>1, CurrentType
<1>3. Yes \in BOOLEAN
  BY DEF Yes
<1>4. /\ a \in OneSub /\ a.tables = Current.tables
      /\ b \in OneSub /\ b.tables = Current.tables
  BY <1>2, <1>3, FlagEdit
<1>5. PutSub(a) \/ PutSub(b)
  BY DEF SetSupport
<1>6. table' \in BOOLEAN /\ (table' => table)
  BY <1>1, KeepTableType
<1>. HIDE DEF a, b
<1>7. CASE PutSub(a)
  BY <1>1, <1>2, <1>4, <1>6, <1>7, PutSubStep
<1>8. CASE PutSub(b)
  BY <1>1, <1>2, <1>4, <1>6, <1>8, PutSubStep
<1>. QED
  BY <1>5, <1>7, <1>8

\* The command has been looked at: this is where the guard is needed.
LEMMA AddCommandInv == ASSUME IInv, AddCommand PROVE IInv'
<1>1. /\ PlaceOK' /\ parsing /\ Scalar \in STRING /\ KeepTable
  BY ValueFrame DEF AddCommand, Keys
<1> DEFINE m == Append(Current.cmds, Scalar)
           s == [Current EXCEPT !.cmds = m]
<1>2. /\ Current \in OneSub
      /\ table => features # <<>> /\ Current.tables # <<>>
  BY <1>1, CurrentType
<1>4. m \in Seq(STRING)
  <2>1. Current.cmds \in Seq(STRING)
    BY <1>2 DEF OneSub, SubFeature
  <2>. QED
    BY <1>1, <2>1, AppendType
<1>5. PutSub(s)
  BY DEF AddCommand
<1>. HIDE DEF m
<1>6. s \in OneSub /\ s.tables = Current.tables
  BY <1>2, <1>4, CommandsEdit
<1>7. table' \in BOOLEAN /\ (table' => table)
  BY <1>1, KeepTableType
<1>. HIDE DEF s
<1>. QED
  BY <1>1, <1>2, <1>5, <1>6, <1>7, PutSubStep

\* The name or a column of the last table of the sub feature in hand.
LEMMA SetTableInv == ASSUME IInv, SetTable PROVE IInv'
<1>1. /\ PlaceOK' /\ parsing /\ Scalar \in STRING
      /\ table /\ table' = table
  BY ValueFrame DEF SetTable, Keys
<1>2. /\ Current \in OneSub /\ features # <<>> /\ Current.tables # <<>>
      /\ table' \in BOOLEAN
  BY <1>1, CurrentType DEF IInv, ParserOK
<1>3. /\ Current.tables \in Seq(Table)
      /\ LastTable = Len(Current.tables) /\ LastTable \in Nat \ {0}
  BY <1>2 DEF OneSub, SubFeature, LastTable
<1> DEFINE c == Current.tables[LastTable]
<1>4. c \in Table
  BY <1>3
<1> DEFINE n == [c EXCEPT !.name = Scalar]
           l == [c EXCEPT !.cols = Append(c.cols, Scalar)]
<1>5. n \in Table /\ l \in Table
  <2>. HIDE DEF c
  <2>1. c.cols \in Seq(STRING)
    BY <1>4 DEF Table
  <2>2. Append(c.cols, Scalar) \in Seq(STRING)
    BY <1>1, <2>1, AppendType
  <2>. QED
    BY <1>1, <1>4, <2>2 DEF Table
<1> DEFINE t(x) == [Current.tables EXCEPT ![LastTable] = x]
           s(x) == [Current EXCEPT !.tables = t(x)]
<1>6. PutSub(s(n)) \/ PutSub(s(l))
  BY DEF SetTable
<1>. HIDE DEF c, n, l
<1>7. \A x \in Table : PutSub(s(x)) => IInv'
  <2>. SUFFICES ASSUME NEW x \in Table, PutSub(s(x)) PROVE IInv'
    OBVIOUS
  <2>1. t(x) \in Seq(Table) /\ t(x) # <<>>
    <3>1. /\ t(x) \in Seq(Table)
          /\ Len(t(x)) = Len(Current.tables)
      BY <1>3
    <3>. QED
      BY <1>3, <3>1
  <2>. HIDE DEF t
  <2>2. s(x) \in OneSub /\ s(x).tables = t(x)
    BY <1>2, <2>1, TablesEdit
  <2>. HIDE DEF s
  <2>. QED
    BY <1>1, <1>2, <2>1, <2>2, PutSubStep
<1>. QED
  BY <1>5, <1>6, <1>7

-----------------------------------------------------------------------------
(* The steps that link nothing.                                            *)

\* A scalar that changes no feature, curr_subfeature or curr_table.
LEMMA SameFeatures ==
  ASSUME IInv, parsing, PlaceOK', UNCHANGED <<features, sub, table>>
  PROVE  IInv'
  BY DEF IInv, ParserOK, PlaceOK

\* free_show_tech_config leaves the empty list, and the parser stops.
LEMMA FailInv == ASSUME IInv, Fail PROVE IInv'
<1>1. features' \in Seq(Feature)
  BY DEF Fail
<1>. QED
  <2>1. PositionOK' = PositionOK
    BY DEF Fail, PositionOK, Places, AtEnd, Subs, Tables, Row
  <2>. QED
    BY <1>1, <2>1 DEF IInv, ParserOK, Fail

\* Every action keeps the invariant, and so does a step that changes nothing.
LEMMA NextInv == ASSUME IInv, [Next]_vars PROVE IInv'
<1>1. CASE GetConfig
  <2>1. file' \in Files /\ PositionOK'
    <3>1. file' \in Files /\ pos' = Start'
      BY <1>1 DEF GetConfig, IInv, ParserOK, Start
    <3>. QED
      BY <3>1, NextStartIsPlace
  <2>2. sub' = None /\ sub' \notin Nat /\ table' = FALSE
    BY <1>1 DEF GetConfig
  <2>3. sub' # 0
    BY <2>2
  <2>. QED
    BY <1>1, <2>1, <2>2, <2>3 DEF GetConfig, IInv, ParserOK, Keys
<1>2. CASE OtherKey
  <2>1. PlaceOK' /\ parsing
    BY <1>2, KeyFrame DEF OtherKey
  <2>. QED
    BY <1>2, <2>1, SameFeatures DEF OtherKey
<1>4. CASE SkipValue
  <2>1. PlaceOK' /\ parsing
    BY <1>4, ValueFrame DEF SkipValue, Keys
  <2>. QED
    BY <1>4, <2>1, SameFeatures DEF SkipValue
<1>5. CASE Refused \/ ParseError
  BY <1>5, FailInv DEF Refused, ParseError, KeyFails, ValueFails
<1>6. CASE ParseEnd
  <2>1. PositionOK' = PositionOK
    BY <1>6 DEF ParseEnd, PositionOK, Places, AtEnd, Subs, Tables, Row
  <2>. QED
    BY <1>6, <2>1 DEF ParseEnd, IInv, ParserOK
<1>7. CASE UNCHANGED vars
  <2>1. PositionOK' = PositionOK
    BY <1>7 DEF vars, PositionOK, Places, AtEnd, Subs, Tables, Row
  <2>. QED
    BY <1>7, <2>1 DEF vars, IInv, ParserOK
<1>. QED
  BY <1>1, <1>2, <1>4, <1>5, <1>6, <1>7, AddFeatureInv,
     AddSubFeatureInv, AddTableInv, SetFeatureInv, SetSubInv,
     SetSupportInv, AddCommandInv, SetTableInv DEF Next

-----------------------------------------------------------------------------
(* The theorems.                                                           *)

\* What parse_showtech_config builds is, after every scalar, a list of
\* features with their commands and tables, and curr_subfeature and curr_table
\* are the last of their lists or in no feature.
THEOREM Invariance == Spec => []IInv
<1>1. ASSUME Init PROVE IInv
  <2>1. file \in Files /\ PositionOK
    BY <1>1, StartIsPlace DEF Init
  <2>3. features \in Seq(Feature)
    BY <1>1 DEF Init
  <2>. QED
    BY <1>1, <2>1, <2>3 DEF Init, IInv, ParserOK, Keys
<1>2. IInv /\ [Next]_vars => IInv'
  BY NextInv
<1>. QED
  BY <1>1, <1>2, PTL DEF Spec

\* The types of show tech's configuration and of the state of its parser
\* (struct feature, struct sub_feature, struct ovsdb_table).
THEOREM TypeCorrect == Spec => []TypeOK
<1>1. Init => nulls \subseteq Places
  BY DEF Init
<1>2. IInv /\ nulls \subseteq Places /\ [Next]_vars => (nulls \subseteq Places)'
  <2>. SUFFICES ASSUME IInv, nulls \subseteq Places, [Next]_vars
                PROVE  nulls' \subseteq Places
    OBVIOUS
  <2>1. pos \in Places
    BY DEF IInv, ParserOK, PositionOK, Places
  <2>2. nulls' = {} \/ nulls' = nulls \/ nulls' = nulls \cup {pos}
    BY DEF Next, vars, GetConfig, AddFeature, AddSubFeature, AddTable, OtherKey,
       SetFeature, SetSub, SetSupport, AddCommand, SetTable, SkipValue, Refused, ParseError,
       ParseEnd, Key, KeyFails, ValueFails, Fail, Copy
  <2>. QED
    BY <2>1, <2>2
<1>3. IInv /\ nulls \subseteq Places <=> TypeOK
  BY DEF TypeOK
<1>. QED
  BY <1>1, <1>2, <1>3, Invariance, PTL DEF Spec

-----------------------------------------------------------------------------
(* What is stored of a sub feature, as a function of the place.            *)

\* The beginnings of a sequence.
LEMMA Beginnings ==
  ASSUME NEW S, NEW q \in Seq(S)
  PROVE  /\ \A n \in Int : n <= 0 => SubSeq(q, 1, n) = <<>>
         /\ SubSeq(q, 1, Len(q)) = q
         /\ \A n \in 1..Len(q) : SubSeq(q, 1, n) = Append(SubSeq(q, 1, n - 1), q[n])
<1>1. ASSUME NEW n \in Int, n <= 0 PROVE SubSeq(q, 1, n) = <<>>
  BY <1>1, SubSeqEmpty
<1>2. SubSeq(q, 1, Len(q)) = q
  BY SubSeqFull
<1>3. ASSUME NEW n \in 1..Len(q) PROVE SubSeq(q, 1, n) = Append(SubSeq(q, 1, n - 1), q[n])
  <2> DEFINE a == SubSeq(q, 1, n)
             b == SubSeq(q, 1, n - 1)
  <2>1. Len(q) \in Nat /\ \A i \in 1..n : q[i] \in S
    BY LenProperties, ElementOfSeq
  <2>2. n \in Int /\ n - 1 \in Int /\ 1 \in Int /\ n - 1 + 1 = n /\ n - 1 - 1 + 1 = n - 1
    OBVIOUS
  <2>3. a \in Seq(S) /\ Len(a) = n /\ \A i \in 1..n : a[i] = q[1 + i - 1]
    BY <2>1, <2>2, SubSeqProperties
  <2>4. \A i \in 1..n - 1 : q[i] \in S
    BY <2>1
  <2>5. /\ b \in Seq(S) /\ Len(b) = (IF 1 <= n - 1 THEN n - 1 - 1 + 1 ELSE 0)
        /\ \A i \in 1..n - 1 - 1 + 1 : b[i] = q[1 + i - 1]
    BY <2>2, <2>4, SubSeqProperties
  <2>6. Len(b) = n - 1 /\ \A i \in 1..n - 1 : b[i] = q[1 + i - 1]
    BY <2>2, <2>5
  <2>. HIDE DEF a, b
  <2>7. /\ Append(b, q[n]) \in Seq(S) /\ Len(Append(b, q[n])) = n
        /\ \A i \in 1..n - 1 : Append(b, q[n])[i] = b[i]
        /\ Append(b, q[n])[n] = q[n]
    <3>1. q[n] \in S
      BY <2>1
    <3>. QED
      BY <2>5, <2>6, <3>1, AppendProperties
  <2>8. \A i \in 1..n : a[i] = Append(b, q[n])[i]
    <3>. SUFFICES ASSUME NEW i \in 1..n PROVE a[i] = Append(b, q[n])[i]
      OBVIOUS
    <3>1. 1 + i - 1 = i
      OBVIOUS
    <3>2. a[i] = q[i]
      BY <2>3, <3>1
    <3>3. CASE i = n
      BY <2>7, <3>2, <3>3
    <3>4. CASE i # n
      <4>1. i \in 1..n - 1
        BY <3>4
      <4>. QED
        BY <2>6, <2>7, <3>1, <3>2, <4>1
    <3>. QED
      BY <3>3, <3>4
  <2>9. a = Append(b, q[n])
    BY <2>3, <2>7, <2>8, SeqEqual
  <2>. QED
    BY <2>9 DEF a, b
<1>. QED
  BY <1>1, <1>2, <1>3

\* A sequence of n elements, one more at its end, and another one in its place.
LEMMA AppendIs ==
  ASSUME NEW n \in Nat, NEW f, f = [i \in 1..n |-> f[i]], NEW e
  PROVE  /\ Len(f) = n
         /\ Append(f, e) = [i \in 1..n + 1 |-> IF i <= n THEN f[i] ELSE e]
         /\ Len(Append(f, e)) = n + 1
<1> DEFINE S == {f[i] : i \in 1..n} \cup {e}
<1>1. f \in Seq(S) /\ Len(f) = n /\ e \in S
  OBVIOUS
<1>. HIDE DEF S
<1>2. /\ Append(f, e) \in Seq(S) /\ Len(Append(f, e)) = n + 1
      /\ \A i \in 1..n : Append(f, e)[i] = f[i]
      /\ Append(f, e)[n + 1] = e
  BY <1>1, AppendProperties
<1>3. Append(f, e) \in [1..n + 1 -> S]
  BY <1>2, LenProperties
<1>4. \A i \in 1..n + 1 : Append(f, e)[i] = IF i <= n THEN f[i] ELSE e
  <2>. SUFFICES ASSUME NEW i \in 1..n + 1 PROVE Append(f, e)[i] = IF i <= n THEN f[i] ELSE e
    OBVIOUS
  <2>1. i \in 1..n \/ i = n + 1
    OBVIOUS
  <2>2. ~(n + 1 <= n)
    OBVIOUS
  <2>. QED
    BY <1>2, <2>1, <2>2
<1>5. Append(f, e) = [i \in 1..n + 1 |-> Append(f, e)[i]]
  BY <1>3
<1>. HIDE DEF S
<1>6. Append(f, e) = [i \in 1..n + 1 |-> IF i <= n THEN f[i] ELSE e]
  BY <1>4, <1>5
<1>. QED
  BY <1>1, <1>2, <1>6

\* The last element replaced.
LEMMA ReplaceIs ==
  ASSUME NEW n \in Nat, n > 0, NEW f, f = [i \in 1..n |-> f[i]], NEW e
  PROVE  [f EXCEPT ![n] = e] = [i \in 1..n |-> IF i < n THEN f[i] ELSE e]
<1>1. DOMAIN f = 1..n /\ n \in 1..n
  OBVIOUS
<1>2. [f EXCEPT ![n] = e] = [i \in 1..n |-> IF i = n THEN e ELSE f[i]]
  BY <1>1
<1>3. \A i \in 1..n : (i = n) <=> ~(i < n)
  OBVIOUS
<1>. QED
  BY <1>2, <1>3

\* The columns of a table replaced.
LEMMA WithColumns ==
  ASSUME NEW n, NEW b, NEW c
  PROVE  [[name |-> n, cols |-> b] EXCEPT !.cols = c] = [name |-> n, cols |-> c]
  OBVIOUS

\* What is stored of a table, scalar by scalar.
LEMMA TableUpToIs ==
  ASSUME NEW t \in FileTable
  PROVE  /\ TableUpTo(t, 2) = NewTable
         /\ TableUpTo(t, 3) = TableUpTo(t, 2)
         /\ TableUpTo(t, 4) = [TableUpTo(t, 3) EXCEPT !.name = t.name]
         /\ TableUpTo(t, 5) = TableUpTo(t, 4)
         /\ \A i \in 1..Len(t.cols) :
              TableUpTo(t, 5 + i) = [TableUpTo(t, 4 + i) EXCEPT !.cols = Append(@, t.cols[i])]
         /\ TableUpTo(t, 5 + Len(t.cols)) = t
<1>1. /\ t = [name |-> t.name, cols |-> t.cols] /\ t.cols \in Seq(Text) /\ Len(t.cols) \in Nat
  BY DEF FileTable
<1>2. /\ \A n \in Int : n <= 0 => SubSeq(t.cols, 1, n) = <<>>
      /\ SubSeq(t.cols, 1, Len(t.cols)) = t.cols
      /\ \A n \in 1..Len(t.cols) :
           SubSeq(t.cols, 1, n) = Append(SubSeq(t.cols, 1, n - 1), t.cols[n])
  BY <1>1, Beginnings
<1>3. \A k \in 2..5 : TableUpTo(t, k) = [name |-> IF k > 3 THEN t.name ELSE None, cols |-> <<>>]
  <2>. SUFFICES ASSUME NEW k \in 2..5 PROVE SubSeq(t.cols, 1, k - 5) = <<>>
    BY DEF TableUpTo
  <2>1. k - 5 \in Int /\ k - 5 <= 0
    OBVIOUS
  <2>. QED
    BY <1>2, <2>1
<1>4. ASSUME NEW i \in 1..Len(t.cols)
      PROVE  TableUpTo(t, 5 + i) = [TableUpTo(t, 4 + i) EXCEPT !.cols = Append(@, t.cols[i])]
  <2>1. 5 + i > 3 /\ 4 + i > 3 /\ 5 + i - 5 = i /\ 4 + i - 5 = i - 1
    OBVIOUS
  <2>2. /\ TableUpTo(t, 5 + i) = [name |-> t.name, cols |-> SubSeq(t.cols, 1, i)]
        /\ TableUpTo(t, 4 + i) = [name |-> t.name, cols |-> SubSeq(t.cols, 1, i - 1)]
    BY <2>1 DEF TableUpTo
  <2>3. SubSeq(t.cols, 1, i) = Append(SubSeq(t.cols, 1, i - 1), t.cols[i])
    BY <1>2
  <2> DEFINE b == [name |-> t.name, cols |-> SubSeq(t.cols, 1, i - 1)]
  <2>4. b.cols = SubSeq(t.cols, 1, i - 1)
    OBVIOUS
  <2>5. [b EXCEPT !.cols = Append(b.cols, t.cols[i])]
          = [name |-> t.name, cols |-> Append(b.cols, t.cols[i])]
    BY WithColumns
  <2>. QED
    BY <2>2, <2>3, <2>5
<1>5. TableUpTo(t, 5 + Len(t.cols)) = t
  <2>1. 5 + Len(t.cols) > 3 /\ 5 + Len(t.cols) - 5 = Len(t.cols)
    BY <1>1
  <2>. QED
    BY <1>1, <1>2, <2>1 DEF TableUpTo
<1>6. /\ TableUpTo(t, 2) = NewTable
      /\ TableUpTo(t, 3) = TableUpTo(t, 2)
      /\ TableUpTo(t, 4) = [TableUpTo(t, 3) EXCEPT !.name = t.name]
      /\ TableUpTo(t, 5) = TableUpTo(t, 4)
  BY <1>3 DEF NewTable
<1>. QED
  BY <1>4, <1>5, <1>6

\* The tables of a sub feature.
TablesUpTo(s, t, k) ==
  [i \in 1..(IF k > 1 THEN t ELSE t - 1) |->
     IF i < t THEN s.tables[i] ELSE TableUpTo(s.tables[i], k)]

\* table begins another one, and each further scalar replaces the last.
LEMMA TablesUpToIs ==
  ASSUME NEW s, Proper(s), NEW t \in 1..Len(s.tables)
  PROVE  /\ TablesUpTo(s, t, 2) = Append(TablesUpTo(s, t, 1), NewTable)
         /\ \A k \in Nat : k > 1 =>
              /\ Len(TablesUpTo(s, t, k)) = t
              /\ TablesUpTo(s, t, k)[t] = TableUpTo(s.tables[t], k)
              /\ TablesUpTo(s, t, k + 1)
                   = [TablesUpTo(s, t, k) EXCEPT ![t] = TableUpTo(s.tables[t], k + 1)]
         /\ TablesUpTo(s, t, 5 + Len(s.tables[t].cols)) = TablesUpTo(s, t + 1, 1)
         /\ TablesUpTo(s, Len(s.tables) + 1, 1) = s.tables
         /\ s.tables[t] \in FileTable
<1>1. s.tables \in Seq(FileTable) /\ Len(s.tables) \in Nat
  BY SubFields
<1>2. /\ s.tables[t] \in FileTable /\ t \in Nat /\ t > 0 /\ Len(s.tables[t].cols) \in Nat
      /\ s.tables = [i \in 1..Len(s.tables) |-> s.tables[i]]
  <2>1. s.tables[t] \in FileTable
    BY <1>1
  <2>. QED
    BY <1>1, <2>1, TableRow
<1>3. TablesUpTo(s, t, 1) = [i \in 1..t - 1 |-> s.tables[i]]
  <2>1. \A i \in 1..t - 1 : i < t
    OBVIOUS
  <2>. QED
    BY <2>1 DEF TablesUpTo
<1>4. ASSUME NEW k \in Nat, k > 1
      PROVE  TablesUpTo(s, t, k) = [i \in 1..t |-> IF i < t THEN s.tables[i]
                                                   ELSE TableUpTo(s.tables[i], k)]
  BY <1>4 DEF TablesUpTo
<1>5. TablesUpTo(s, t, 2) = Append(TablesUpTo(s, t, 1), NewTable)
  <2> DEFINE f == TablesUpTo(s, t, 1)
  <2>1. t - 1 \in Nat /\ f = [i \in 1..t - 1 |-> f[i]] /\ t - 1 + 1 = t
    BY <1>2, <1>3
  <2>2. \A i \in 1..t - 1 : f[i] = s.tables[i]
    BY <1>3
  <2>. HIDE DEF f
  <2>3. Append(f, NewTable) = [i \in 1..t - 1 + 1 |-> IF i <= t - 1 THEN f[i] ELSE NewTable]
    BY <2>1, AppendIs
  <2>4. \A i \in 1..t : (IF i <= t - 1 THEN f[i] ELSE NewTable)
                          = IF i < t THEN s.tables[i] ELSE TableUpTo(s.tables[i], 2)
    <3>. SUFFICES ASSUME NEW i \in 1..t
                  PROVE  (IF i <= t - 1 THEN f[i] ELSE NewTable)
                           = IF i < t THEN s.tables[i] ELSE TableUpTo(s.tables[i], 2)
      OBVIOUS
    <3>1. CASE i = t
      <4>1. TableUpTo(s.tables[i], 2) = NewTable
        BY <1>2, <3>1, TableUpToIs
      <4>. QED
        BY <1>2, <3>1, <4>1
    <3>2. CASE i # t
      <4>1. i \in 1..t - 1 /\ i <= t - 1 /\ i < t
        BY <3>2
      <4>. QED
        BY <2>2, <4>1
    <3>. QED
      BY <3>1, <3>2
  <2>5. TablesUpTo(s, t, 2) = [i \in 1..t |-> IF i < t THEN s.tables[i]
                                              ELSE TableUpTo(s.tables[i], 2)]
    BY <1>4
  <2>. QED
    BY <2>1, <2>3, <2>4, <2>5 DEF f
<1>6. ASSUME NEW k \in Nat, k > 1
      PROVE  /\ Len(TablesUpTo(s, t, k)) = t
             /\ TablesUpTo(s, t, k)[t] = TableUpTo(s.tables[t], k)
             /\ TablesUpTo(s, t, k + 1)
                  = [TablesUpTo(s, t, k) EXCEPT ![t] = TableUpTo(s.tables[t], k + 1)]
  <2> DEFINE f == TablesUpTo(s, t, k)
             e == TableUpTo(s.tables[t], k + 1)
  <2>1. f = [i \in 1..t |-> IF i < t THEN s.tables[i] ELSE TableUpTo(s.tables[i], k)]
    BY <1>4, <1>6
  <2>2. TablesUpTo(s, t, k + 1) = [i \in 1..t |-> IF i < t THEN s.tables[i]
                                                ELSE TableUpTo(s.tables[i], k + 1)]
    BY <1>4, <1>6
  <2>3. f = [i \in 1..t |-> f[i]] /\ f[t] = TableUpTo(s.tables[t], k)
        /\ \A i \in 1..t : i < t => f[i] = s.tables[i]
    BY <1>2, <2>1
  <2>. HIDE DEF f
  <2>4. Len(f) = t
    BY <1>2, <2>3, AppendIs
  <2>5. [f EXCEPT ![t] = e] = [i \in 1..t |-> IF i < t THEN f[i] ELSE e]
    BY <1>2, <2>3, ReplaceIs
  <2>6. \A i \in 1..t : (IF i < t THEN f[i] ELSE e)
                          = IF i < t THEN s.tables[i] ELSE TableUpTo(s.tables[i], k + 1)
    <3>1. \A i \in 1..t : ~(i < t) => i = t
      OBVIOUS
    <3>. QED
      BY <2>3, <3>1
  <2>7. TablesUpTo(s, t, k + 1) = [f EXCEPT ![t] = e]
    BY <2>2, <2>5, <2>6
  <2>. QED
    BY <2>3, <2>4, <2>7 DEF f
<1>7. TablesUpTo(s, t, 5 + Len(s.tables[t].cols)) = TablesUpTo(s, t + 1, 1)
  <2> DEFINE k == 5 + Len(s.tables[t].cols)
  <2>1. k \in Nat /\ k > 1
    BY <1>2
  <2>2. TableUpTo(s.tables[t], k) = s.tables[t]
    BY <1>2, TableUpToIs
  <2>. HIDE DEF k
  <2>3. TablesUpTo(s, t, k) = [i \in 1..t |-> IF i < t THEN s.tables[i]
                                              ELSE TableUpTo(s.tables[i], k)]
    BY <1>4, <2>1
  <2>4. TablesUpTo(s, t + 1, 1) = [i \in 1..t |-> s.tables[i]]
    <3>1. t + 1 - 1 = t /\ \A i \in 1..t : i < t + 1
      OBVIOUS
    <3>. QED
      BY <3>1 DEF TablesUpTo
  <2>5. \A i \in 1..t : ~(i < t) => i = t
    OBVIOUS
  <2>6. TablesUpTo(s, t, k) = TablesUpTo(s, t + 1, 1)
    BY <2>2, <2>3, <2>4, <2>5
  <2>. QED
    BY <2>6 DEF k
<1>8. TablesUpTo(s, Len(s.tables) + 1, 1) = s.tables
  <2>1. Len(s.tables) + 1 - 1 = Len(s.tables) /\ \A i \in 1..Len(s.tables) : i < Len(s.tables) + 1
    BY <1>1
  <2>2. TablesUpTo(s, Len(s.tables) + 1, 1) = [i \in 1..Len(s.tables) |-> s.tables[i]]
    BY <2>1 DEF TablesUpTo
  <2>. QED
    BY <1>2, <2>2
<1>. QED
  BY <1>2, <1>5, <1>6, <1>7, <1>8

-----------------------------------------------------------------------------
(* What a scalar does to the sub feature in hand.                          *)

\* What is stored of a sub feature before its tables, part by part.
NameUpTo(s, k)    == IF k > 3 THEN s.name ELSE None
DescUpTo(s, k)    == IF k > 5 THEN s.desc ELSE None
AllUpTo(s, k)     == IF k > AllEnd(s) THEN Flag(s.all, TRUE) ELSE TRUE
SupportUpTo(s, k) == IF k > FlagsEnd(s) THEN Flag(s.feature, FALSE) ELSE FALSE
CmdsUpTo(s, k) ==
  IF k > CmdsEnd(s) THEN s.cmds ELSE SubSeq(s.cmds, 1, k - FlagsEnd(s) - 2)

\* They are all that is stored of it there ...
LEMMA BeforeTables ==
  ASSUME NEW s, Proper(s), NEW k \in Nat
  PROVE  SubUpTo(s, 0, k) =
           [name |-> NameUpTo(s, k), desc |-> DescUpTo(s, k), dummy |-> s.dummy,
            all |-> AllUpTo(s, k), feature |-> SupportUpTo(s, k),
            cmds |-> CmdsUpTo(s, k), tables |-> <<>>]
<1>1. [i \in 1..(IF k > 1 THEN 0 ELSE 0 - 1) |->
         IF i < 0 THEN s.tables[i] ELSE TableUpTo(s.tables[i], k)] = <<>>
  <2>1. 1..(IF k > 1 THEN 0 ELSE 0 - 1) = {}
    OBVIOUS
  <2>. QED
    BY <2>1
<1>2. ~(0 > 0)
  OBVIOUS
<1>. QED
  BY <1>1, <1>2 DEF SubUpTo, NameUpTo, DescUpTo, AllUpTo, SupportUpTo, CmdsUpTo

\* ... and in its tables only these change.
LEMMA InTables ==
  ASSUME NEW s, Proper(s), NEW t \in Nat, t > 0, NEW k \in Nat
  PROVE  SubUpTo(s, t, k) =
           [name |-> s.name, desc |-> s.desc, dummy |-> s.dummy,
            all |-> Flag(s.all, TRUE), feature |-> Flag(s.feature, FALSE),
            cmds |-> s.cmds, tables |-> TablesUpTo(s, t, k)]
  BY DEF SubUpTo, TablesUpTo

\* The commands, one by one.
LEMMA CmdsUpToIs ==
  ASSUME NEW s, Proper(s)
  PROVE  /\ \A k \in Nat : k <= FlagsEnd(s) + 2 => CmdsUpTo(s, k) = <<>>
         /\ \A i \in 1..Len(s.cmds) :
              CmdsUpTo(s, FlagsEnd(s) + 2 + i)
                = Append(CmdsUpTo(s, FlagsEnd(s) + 1 + i), s.cmds[i])
         /\ \A k \in Nat : k > CmdsEnd(s) => CmdsUpTo(s, k) = s.cmds
<1>1. /\ FlagsEnd(s) \in Nat /\ CmdsEnd(s) \in Nat
      /\ CmdsEnd(s) = FlagsEnd(s) + (IF s.cmds = <<>> THEN 0 ELSE 1 + Len(s.cmds))
  BY EndsType
<1>2. s.cmds \in Seq(Text) /\ Len(s.cmds) \in Nat
  BY SubFields
<1>3. /\ \A n \in Int : n <= 0 => SubSeq(s.cmds, 1, n) = <<>>
      /\ SubSeq(s.cmds, 1, Len(s.cmds)) = s.cmds
      /\ \A n \in 1..Len(s.cmds) :
           SubSeq(s.cmds, 1, n) = Append(SubSeq(s.cmds, 1, n - 1), s.cmds[n])
  BY <1>2, Beginnings
<1>4. s.cmds # <<>> => Len(s.cmds) > 0
  BY <1>2, EmptySeq
<1>5. ASSUME NEW k \in Nat, k <= FlagsEnd(s) + 2 PROVE CmdsUpTo(s, k) = <<>>
  <2>1. k - FlagsEnd(s) - 2 \in Int /\ k - FlagsEnd(s) - 2 <= 0
    BY <1>1, <1>5
  <2>2. CASE s.cmds = <<>>
    BY <1>3, <2>1, <2>2 DEF CmdsUpTo
  <2>3. CASE s.cmds # <<>>
    <3>1. ~(k > CmdsEnd(s))
      BY <1>1, <1>2, <1>4, <1>5, <2>3
    <3>. QED
      BY <1>3, <2>1, <3>1 DEF CmdsUpTo
  <2>. QED
    BY <2>2, <2>3
<1>6. ASSUME NEW i \in 1..Len(s.cmds)
      PROVE  CmdsUpTo(s, FlagsEnd(s) + 2 + i)
               = Append(CmdsUpTo(s, FlagsEnd(s) + 1 + i), s.cmds[i])
  <2>1. s.cmds # <<>>
    <3>1. Len(<<>>) = 0
      OBVIOUS
    <3>. QED
      BY <1>2, <3>1
  <2>2. CmdsEnd(s) = FlagsEnd(s) + 1 + Len(s.cmds)
    BY <1>1, <1>2, <2>1
  <2>3. CmdsUpTo(s, FlagsEnd(s) + 1 + i) = SubSeq(s.cmds, 1, i - 1)
    <3>1. ~(FlagsEnd(s) + 1 + i > CmdsEnd(s)) /\ (FlagsEnd(s) + 1 + i) - FlagsEnd(s) - 2 = i - 1
      BY <1>1, <1>2, <2>2
    <3>2. CmdsUpTo(s, FlagsEnd(s) + 1 + i) = SubSeq(s.cmds, 1, (FlagsEnd(s) + 1 + i) - FlagsEnd(s) - 2)
      BY <3>1, Zenon DEF CmdsUpTo
    <3>. QED
      BY <3>1, <3>2
  <2>4. CmdsUpTo(s, FlagsEnd(s) + 2 + i) = SubSeq(s.cmds, 1, i)
    <3>1. CASE i = Len(s.cmds)
      <4>1. FlagsEnd(s) + 2 + i > CmdsEnd(s)
        BY <1>1, <1>2, <2>2, <3>1
      <4>. QED
        BY <1>3, <3>1, <4>1 DEF CmdsUpTo
    <3>2. CASE i # Len(s.cmds)
      <4>1. ~(FlagsEnd(s) + 2 + i > CmdsEnd(s)) /\ (FlagsEnd(s) + 2 + i) - FlagsEnd(s) - 2 = i
        BY <1>1, <1>2, <2>2, <3>2
      <4>2. CmdsUpTo(s, FlagsEnd(s) + 2 + i) = SubSeq(s.cmds, 1, (FlagsEnd(s) + 2 + i) - FlagsEnd(s) - 2)
        BY <4>1, Zenon DEF CmdsUpTo
      <4>. QED
        BY <4>1, <4>2
    <3>. QED
      BY <3>1, <3>2
  <2>. QED
    BY <1>3, <2>3, <2>4
<1>7. ASSUME NEW k \in Nat, k > CmdsEnd(s) PROVE CmdsUpTo(s, k) = s.cmds
  BY <1>7 DEF CmdsUpTo
<1>. QED
  BY <1>5, <1>6, <1>7

\* The flags.
LEMMA FlagsUpTo ==
  ASSUME NEW s, Proper(s), NEW k \in Nat
  PROVE  /\ k <= AllEnd(s) => AllUpTo(s, k) = TRUE
         /\ s.all = None => AllUpTo(s, k) = TRUE
         /\ k > AllEnd(s) => AllUpTo(s, k) = Flag(s.all, TRUE)
         /\ k <= FlagsEnd(s) => SupportUpTo(s, k) = FALSE
         /\ s.feature = None => SupportUpTo(s, k) = FALSE
         /\ k > FlagsEnd(s) => SupportUpTo(s, k) = Flag(s.feature, FALSE)
<1>1. AllEnd(s) \in Nat /\ FlagsEnd(s) \in Nat
  BY EndsType
<1>2. Flag(None, TRUE) = TRUE /\ Flag(None, FALSE) = FALSE
  BY DEF Flag
<1>3. /\ k <= AllEnd(s) => ~(k > AllEnd(s))
      /\ k <= FlagsEnd(s) => ~(k > FlagsEnd(s))
  BY <1>1
<1>4. /\ k <= AllEnd(s) => AllUpTo(s, k) = TRUE
      /\ s.all = None => AllUpTo(s, k) = TRUE
      /\ k > AllEnd(s) => AllUpTo(s, k) = Flag(s.all, TRUE)
  BY <1>2, <1>3 DEF AllUpTo
<1>5. /\ k <= FlagsEnd(s) => SupportUpTo(s, k) = FALSE
      /\ s.feature = None => SupportUpTo(s, k) = FALSE
      /\ k > FlagsEnd(s) => SupportUpTo(s, k) = Flag(s.feature, FALSE)
  BY <1>2, <1>3 DEF SupportUpTo
<1>. QED
  BY <1>4, <1>5

\* The last key of a row before a scalar.
LastKey(row, k, key) ==
  \E m \in 1..k - 1 : row[m] = key /\ \A l \in m + 1..k - 1 : row[l] \notin Keys

OtherKeys == Keys \ {"feature", "sub_feature", "table"}

\* One attribute of a sub feature replaced.
WithName(c, x)    == [c EXCEPT !.name = x]
WithDesc(c, x)    == [c EXCEPT !.desc = x]
WithAll(c, x)     == [c EXCEPT !.all = x]
WithSupport(c, x) == [c EXCEPT !.feature = x]
WithCmds(c, x)    == [c EXCEPT !.cmds = x]
WithTables(c, x)  == [c EXCEPT !.tables = x]
InTable(c, x)     == WithTables(c, [c.tables EXCEPT ![Len(c.tables)] = x])

\* What a value does to a sub feature after this key.
Edits(c, n, value, key) ==
  \/ key = "sub_feature_name" /\ n = WithName(c, value)
  \/ key = "sub_feature_desc" /\ n = WithDesc(c, value)
  \/ key = "support_showtech_all" /\ n = WithAll(c, value \in {"yes", "true"})
  \/ key = "support_showtech_feature" /\ n = WithSupport(c, value \in {"yes", "true"})
  \/ key = "cli_cmds" /\ n = WithCmds(c, Append(c.cmds, value))
  \/ /\ key = "table_name"
     /\ n = InTable(c, [c.tables[Len(c.tables)] EXCEPT !.name = value])
  \/ /\ key = "col_names"
     /\ n = InTable(c, [c.tables[Len(c.tables)] EXCEPT !.cols = Append(@, value)])

\* A sub feature, attribute by attribute, and with one of them changed.
SubOf(nm, ds, du, al, su, cm, tb) ==
  [name |-> nm, desc |-> ds, dummy |-> du, all |-> al, feature |-> su, cmds |-> cm,
   tables |-> tb]

\* The operators of the parser change the one that they are named for.
LEMMA SubOfEdits ==
  ASSUME NEW nm, NEW ds, NEW du, NEW al, NEW su, NEW cm, NEW tb, NEW x
  PROVE  /\ WithName(SubOf(nm, ds, du, al, su, cm, tb), x) = SubOf(x, ds, du, al, su, cm, tb)
         /\ WithDesc(SubOf(nm, ds, du, al, su, cm, tb), x) = SubOf(nm, x, du, al, su, cm, tb)
         /\ WithAll(SubOf(nm, ds, du, al, su, cm, tb), x) = SubOf(nm, ds, du, x, su, cm, tb)
         /\ WithSupport(SubOf(nm, ds, du, al, su, cm, tb), x) = SubOf(nm, ds, du, al, x, cm, tb)
         /\ WithCmds(SubOf(nm, ds, du, al, su, cm, tb), x) = SubOf(nm, ds, du, al, su, x, tb)
         /\ WithTables(SubOf(nm, ds, du, al, su, cm, tb), x) = SubOf(nm, ds, du, al, su, cm, x)
         /\ SubOf(nm, ds, du, al, su, cm, tb).cmds = cm
         /\ SubOf(nm, ds, du, al, su, cm, tb).tables = tb
  BY DEF SubOf, WithName, WithDesc, WithAll, WithSupport, WithCmds, WithTables

\* The ends again, case by case.
LEMMA EndsCases ==
  ASSUME NEW s, Proper(s)
  PROVE  /\ s.dummy => HeadEnd(s) = 0
         /\ ~s.dummy => HeadEnd(s) = 5
         /\ s.all = None => AllEnd(s) = HeadEnd(s)
         /\ s.all # None => AllEnd(s) = HeadEnd(s) + 2
         /\ s.feature = None => FlagsEnd(s) = AllEnd(s)
         /\ s.feature # None => FlagsEnd(s) = AllEnd(s) + 2
         /\ s.cmds = <<>> => CmdsEnd(s) = FlagsEnd(s)
         /\ s.cmds # <<>> => CmdsEnd(s) = FlagsEnd(s) + 1 + Len(s.cmds)
         /\ HeadEnd(s) \in Nat /\ AllEnd(s) \in Nat /\ FlagsEnd(s) \in Nat /\ CmdsEnd(s) \in Nat
         /\ HeadEnd(s) <= AllEnd(s) /\ AllEnd(s) <= FlagsEnd(s) /\ FlagsEnd(s) <= CmdsEnd(s)
         /\ Len(s.cmds) \in Nat
<1>1. /\ HeadEnd(s) = (IF s.dummy THEN 0 ELSE 5)
      /\ AllEnd(s) = HeadEnd(s) + (IF s.all = None THEN 0 ELSE 2)
      /\ FlagsEnd(s) = AllEnd(s) + (IF s.feature = None THEN 0 ELSE 2)
      /\ CmdsEnd(s) = FlagsEnd(s) + (IF s.cmds = <<>> THEN 0 ELSE 1 + Len(s.cmds))
      /\ HeadEnd(s) \in Nat /\ AllEnd(s) \in Nat /\ FlagsEnd(s) \in Nat /\ CmdsEnd(s) \in Nat
  BY EndsType
<1>2. Len(s.cmds) \in Nat
  BY SubFields
<1>3. /\ s.dummy => HeadEnd(s) = 0
      /\ ~s.dummy => HeadEnd(s) = 5
  BY <1>1
<1>4. /\ s.all = None => AllEnd(s) = HeadEnd(s)
      /\ s.all # None => AllEnd(s) = HeadEnd(s) + 2
  BY <1>1
<1>5. /\ s.feature = None => FlagsEnd(s) = AllEnd(s)
      /\ s.feature # None => FlagsEnd(s) = AllEnd(s) + 2
  BY <1>1
<1>6. s.cmds = <<>> => CmdsEnd(s) = FlagsEnd(s)
  BY <1>1
<1>7. s.cmds # <<>> => CmdsEnd(s) = FlagsEnd(s) + 1 + Len(s.cmds)
  <2>1. s.cmds # <<>> => CmdsEnd(s) = FlagsEnd(s) + (1 + Len(s.cmds))
    BY <1>1
  <2>2. FlagsEnd(s) \in Nat
    BY <1>1
  <2>3. FlagsEnd(s) + (1 + Len(s.cmds)) = FlagsEnd(s) + 1 + Len(s.cmds)
    BY <1>2, <2>2
  <2>. QED
    BY <2>1, <2>3
<1>8. HeadEnd(s) <= AllEnd(s) /\ AllEnd(s) <= FlagsEnd(s) /\ FlagsEnd(s) <= CmdsEnd(s)
  <2>1. HeadEnd(s) \in Nat /\ AllEnd(s) \in Nat /\ FlagsEnd(s) \in Nat /\ CmdsEnd(s) \in Nat
    BY <1>1
  <2>2. HeadEnd(s) <= AllEnd(s) /\ AllEnd(s) <= FlagsEnd(s)
    BY <1>4, <1>5, <2>1
  <2>3. FlagsEnd(s) <= CmdsEnd(s)
    BY <1>2, <1>6, <1>7, <2>1
  <2>. QED
    BY <2>2, <2>3
<1>. QED
  BY <1>1, <1>2, <1>3, <1>4, <1>5, <1>6, <1>7, <1>8

\* The place of a scalar that precedes the tables.
LEMMA SubRegions ==
  ASSUME NEW s, Proper(s), NEW k \in 1..Len(SubScalars(s))
  PROVE  \/ ~s.dummy /\ k \in {1, 2, 3, 4, 5}
         \/ s.all # None /\ k \in {HeadEnd(s) + 1, HeadEnd(s) + 2}
         \/ s.feature # None /\ k \in {AllEnd(s) + 1, AllEnd(s) + 2}
         \/ s.cmds # <<>> /\ k = FlagsEnd(s) + 1
         \/ s.cmds # <<>> /\ \E i \in 1..Len(s.cmds) : k = FlagsEnd(s) + (1 + i)
         \/ s.tables # <<>> /\ k = CmdsEnd(s) + 1
<1>1. /\ s.dummy => HeadEnd(s) = 0
      /\ ~s.dummy => HeadEnd(s) = 5
      /\ s.all = None => AllEnd(s) = HeadEnd(s)
      /\ s.all # None => AllEnd(s) = HeadEnd(s) + 2
      /\ s.feature = None => FlagsEnd(s) = AllEnd(s)
      /\ s.feature # None => FlagsEnd(s) = AllEnd(s) + 2
      /\ s.cmds = <<>> => CmdsEnd(s) = FlagsEnd(s)
      /\ s.cmds # <<>> => CmdsEnd(s) = FlagsEnd(s) + 1 + Len(s.cmds)
      /\ HeadEnd(s) \in Nat /\ AllEnd(s) \in Nat /\ FlagsEnd(s) \in Nat /\ CmdsEnd(s) \in Nat
      /\ HeadEnd(s) <= AllEnd(s) /\ AllEnd(s) <= FlagsEnd(s) /\ FlagsEnd(s) <= CmdsEnd(s)
  BY EndsCases
<1>2. /\ k \in Nat /\ k > 0 /\ Len(s.cmds) \in Nat
      /\ s.tables = <<>> => k <= CmdsEnd(s)
      /\ s.tables # <<>> => k <= CmdsEnd(s) + 1
  <2>1. /\ Len(SubScalars(s)) = CmdsEnd(s) + (IF s.tables = <<>> THEN 0 ELSE 1)
        /\ SubScalars(s) \in Seq(Word)
    BY SubRow
  <2>2. Len(SubScalars(s)) \in Nat /\ Len(s.cmds) \in Nat
    BY <2>1, SubFields
  <2>3. k \in Nat /\ k > 0 /\ k <= Len(SubScalars(s))
    BY <2>2
  <2>4. /\ s.tables = <<>> => Len(SubScalars(s)) = CmdsEnd(s)
        /\ s.tables # <<>> => Len(SubScalars(s)) = CmdsEnd(s) + 1
    BY <1>1, <2>1
  <2>. QED
    BY <2>2, <2>3, <2>4
<1>3. CASE k <= HeadEnd(s)
  BY <1>1, <1>2, <1>3
<1>4. CASE k > HeadEnd(s) /\ k <= AllEnd(s)
  BY <1>1, <1>2, <1>4
<1>5. CASE k > AllEnd(s) /\ k <= FlagsEnd(s)
  BY <1>1, <1>2, <1>5
<1>6. CASE k > FlagsEnd(s) /\ k <= CmdsEnd(s)
  <2>1. s.cmds # <<>>
    BY <1>1, <1>2, <1>6
  <2>2. /\ CmdsEnd(s) = FlagsEnd(s) + 1 + Len(s.cmds) /\ FlagsEnd(s) \in Nat
        /\ k \in Nat /\ Len(s.cmds) \in Nat
    BY <1>1, <1>2, <2>1
  <2>3. k # FlagsEnd(s) + 1 => k - FlagsEnd(s) - 1 \in 1..Len(s.cmds)
    BY <1>6, <2>2
  <2>4. k = FlagsEnd(s) + (1 + (k - FlagsEnd(s) - 1))
    BY <2>2
  <2>. QED
    BY <2>1, <2>3, <2>4
<1>7. CASE k > CmdsEnd(s)
  BY <1>1, <1>2, <1>7
<1>. QED
  BY <1>1, <1>2, <1>3, <1>4, <1>5, <1>6, <1>7

\* A value right after its key.
LEMMA AfterItsKey ==
  ASSUME NEW row, NEW k \in Nat, k > 0, NEW key, row[k] = key
  PROVE  LastKey(row, k + 1, key)
<1>1. k \in 1..k + 1 - 1 /\ k + 1..k + 1 - 1 = {}
  OBVIOUS
<1>. QED
  BY <1>1 DEF LastKey

\* The flags of a sub feature, with the values they have by default.
FlagAll(s)     == Flag(s.all, TRUE)
FlagSupport(s) == Flag(s.feature, FALSE)

\* Each scalar that precedes the tables: sub_feature, another key, or a value
\* that is stored as the last key says.
LEMMA SubScalar ==
  ASSUME NEW s, Proper(s), NEW k \in 1..Len(SubScalars(s))
  PROVE  LET row == SubScalars(s)
             c   == SubUpTo(s, 0, k)
             n   == SubUpTo(s, 0, k + 1)
         IN  \/ ~s.dummy /\ k = 1 /\ row[k] = "sub_feature" /\ n = NewSub(FALSE)
             \/ row[k] \in OtherKeys /\ n = c /\ (s.dummy \/ k > 1)
             \/ /\ row[k] \in Text /\ k > 1
                /\ \E key \in Keys : LastKey(row, k, key) /\ Edits(c, n, row[k], key)
<1> DEFINE row == SubScalars(s)
           on  == TRUE
           off == FALSE
           W(nm, ds, al, su, cm) == SubOf(nm, ds, s.dummy, al, su, cm, <<>>)
           c == SubUpTo(s, 0, k)
           n == SubUpTo(s, 0, k + 1)
<1>1. /\ s.dummy => HeadEnd(s) = 0
      /\ ~s.dummy => HeadEnd(s) = 5
      /\ s.all = None => AllEnd(s) = HeadEnd(s)
      /\ s.all # None => AllEnd(s) = HeadEnd(s) + 2
      /\ s.feature = None => FlagsEnd(s) = AllEnd(s)
      /\ s.feature # None => FlagsEnd(s) = AllEnd(s) + 2
      /\ s.cmds = <<>> => CmdsEnd(s) = FlagsEnd(s)
      /\ s.cmds # <<>> => CmdsEnd(s) = FlagsEnd(s) + 1 + Len(s.cmds)
      /\ HeadEnd(s) \in Nat /\ AllEnd(s) \in Nat /\ FlagsEnd(s) \in Nat /\ CmdsEnd(s) \in Nat
      /\ HeadEnd(s) <= AllEnd(s) /\ AllEnd(s) <= FlagsEnd(s) /\ FlagsEnd(s) <= CmdsEnd(s)
  BY EndsCases
<1>2. /\ s.all \in Text \cup {None} /\ s.feature \in Text \cup {None}
      /\ s.cmds \in Seq(Text) /\ Len(s.cmds) \in Nat
      /\ \A i \in 1..Len(s.cmds) : s.cmds[i] \in Text
      /\ s.dummy => s.name = None /\ s.desc = None
      /\ ~s.dummy => s.name \in Text /\ s.desc \in Text
      /\ s.dummy \in BOOLEAN
  BY SubFields
<1>3. /\ ~s.dummy => /\ row[1] = "sub_feature" /\ row[2] = "sub_feature_name"
                     /\ row[3] = s.name /\ row[4] = "sub_feature_desc"
                     /\ row[5] = s.desc
      /\ s.all # None => /\ row[HeadEnd(s) + 1] = "support_showtech_all"
                         /\ row[HeadEnd(s) + 2] = s.all
      /\ s.feature # None => /\ row[AllEnd(s) + 1] = "support_showtech_feature"
                             /\ row[AllEnd(s) + 2] = s.feature
      /\ s.cmds # <<>> => row[FlagsEnd(s) + 1] = "cli_cmds"
      /\ s.cmds # <<>> => \A j \in 1..Len(s.cmds) : row[FlagsEnd(s) + (1 + j)] = s.cmds[j]
      /\ s.tables # <<>> => row[CmdsEnd(s) + 1] = "ovsdb"
  BY SubRow
<1>4. ASSUME NEW i \in Nat, i > 0
      PROVE  SubUpTo(s, 0, i) = W(NameUpTo(s, i), DescUpTo(s, i), AllUpTo(s, i),
                                  SupportUpTo(s, i), CmdsUpTo(s, i))
  BY BeforeTables DEF SubOf
<1>5. ASSUME NEW i \in Nat
      PROVE  /\ i > 5 => NameUpTo(s, i) = s.name /\ DescUpTo(s, i) = s.desc
             /\ i <= 5 => DescUpTo(s, i) = None
             /\ i <= 3 => NameUpTo(s, i) = None
             /\ i > 3 => NameUpTo(s, i) = s.name
             /\ s.dummy => NameUpTo(s, i) = None /\ DescUpTo(s, i) = None
  BY <1>2 DEF NameUpTo, DescUpTo
<1>6. /\ \A i \in Nat : i <= FlagsEnd(s) + 2 => CmdsUpTo(s, i) = <<>>
      /\ \A i \in 1..Len(s.cmds) :
           CmdsUpTo(s, FlagsEnd(s) + 2 + i)
             = Append(CmdsUpTo(s, FlagsEnd(s) + 1 + i), s.cmds[i])
      /\ \A i \in Nat : i > CmdsEnd(s) => CmdsUpTo(s, i) = s.cmds
  BY CmdsUpToIs
<1>7. ASSUME NEW i \in Nat
      PROVE  /\ i <= AllEnd(s) => AllUpTo(s, i) = on
             /\ s.all = None => AllUpTo(s, i) = on
             /\ i > AllEnd(s) => AllUpTo(s, i) = FlagAll(s)
             /\ i <= FlagsEnd(s) => SupportUpTo(s, i) = off
             /\ s.feature = None => SupportUpTo(s, i) = off
             /\ i > FlagsEnd(s) => SupportUpTo(s, i) = FlagSupport(s)
  BY FlagsUpTo DEF FlagAll, FlagSupport
<1>8. /\ "sub_feature_name" \in OtherKeys /\ "sub_feature_name" \in Keys
      /\ "sub_feature_desc" \in OtherKeys /\ "sub_feature_desc" \in Keys
      /\ "support_showtech_all" \in OtherKeys /\ "support_showtech_all" \in Keys
      /\ "support_showtech_feature" \in OtherKeys /\ "support_showtech_feature" \in Keys
      /\ "cli_cmds" \in OtherKeys /\ "cli_cmds" \in Keys /\ "ovsdb" \in OtherKeys
      /\ \A x \in Text : x \notin Keys
  BY DEF OtherKeys, Keys, Text
<1>9. k \in Nat /\ k > 0 /\ k + 1 \in Nat /\ k + 1 > 0
  <2>1. row \in Seq(Word)
    BY SubRow
  <2>. QED
    OBVIOUS
<1>10. /\ c = W(NameUpTo(s, k), DescUpTo(s, k), AllUpTo(s, k), SupportUpTo(s, k), CmdsUpTo(s, k))
       /\ n = W(NameUpTo(s, k + 1), DescUpTo(s, k + 1), AllUpTo(s, k + 1),
                SupportUpTo(s, k + 1), CmdsUpTo(s, k + 1))
  BY <1>4, <1>9
<1> DEFINE Result ==
             \/ ~s.dummy /\ k = 1 /\ row[k] = "sub_feature" /\ n = NewSub(FALSE)
             \/ row[k] \in OtherKeys /\ n = c /\ (s.dummy \/ k > 1)
             \/ /\ row[k] \in Text /\ k > 1
                /\ \E key \in Keys : LastKey(row, k, key) /\ Edits(c, n, row[k], key)
<1>. HIDE DEF row, c, n, on, off
<1>11. ASSUME ~s.dummy, k \in {1, 2, 3, 4, 5}
       PROVE  Result
  <2>1. /\ AllUpTo(s, k) = on /\ AllUpTo(s, k + 1) = on
        /\ SupportUpTo(s, k) = off /\ SupportUpTo(s, k + 1) = off
        /\ CmdsUpTo(s, k) = <<>> /\ CmdsUpTo(s, k + 1) = <<>>
    <3>1. k <= AllEnd(s) /\ (s.all = None \/ k + 1 <= AllEnd(s))
      BY <1>1, <1>11
    <3>2. k <= FlagsEnd(s) /\ (s.feature = None \/ k + 1 <= FlagsEnd(s))
      BY <1>1, <1>11
    <3>3. k <= FlagsEnd(s) + 2 /\ k + 1 <= FlagsEnd(s) + 2
      BY <1>1, <3>2
    <3>. QED
      BY <1>6, <1>7, <1>9, <3>1, <3>2, <3>3
  <2>2. /\ c = W(NameUpTo(s, k), DescUpTo(s, k), on, off, <<>>)
        /\ n = W(NameUpTo(s, k + 1), DescUpTo(s, k + 1), on, off, <<>>)
    BY <1>10, <2>1
  <2>3. CASE k = 1
    <3>0. k + 1 = 2 /\ NameUpTo(s, 2) = None /\ DescUpTo(s, 2) = None
      BY <2>3 DEF NameUpTo, DescUpTo
    <3>1. n = W(None, None, on, off, <<>>)
      BY <2>2, <3>0
    <3>2. n = NewSub(FALSE)
      BY <1>2, <1>11, <3>1 DEF NewSub, SubOf, on, off
    <3>. QED
      BY <1>3, <1>11, <2>3, <3>2
  <2>4. CASE k = 2 \/ k = 4
    <3>1. NameUpTo(s, k + 1) = NameUpTo(s, k) /\ DescUpTo(s, k + 1) = DescUpTo(s, k)
      BY <2>4 DEF NameUpTo, DescUpTo
    <3>2. n = c
      BY <2>2, <3>1
    <3>3. row[k] \in OtherKeys /\ k > 1
      BY <1>3, <1>8, <1>11, <2>4
    <3>. QED
      BY <3>2, <3>3
  <2>5. CASE k = 3
    <3>1. c = W(None, None, on, off, <<>>) /\ n = W(s.name, None, on, off, <<>>)
      <4>1. /\ k + 1 = 4 /\ NameUpTo(s, 3) = None /\ DescUpTo(s, 3) = None
            /\ NameUpTo(s, 4) = s.name /\ DescUpTo(s, 4) = None
        BY <2>5 DEF NameUpTo, DescUpTo
      <4>. QED
        BY <2>2, <2>5, <4>1
    <3>2. row[k] = s.name /\ row[k] \in Text
      BY <1>2, <1>3, <1>11, <2>5
    <3>4. n = WithName(c, row[k])
      <4>1. WithName(W(None, None, on, off, <<>>), s.name) = W(s.name, None, on, off, <<>>)
        BY SubOfEdits
      <4>. QED
        BY <3>1, <3>2, <4>1
    <3>3. LastKey(row, k, "sub_feature_name")
      <4>1. LastKey(row, 2 + 1, "sub_feature_name")
        BY <1>3, <1>11, AfterItsKey
      <4>. QED
        BY <2>5, <4>1
    <3>. QED
      BY <1>8, <2>5, <3>2, <3>3, <3>4 DEF Edits
  <2>6. CASE k = 5
    <3>1. c = W(s.name, None, on, off, <<>>) /\ n = W(s.name, s.desc, on, off, <<>>)
      <4>1. /\ k + 1 = 6 /\ NameUpTo(s, 5) = s.name /\ DescUpTo(s, 5) = None
            /\ NameUpTo(s, 6) = s.name /\ DescUpTo(s, 6) = s.desc
        BY <2>6 DEF NameUpTo, DescUpTo
      <4>. QED
        BY <2>2, <2>6, <4>1
    <3>2. row[k] = s.desc /\ row[k] \in Text
      BY <1>2, <1>3, <1>11, <2>6
    <3>4. n = WithDesc(c, row[k])
      <4>1. WithDesc(W(s.name, None, on, off, <<>>), s.desc) = W(s.name, s.desc, on, off, <<>>)
        BY SubOfEdits
      <4>. QED
        BY <3>1, <3>2, <4>1
    <3>3. LastKey(row, k, "sub_feature_desc")
      <4>1. LastKey(row, 4 + 1, "sub_feature_desc")
        BY <1>3, <1>11, AfterItsKey
      <4>. QED
        BY <2>6, <4>1
    <3>. QED
      BY <1>8, <2>6, <3>2, <3>3, <3>4 DEF Edits
  <2>. QED
    BY <1>11, <2>3, <2>4, <2>5, <2>6
\* After the heading the name and the description are there.
<1>12. ASSUME k > HeadEnd(s)
       PROVE  /\ NameUpTo(s, k) = s.name /\ NameUpTo(s, k + 1) = s.name
              /\ DescUpTo(s, k) = s.desc /\ DescUpTo(s, k + 1) = s.desc
              /\ s.dummy \/ k > 1
  <2>1. CASE s.dummy
    BY <1>2, <1>5, <1>9, <2>1
  <2>2. CASE ~s.dummy
    <3>1. k > 5 /\ k + 1 > 5
      BY <1>1, <1>9, <1>12, <2>2
    <3>. QED
      BY <1>5, <1>9, <3>1
  <2>. QED
    BY <2>1, <2>2
<1>13. ASSUME s.all # None, k \in {HeadEnd(s) + 1, HeadEnd(s) + 2}
       PROVE  Result
  <2>1. /\ SupportUpTo(s, k) = off /\ SupportUpTo(s, k + 1) = off
        /\ CmdsUpTo(s, k) = <<>> /\ CmdsUpTo(s, k + 1) = <<>>
        /\ AllUpTo(s, k) = on
    <3>1. k <= AllEnd(s) /\ k <= FlagsEnd(s) /\ (s.feature = None \/ k + 1 <= FlagsEnd(s))
      BY <1>1, <1>9, <1>13
    <3>2. k <= FlagsEnd(s) + 2 /\ k + 1 <= FlagsEnd(s) + 2
      BY <1>1, <1>9, <3>1
    <3>. QED
      BY <1>6, <1>7, <1>9, <3>1, <3>2
  <2>2. /\ k > HeadEnd(s)
        /\ c = W(s.name, s.desc, on, off, <<>>)
        /\ n = W(s.name, s.desc, AllUpTo(s, k + 1), off, <<>>)
    <3>1. k > HeadEnd(s)
      BY <1>1, <1>13
    <3>. QED
      BY <1>10, <1>12, <2>1, <3>1
  <2>3. CASE k = HeadEnd(s) + 1
    <3>1. k + 1 <= AllEnd(s)
      BY <1>1, <1>13, <2>3
    <3>2. n = c
      BY <1>7, <1>9, <2>2, <3>1
    <3>. QED
      BY <1>3, <1>8, <1>12, <1>13, <2>2, <2>3, <3>2
  <2>4. CASE k = HeadEnd(s) + 2
    <3>1. k + 1 > AllEnd(s)
      BY <1>1, <1>13, <2>4
    <3>2. row[k] = s.all /\ s.all \in Text
      BY <1>2, <1>3, <1>13, <2>4
    <3>3. AllUpTo(s, k + 1) = (row[k] \in {"yes", "true"})
      BY <1>7, <1>9, <1>13, <3>1, <3>2 DEF Flag, FlagAll, FlagSupport
    <3>4. n = WithAll(c, row[k] \in {"yes", "true"})
      <4>1. WithAll(W(s.name, s.desc, on, off, <<>>), AllUpTo(s, k + 1))
              = W(s.name, s.desc, AllUpTo(s, k + 1), off, <<>>)
        BY SubOfEdits
      <4>2. n = WithAll(c, AllUpTo(s, k + 1))
        BY <2>2, <4>1
      <4>. QED
        BY <3>3, <4>2, Zenon
    <3>5. LastKey(row, k, "support_showtech_all")
      <4>1. HeadEnd(s) + 1 \in Nat /\ HeadEnd(s) + 1 > 0 /\ k = HeadEnd(s) + 1 + 1
        BY <1>1, <2>4
      <4>2. row[HeadEnd(s) + 1] = "support_showtech_all"
        BY <1>3, <1>13
      <4>. QED
        BY <4>1, <4>2, AfterItsKey
    <3>6. k > 1
      BY <1>1, <2>4
    <3>. QED
      BY <1>8, <3>2, <3>4, <3>5, <3>6 DEF Edits
  <2>. QED
    BY <1>13, <2>3, <2>4
<1>14. ASSUME s.feature # None, k \in {AllEnd(s) + 1, AllEnd(s) + 2}
       PROVE  Result
  <2>1. /\ AllUpTo(s, k) = FlagAll(s) /\ AllUpTo(s, k + 1) = FlagAll(s)
        /\ CmdsUpTo(s, k) = <<>> /\ CmdsUpTo(s, k + 1) = <<>>
        /\ SupportUpTo(s, k) = off
    <3>1. k > AllEnd(s) /\ k + 1 > AllEnd(s) /\ k <= FlagsEnd(s)
      BY <1>1, <1>9, <1>14
    <3>2. k <= FlagsEnd(s) + 2 /\ k + 1 <= FlagsEnd(s) + 2
      BY <1>1, <1>9, <3>1
    <3>. QED
      BY <1>6, <1>7, <1>9, <3>1, <3>2
  <2>2. /\ k > HeadEnd(s)
        /\ c = W(s.name, s.desc, FlagAll(s), off, <<>>)
        /\ n = W(s.name, s.desc, FlagAll(s), SupportUpTo(s, k + 1), <<>>)
    <3>1. k > HeadEnd(s)
      BY <1>1, <1>14
    <3>. QED
      BY <1>10, <1>12, <2>1, <3>1
  <2>3. CASE k = AllEnd(s) + 1
    <3>1. k + 1 <= FlagsEnd(s)
      BY <1>1, <1>14, <2>3
    <3>2. n = c
      BY <1>7, <1>9, <2>2, <3>1
    <3>. QED
      BY <1>3, <1>8, <1>12, <1>14, <2>2, <2>3, <3>2
  <2>4. CASE k = AllEnd(s) + 2
    <3>1. k + 1 > FlagsEnd(s)
      BY <1>1, <1>14, <2>4
    <3>2. row[k] = s.feature /\ s.feature \in Text
      BY <1>2, <1>3, <1>14, <2>4
    <3>3. SupportUpTo(s, k + 1) = (row[k] \in {"yes", "true"})
      BY <1>7, <1>9, <1>14, <3>1, <3>2 DEF Flag, FlagAll, FlagSupport
    <3>4. n = WithSupport(c, row[k] \in {"yes", "true"})
      <4>1. WithSupport(W(s.name, s.desc, FlagAll(s), off, <<>>), SupportUpTo(s, k + 1))
              = W(s.name, s.desc, FlagAll(s), SupportUpTo(s, k + 1), <<>>)
        BY SubOfEdits
      <4>2. n = WithSupport(c, SupportUpTo(s, k + 1))
        BY <2>2, <4>1
      <4>. QED
        BY <3>3, <4>2, Zenon
    <3>5. LastKey(row, k, "support_showtech_feature")
      <4>1. AllEnd(s) + 1 \in Nat /\ AllEnd(s) + 1 > 0 /\ k = AllEnd(s) + 1 + 1
        BY <1>1, <2>4
      <4>2. row[AllEnd(s) + 1] = "support_showtech_feature"
        BY <1>3, <1>14
      <4>. QED
        BY <4>1, <4>2, AfterItsKey
    <3>6. k > 1
      BY <1>1, <2>4
    <3>. QED
      BY <1>8, <3>2, <3>4, <3>5, <3>6 DEF Edits
  <2>. QED
    BY <1>14, <2>3, <2>4
\* After the flags they are there, too.
<1>15. ASSUME k > FlagsEnd(s)
       PROVE  /\ c = W(s.name, s.desc, FlagAll(s), FlagSupport(s), CmdsUpTo(s, k))
              /\ n = W(s.name, s.desc, FlagAll(s), FlagSupport(s),
                       CmdsUpTo(s, k + 1))
              /\ s.dummy \/ k > 1
  <2>1. /\ k > HeadEnd(s) /\ k > AllEnd(s) /\ k + 1 > AllEnd(s) /\ k + 1 > FlagsEnd(s)
    BY <1>1, <1>9, <1>15
  <2>. QED
    BY <1>7, <1>9, <1>10, <1>12, <1>15, <2>1
<1>16. ASSUME s.cmds # <<>>, k = FlagsEnd(s) + 1
       PROVE  Result
  <2>1. k > FlagsEnd(s) /\ k <= FlagsEnd(s) + 2 /\ k + 1 <= FlagsEnd(s) + 2
    BY <1>1, <1>16
  <2>2. n = c /\ (s.dummy \/ k > 1)
    BY <1>6, <1>9, <1>15, <2>1
  <2>. QED
    BY <1>3, <1>8, <1>16, <2>2
<1>17. ASSUME s.cmds # <<>>, NEW i \in 1..Len(s.cmds), k = FlagsEnd(s) + (1 + i)
       PROVE  Result
  <2>1. /\ k > FlagsEnd(s) /\ k = FlagsEnd(s) + 1 + i /\ k + 1 = FlagsEnd(s) + 2 + i
        /\ k > 1
    BY <1>1, <1>2, <1>17
  <2>2. row[k] = s.cmds[i] /\ s.cmds[i] \in Text
    BY <1>2, <1>3, <1>17
  <2>3. CmdsUpTo(s, k + 1) = Append(CmdsUpTo(s, k), row[k])
    BY <1>6, <2>1, <2>2
  <2>4. n = WithCmds(c, Append(c.cmds, row[k]))
    <3> DEFINE b == CmdsUpTo(s, k)
               a == Append(b, row[k])
    <3>1. /\ c = W(s.name, s.desc, FlagAll(s), FlagSupport(s), b)
          /\ n = W(s.name, s.desc, FlagAll(s), FlagSupport(s), a)
      BY <1>15, <2>1, <2>3
    <3>2. c.cmds = b
      <4>1. W(s.name, s.desc, FlagAll(s), FlagSupport(s), b).cmds = b
        BY DEF SubOf
      <4>. QED
        BY <3>1, <4>1
    <3>3. Append(c.cmds, row[k]) = a
      BY <3>2
    <3>. HIDE DEF a, b
    <3>4. n = WithCmds(c, a)
      <4>1. WithCmds(W(s.name, s.desc, FlagAll(s), FlagSupport(s), b), a)
              = W(s.name, s.desc, FlagAll(s), FlagSupport(s), a)
        BY SubOfEdits
      <4>. QED
        BY <3>1, <4>1
    <3>. QED
      BY <3>3, <3>4
  <2>5. LastKey(row, k, "cli_cmds")
    <3>1. FlagsEnd(s) + 1 \in 1..k - 1 /\ row[FlagsEnd(s) + 1] = "cli_cmds"
      BY <1>1, <1>2, <1>3, <1>17
    <3>2. ASSUME NEW l \in (FlagsEnd(s) + 1) + 1..k - 1
          PROVE  row[l] \notin Keys
      <4>1. l - FlagsEnd(s) - 1 \in 1..Len(s.cmds)
            /\ l = FlagsEnd(s) + (1 + (l - FlagsEnd(s) - 1))
        <5>1. FlagsEnd(s) \in Nat /\ Len(s.cmds) \in Nat /\ i \in 1..Len(s.cmds) /\ i \in Nat
          BY <1>1, <1>2
        <5>2. l \in FlagsEnd(s) + 2..FlagsEnd(s) + i
          BY <1>17, <5>1
        <5>. QED
          BY <5>1, <5>2
      <4>2. row[l] = s.cmds[l - FlagsEnd(s) - 1]
        BY <1>3, <1>17, <4>1
      <4>. QED
        BY <1>2, <1>8, <4>1, <4>2
    <3>. QED
      BY <3>1, <3>2 DEF LastKey
  <2>. QED
    BY <1>8, <2>1, <2>2, <2>4, <2>5 DEF Edits
<1>18. ASSUME s.tables # <<>>, k = CmdsEnd(s) + 1
       PROVE  Result
  <2>1. k > FlagsEnd(s) /\ k > CmdsEnd(s) /\ k + 1 > CmdsEnd(s)
    BY <1>1, <1>2, <1>18
  <2>2. n = c /\ (s.dummy \/ k > 1)
    BY <1>6, <1>9, <1>15, <2>1
  <2>. QED
    BY <1>3, <1>8, <1>18, <2>2
<1>19. Result
  BY <1>11, <1>13, <1>14, <1>16, <1>17, <1>18, SubRegions
<1>. QED
  BY <1>19 DEF row, c, n

\* The shape of a sub feature within its tables ...
LEMMA InTablesIs ==
  ASSUME NEW s, Proper(s), NEW t \in Nat, t > 0, NEW k \in Nat
  PROVE  SubUpTo(s, t, k) = SubOf(s.name, s.desc, s.dummy, FlagAll(s), FlagSupport(s), s.cmds,
                                  TablesUpTo(s, t, k))
  BY InTables DEF SubOf, FlagAll, FlagSupport

\* ... and when it is complete.
LEMMA SubMeaningIs ==
  ASSUME NEW s, Proper(s)
  PROVE  SubMeaning(s) = SubOf(s.name, s.desc, s.dummy, FlagAll(s), FlagSupport(s), s.cmds,
                               s.tables)
<1>1. s = [name |-> s.name, desc |-> s.desc, dummy |-> s.dummy, all |-> s.all,
           feature |-> s.feature, cmds |-> s.cmds, tables |-> s.tables]
  BY DEF Proper, FileSub
<1> DEFINE a == FlagAll(s)
           f == FlagSupport(s)
<1>2. SubMeaning(s) = [s EXCEPT !.all = a, !.feature = f]
  BY DEF SubMeaning, FlagAll, FlagSupport
<1>. HIDE DEF a, f
<1>3. SubMeaning(s) = SubOf(s.name, s.desc, s.dummy, a, f, s.cmds, s.tables)
  BY <1>1, <1>2 DEF SubOf
<1>. QED
  BY <1>3 DEF a, f

\* Each scalar of a table: table, another key, or a value that is stored as the
\* last key says.
LEMMA TableScalar ==
  ASSUME NEW s, Proper(s), NEW t \in 1..Len(s.tables),
         NEW k \in 1..Len(TableScalars(s.tables[t]))
  PROVE  LET row == TableScalars(s.tables[t])
             c   == SubUpTo(s, t, k)
             n   == SubUpTo(s, t, k + 1)
         IN  \/ k = 1 /\ row[k] = "table" /\ n = WithTables(c, Append(c.tables, NewTable))
             \/ k > 1 /\ row[k] \in OtherKeys /\ n = c
             \/ /\ k > 1 /\ row[k] \in Text
                /\ \E key \in {"table_name", "col_names"} :
                     LastKey(row, k, key) /\ Edits(c, n, row[k], key)
<1> DEFINE tab == s.tables[t]
           row == TableScalars(tab)
           W(tb) == SubOf(s.name, s.desc, s.dummy, FlagAll(s), FlagSupport(s), s.cmds, tb)
           c == SubUpTo(s, t, k)
           n == SubUpTo(s, t, k + 1)
<1>1. Len(s.tables) \in Nat /\ t \in Nat /\ t > 0 /\ tab \in FileTable
  BY SubFields, TablesUpToIs
<1>2. /\ Len(row) = 4 + Len(tab.cols) /\ Len(tab.cols) \in Nat
      /\ row[1] = "table" /\ row[2] = "table_name" /\ row[3] = tab.name
      /\ row[4] = "col_names"
      /\ \A i \in 1..Len(tab.cols) : row[4 + i] = tab.cols[i]
      /\ tab.name \in Text
      /\ \A i \in 1..Len(tab.cols) : tab.cols[i] \in Text
  <2>1. ASSUME NEW u \in FileTable
        PROVE  LET r == TableScalars(u)
               IN  /\ Len(r) = 4 + Len(u.cols) /\ Len(u.cols) \in Nat
                   /\ r[1] = "table" /\ r[2] = "table_name" /\ r[3] = u.name
                   /\ r[4] = "col_names"
                   /\ \A i \in 1..Len(u.cols) : r[4 + i] = u.cols[i]
                   /\ u.name \in Text
                   /\ \A i \in 1..Len(u.cols) : u.cols[i] \in Text
    <3>1. u.cols \in Seq(Text)
      BY TableRow
    <3>2. \A i \in 1..Len(u.cols) : u.cols[i] \in Text
      BY <3>1
    <3>. QED
      BY <3>2, TableRow
  <2>. QED
    BY <1>1, <2>1
<1>3. k \in Nat /\ k > 0 /\ k <= 4 + Len(tab.cols) /\ k + 1 \in Nat
  BY <1>2
<1>4. c = W(TablesUpTo(s, t, k)) /\ n = W(TablesUpTo(s, t, k + 1))
  BY <1>1, <1>3, InTablesIs
<1>5. /\ TablesUpTo(s, t, 2) = Append(TablesUpTo(s, t, 1), NewTable)
      /\ \A i \in Nat : i > 1 =>
           /\ Len(TablesUpTo(s, t, i)) = t
           /\ TablesUpTo(s, t, i)[t] = TableUpTo(tab, i)
           /\ TablesUpTo(s, t, i + 1)
                = [TablesUpTo(s, t, i) EXCEPT ![t] = TableUpTo(tab, i + 1)]
  BY <1>1, TablesUpToIs
<1>6. /\ TableUpTo(tab, 3) = TableUpTo(tab, 2)
      /\ TableUpTo(tab, 4) = [TableUpTo(tab, 3) EXCEPT !.name = tab.name]
      /\ TableUpTo(tab, 5) = TableUpTo(tab, 4)
      /\ \A i \in 1..Len(tab.cols) :
           TableUpTo(tab, 5 + i) = [TableUpTo(tab, 4 + i) EXCEPT !.cols = Append(@, tab.cols[i])]
  BY <1>1, TableUpToIs
<1>7. /\ "table_name" \in OtherKeys /\ "col_names" \in OtherKeys
      /\ \A x \in Text : x \notin Keys
  BY DEF OtherKeys, Keys, Text
<1>8. ASSUME NEW b PROVE W(b).tables = b
  BY DEF SubOf
<1>9. ASSUME NEW b, NEW x PROVE WithTables(W(b), x) = W(x)
  BY SubOfEdits
<1>. HIDE DEF tab, row, c, n, W
<1>10. c.tables = TablesUpTo(s, t, k)
  BY <1>4, <1>8
<1> DEFINE Result ==
             \/ k = 1 /\ row[k] = "table" /\ n = WithTables(c, Append(c.tables, NewTable))
             \/ k > 1 /\ row[k] \in OtherKeys /\ n = c
             \/ /\ k > 1 /\ row[k] \in Text
                /\ \E key \in {"table_name", "col_names"} :
                     LastKey(row, k, key) /\ Edits(c, n, row[k], key)
<1>11. ASSUME k = 1 PROVE Result
  <2>1. k + 1 = 2
    BY <1>11
  <2>2. n = W(Append(c.tables, NewTable))
    BY <1>4, <1>5, <1>10, <1>11, <2>1
  <2>3. n = WithTables(c, Append(c.tables, NewTable))
    BY <1>4, <1>9, <2>2
  <2>. QED
    BY <1>2, <1>11, <2>3
\* The last table with another content.
<1>12. ASSUME k > 1
       PROVE  /\ n = InTable(c, TableUpTo(tab, k + 1))
              /\ c.tables[Len(c.tables)] = TableUpTo(tab, k)
              /\ TableUpTo(tab, k + 1) = TableUpTo(tab, k) => n = c
  <2> DEFINE u == TablesUpTo(s, t, k)
             e == TableUpTo(tab, k + 1)
  <2>1. /\ Len(u) = t /\ u[t] = TableUpTo(tab, k)
        /\ TablesUpTo(s, t, k + 1) = [u EXCEPT ![t] = e]
    BY <1>3, <1>5, <1>12
  <2>2. c.tables = u
    BY <1>10
  <2>. HIDE DEF u, e
  <2>3. n = W([u EXCEPT ![t] = e]) /\ c = W(u)
    BY <1>4, <2>1 DEF u
  <2>4. InTable(c, e) = WithTables(c, [u EXCEPT ![t] = e])
    BY <2>1, <2>2 DEF InTable
  <2>5. n = InTable(c, e)
    BY <1>9, <2>3, <2>4
  <2>6. e = TableUpTo(tab, k) => n = c
    <3>. SUFFICES ASSUME e = TableUpTo(tab, k) PROVE n = c
      OBVIOUS
    <3>1. [u EXCEPT ![t] = u[t]] = u
      <4>1. u = [i \in DOMAIN u |-> u[i]]
        BY DEF u, TablesUpTo
      <4>. QED
        BY <4>1
    <3>2. e = u[t]
      BY <2>1
    <3>. QED
      BY <2>3, <3>1, <3>2
  <2>. QED
    BY <2>1, <2>2, <2>5, <2>6 DEF e
<1>13. ASSUME k = 2 PROVE Result
  <2>1. k > 1 /\ k + 1 = 3
    BY <1>13
  <2>2. n = c
    BY <1>6, <1>12, <1>13, <2>1
  <2>. QED
    BY <1>2, <1>7, <1>13, <2>1, <2>2
<1>14. ASSUME k = 3 PROVE Result
  <2>1. k > 1 /\ k + 1 = 4
    BY <1>14
  <2>2. n = InTable(c, [c.tables[Len(c.tables)] EXCEPT !.name = row[k]])
    BY <1>2, <1>6, <1>12, <1>14, <2>1
  <2>3. LastKey(row, k, "table_name")
    <3>1. LastKey(row, 2 + 1, "table_name")
      BY <1>2, AfterItsKey
    <3>. QED
      BY <1>14, <3>1
  <2>4. row[k] \in Text
    BY <1>2, <1>14
  <2>. QED
    BY <2>1, <2>2, <2>3, <2>4 DEF Edits
<1>15. ASSUME k = 4 PROVE Result
  <2>1. k > 1 /\ k + 1 = 5
    BY <1>15
  <2>2. n = c
    BY <1>6, <1>12, <1>15, <2>1
  <2>. QED
    BY <1>2, <1>7, <1>15, <2>1, <2>2
<1>16. ASSUME k > 4 PROVE Result
  <2> DEFINE i == k - 4
  <2>1. /\ i \in 1..Len(tab.cols) /\ k > 1 /\ k = 4 + i /\ k + 1 = 5 + i
    <3>1. k \in Nat /\ k <= 4 + Len(tab.cols) /\ k > 4
      BY <1>3, <1>16
    <3>2. Len(tab.cols) \in Nat
      BY <1>2
    <3>. QED
      BY <3>1, <3>2
  <2>. HIDE DEF i
  <2>2. row[k] = tab.cols[i] /\ row[k] \in Text
    BY <1>2, <2>1
  <2>3. TableUpTo(tab, k + 1) = [TableUpTo(tab, k) EXCEPT !.cols = Append(@, row[k])]
    BY <1>6, <2>1, <2>2
  <2>4. n = InTable(c, [c.tables[Len(c.tables)] EXCEPT !.cols = Append(@, row[k])])
    BY <1>12, <2>1, <2>3
  <2>5. LastKey(row, k, "col_names")
    <3>1. 4 \in 1..k - 1 /\ row[4] = "col_names"
      BY <1>2, <1>3, <1>16
    <3>2. ASSUME NEW l \in 4 + 1..k - 1 PROVE row[l] \notin Keys
      <4>1. l - 4 \in 1..Len(tab.cols) /\ l = 4 + (l - 4)
        BY <1>2, <1>3
      <4>. QED
        BY <1>2, <1>7, <4>1
    <3>. QED
      BY <3>1, <3>2 DEF LastKey
  <2>. QED
    BY <2>1, <2>2, <2>4, <2>5 DEF Edits
<1>17. Result
  BY <1>3, <1>11, <1>13, <1>14, <1>15, <1>16
<1>. QED
  BY <1>17 DEF tab, row, c, n

\* The end of what precedes the tables, and the ends of the tables.
LEMMA SubRollover ==
  ASSUME NEW s, Proper(s)
  PROVE  /\ s.tables = <<>> => SubUpTo(s, 0, Len(SubScalars(s)) + 1) = SubMeaning(s)
         /\ s.tables # <<>> => SubUpTo(s, 0, Len(SubScalars(s)) + 1) = SubUpTo(s, 1, 1)
         /\ \A t \in 1..Len(s.tables) :
              SubUpTo(s, t, Len(TableScalars(s.tables[t])) + 1)
                = IF t = Len(s.tables) THEN SubMeaning(s) ELSE SubUpTo(s, t + 1, 1)
<1> DEFINE W(tb) == SubOf(s.name, s.desc, s.dummy, FlagAll(s), FlagSupport(s), s.cmds, tb)
<1>1. SubMeaning(s) = W(s.tables)
  BY SubMeaningIs
<1>2. ASSUME NEW t \in Nat, t > 0, NEW k \in Nat PROVE SubUpTo(s, t, k) = W(TablesUpTo(s, t, k))
  BY <1>2, InTablesIs
<1>3. SubUpTo(s, 0, Len(SubScalars(s)) + 1) = W(<<>>)
  <2> DEFINE k == Len(SubScalars(s)) + 1
  <2>1. /\ k \in Nat /\ k > CmdsEnd(s)
    <3>1. /\ Len(SubScalars(s)) = CmdsEnd(s) + (IF s.tables = <<>> THEN 0 ELSE 1)
          /\ CmdsEnd(s) \in Nat
      BY SubRow, EndsCases
    <3>. QED
      BY <3>1
  <2>. HIDE DEF k
  <2>2. k > AllEnd(s) /\ k > FlagsEnd(s) /\ (~s.dummy => k > 3 /\ k > 5)
    BY <2>1, EndsCases
  <2>3. SubUpTo(s, 0, k) = SubOf(NameUpTo(s, k), DescUpTo(s, k), s.dummy, AllUpTo(s, k),
                                 SupportUpTo(s, k), CmdsUpTo(s, k), <<>>)
    BY <2>1, BeforeTables DEF SubOf
  <2>4. AllUpTo(s, k) = FlagAll(s) /\ SupportUpTo(s, k) = FlagSupport(s)
    BY <2>1, <2>2, FlagsUpTo DEF FlagAll, FlagSupport
  <2>5. CmdsUpTo(s, k) = s.cmds
    BY <2>1, CmdsUpToIs
  <2>6. NameUpTo(s, k) = s.name /\ DescUpTo(s, k) = s.desc
    BY <2>2, SubFields DEF NameUpTo, DescUpTo
  <2>7. SubUpTo(s, 0, k) = W(<<>>)
    BY <2>3, <2>4, <2>5, <2>6
  <2>. QED
    BY <2>7 DEF k
<1>4. s.tables \in Seq(FileTable) /\ Len(s.tables) \in Nat
  BY SubFields
<1>5. s.tables # <<>> => SubUpTo(s, 0, Len(SubScalars(s)) + 1) = SubUpTo(s, 1, 1)
  <2>. SUFFICES ASSUME s.tables # <<>> PROVE W(<<>>) = SubUpTo(s, 1, 1)
    BY <1>3
  <2>1. TablesUpTo(s, 1, 1) = <<>>
    <3>1. 1..(IF 1 > 1 THEN 1 ELSE 1 - 1) = {}
      OBVIOUS
    <3>. QED
      BY <3>1 DEF TablesUpTo
  <2>2. SubUpTo(s, 1, 1) = W(TablesUpTo(s, 1, 1))
    BY <1>2
  <2>. QED
    BY <2>1, <2>2
<1>6. ASSUME NEW t \in 1..Len(s.tables)
      PROVE  SubUpTo(s, t, Len(TableScalars(s.tables[t])) + 1)
               = IF t = Len(s.tables) THEN SubMeaning(s) ELSE SubUpTo(s, t + 1, 1)
  <2>1. /\ TablesUpTo(s, t, 5 + Len(s.tables[t].cols)) = TablesUpTo(s, t + 1, 1)
        /\ TablesUpTo(s, Len(s.tables) + 1, 1) = s.tables
        /\ s.tables[t] \in FileTable
    BY TablesUpToIs
  <2>2. Len(TableScalars(s.tables[t])) = 4 + Len(s.tables[t].cols) /\ Len(s.tables[t].cols) \in Nat
    BY <2>1, TableRow
  <2>3. Len(TableScalars(s.tables[t])) + 1 = 5 + Len(s.tables[t].cols)
    BY <2>2
  <2> DEFINE k == 5 + Len(s.tables[t].cols)
  <2>4. k \in Nat /\ t \in Nat /\ t > 0 /\ t + 1 \in Nat /\ t + 1 > 0
    BY <1>4, <2>2
  <2>. HIDE DEF k
  <2>5. SubUpTo(s, t, k) = W(TablesUpTo(s, t + 1, 1))
    BY <1>2, <2>1, <2>4 DEF k
  <2>6. SubUpTo(s, t + 1, 1) = W(TablesUpTo(s, t + 1, 1))
    BY <1>2, <2>4
  <2>7. t = Len(s.tables) => W(TablesUpTo(s, t + 1, 1)) = SubMeaning(s)
    BY <1>1, <2>1
  <2>. QED
    BY <2>3, <2>5, <2>6, <2>7 DEF k
<1>7. s.tables = <<>> => W(<<>>) = SubMeaning(s)
  BY <1>1
<1>. QED
  BY <1>3, <1>5, <1>6, <1>7

-----------------------------------------------------------------------------
(* When a sub feature is there.                                            *)

\* The second scalar of a dummy is a value.
LEMMA DummySecond ==
  ASSUME NEW s, Proper(s), s.dummy, 2 \in 1..Len(SubScalars(s))
  PROVE  SubScalars(s)[2] \in Text
<1> DEFINE row == SubScalars(s)
<1>1. /\ HeadEnd(s) = 0
      /\ s.all = None => AllEnd(s) = HeadEnd(s)
      /\ s.all # None => AllEnd(s) = HeadEnd(s) + 2
      /\ s.feature = None => FlagsEnd(s) = AllEnd(s)
      /\ s.feature # None => FlagsEnd(s) = AllEnd(s) + 2
      /\ s.cmds = <<>> => CmdsEnd(s) = FlagsEnd(s)
      /\ s.cmds # <<>> => CmdsEnd(s) = FlagsEnd(s) + 1 + Len(s.cmds)
      /\ Len(s.cmds) \in Nat
  BY EndsCases
<1>2. /\ s.all \in Text \cup {None} /\ s.feature \in Text \cup {None}
      /\ s.cmds \in Seq(Text)
      /\ \A i \in 1..Len(s.cmds) : s.cmds[i] \in Text
  BY SubFields
<1>3. /\ s.all # None => row[HeadEnd(s) + 2] = s.all
      /\ s.feature # None => row[AllEnd(s) + 2] = s.feature
      /\ s.cmds # <<>> => \A j \in 1..Len(s.cmds) : row[FlagsEnd(s) + (1 + j)] = s.cmds[j]
  BY SubRow
<1>4. s.cmds # <<>> => Len(s.cmds) # 0
  BY <1>2, EmptySeq
<1>5. \/ s.all # None /\ 2 \in {HeadEnd(s) + 1, HeadEnd(s) + 2}
      \/ s.feature # None /\ 2 \in {AllEnd(s) + 1, AllEnd(s) + 2}
      \/ s.cmds # <<>> /\ 2 = FlagsEnd(s) + 1
      \/ s.cmds # <<>> /\ \E i \in 1..Len(s.cmds) : 2 = FlagsEnd(s) + (1 + i)
      \/ s.tables # <<>> /\ 2 = CmdsEnd(s) + 1
  BY SubRegions
<1>. HIDE DEF row
<1>6. AllEnd(s) \in {0, 2} /\ FlagsEnd(s) \in {0, 2, 4}
  BY <1>1
<1>7. CmdsEnd(s) # 1
  BY <1>1, <1>4, <1>6
<1>8. ASSUME s.all # None PROVE row[2] \in Text
  BY <1>1, <1>2, <1>3, <1>8
<1>9. ASSUME s.feature # None, 2 \in {AllEnd(s) + 1, AllEnd(s) + 2}
      PROVE  row[2] \in Text
  <2>1. AllEnd(s) + 2 = 2
    BY <1>6, <1>9
  <2>. QED
    BY <1>2, <1>3, <1>9, <2>1
<1>10. ASSUME s.cmds # <<>>, NEW i \in 1..Len(s.cmds), 2 = FlagsEnd(s) + (1 + i)
       PROVE  row[2] \in Text
  BY <1>2, <1>3, <1>10
<1>11. ~(2 = FlagsEnd(s) + 1) /\ ~(2 = CmdsEnd(s) + 1)
  <2>1. CmdsEnd(s) \in Nat
    BY EndsCases
  <2>. QED
    BY <1>6, <1>7, <2>1
<1>12. row[2] \in Text
  BY <1>5, <1>8, <1>9, <1>10, <1>11
<1>. QED
  BY <1>12 DEF row

\* What a scalar does to the sub feature: begin it, nothing, or change it; what
\* is changed is there from then on.
LEMMA SubStep ==
  ASSUME NEW s, Proper(s), NEW t \in 0..Len(s.tables), NEW k \in Nat, k > 0, NEW row,
         row = IF t = 0 THEN SubScalars(s) ELSE TableScalars(s.tables[t]),
         k <= Len(row)
  PROVE  LET c == SubUpTo(s, t, k)
             n == SubUpTo(s, t, k + 1)
         IN  \/ /\ row[k] = "sub_feature" /\ n = NewSub(FALSE)
                /\ ~IsMade(s, t, k) /\ IsMade(s, t, k + 1)
             \/ /\ row[k] \in OtherKeys /\ n = c
                /\ (IsMade(s, t, k + 1) <=> IsMade(s, t, k))
             \/ /\ IsMade(s, t, k + 1) /\ (s.dummy \/ IsMade(s, t, k))
                /\ \/ row[k] = "table" /\ n = WithTables(c, Append(c.tables, NewTable))
                   \/ /\ row[k] \in Text
                      /\ \E key \in Keys : LastKey(row, k, key) /\ Edits(c, n, row[k], key)
<1>1. Len(s.tables) \in Nat /\ t \in Nat /\ s.dummy \in BOOLEAN
  BY SubFields
<1>2. \A x \in Text : x \notin Keys
  BY DEF Text
<1>3. CASE t = 0
  <2>1. row = SubScalars(s) /\ k \in 1..Len(row)
    <3>1. row = SubScalars(s)
      BY <1>3
    <3>2. Len(row) \in Nat
      <4>1. row \in Seq(Word)
        BY <3>1, SubRow
      <4>. QED
        BY <4>1
    <3>. QED
      BY <3>1, <3>2
  <2>2. \/ ~s.dummy /\ k = 1 /\ row[k] = "sub_feature" /\ SubUpTo(s, t, k + 1) = NewSub(FALSE)
        \/ /\ row[k] \in OtherKeys /\ SubUpTo(s, t, k + 1) = SubUpTo(s, t, k)
           /\ s.dummy \/ k > 1
        \/ /\ row[k] \in Text /\ k > 1
           /\ \E key \in Keys : /\ LastKey(row, k, key)
                                /\ Edits(SubUpTo(s, t, k), SubUpTo(s, t, k + 1), row[k], key)
    BY <1>3, <2>1, SubScalar
  <2>3. /\ ~s.dummy => /\ (IsMade(s, t, k) <=> k > 1)
                       /\ (IsMade(s, t, k + 1) <=> k + 1 > 1)
        /\ s.dummy => /\ (IsMade(s, t, k) <=> k > 2)
                      /\ (IsMade(s, t, k + 1) <=> k + 1 > 2)
    <3>1. ~(t > 0)
      BY <1>3
    <3>. QED
      BY <1>3, <3>1 DEF IsMade
  <2>4. ASSUME ~s.dummy, k = 1
        PROVE  ~IsMade(s, t, k) /\ IsMade(s, t, k + 1)
    <3>1. ~(k > 1) /\ k + 1 > 1
      BY <2>4
    <3>. QED
      BY <2>3, <2>4, <3>1
  <2>5. ASSUME row[k] \in OtherKeys, s.dummy \/ k > 1
        PROVE  (IsMade(s, t, k + 1) <=> IsMade(s, t, k))
    <3>1. CASE ~s.dummy
      <4>1. k > 1 /\ k + 1 > 1
        BY <2>5, <3>1
      <4>. QED
        BY <2>3, <3>1, <4>1
    <3>2. CASE s.dummy
      <4>1. k # 2
        <5>1. k = 2 => row[k] \in Text
          BY <2>1, <3>2, DummySecond
        <5>. QED
          BY <1>2, <2>5, <5>1 DEF OtherKeys
      <4>2. (k > 2) <=> (k + 1 > 2)
        BY <4>1
      <4>. QED
        BY <2>3, <3>2, <4>2
    <3>. QED
      BY <3>1, <3>2
  <2>6. ASSUME k > 1
        PROVE  IsMade(s, t, k + 1) /\ (s.dummy \/ IsMade(s, t, k))
    <3>1. k + 1 > 2 /\ k + 1 > 1
      BY <2>6
    <3>. QED
      BY <1>1, <2>3, <2>6, <3>1
  <2>. QED
    BY <2>2, <2>4, <2>5, <2>6
<1>4. CASE t # 0
  <2>1. /\ row = TableScalars(s.tables[t]) /\ t \in 1..Len(s.tables) /\ t > 0
    BY <1>1, <1>4
  <2>2. k \in 1..Len(row)
    <3>1. s.tables[t] \in FileTable
      BY <2>1, TablesUpToIs
    <3>2. row \in Seq(Word)
      BY <2>1, <3>1, TableRow
    <3>. QED
      BY <3>2
  <2>3. \/ /\ k = 1 /\ row[k] = "table"
           /\ SubUpTo(s, t, k + 1)
                = WithTables(SubUpTo(s, t, k), Append(SubUpTo(s, t, k).tables, NewTable))
        \/ k > 1 /\ row[k] \in OtherKeys /\ SubUpTo(s, t, k + 1) = SubUpTo(s, t, k)
        \/ /\ k > 1 /\ row[k] \in Text
           /\ \E key \in {"table_name", "col_names"} :
                /\ LastKey(row, k, key)
                /\ Edits(SubUpTo(s, t, k), SubUpTo(s, t, k + 1), row[k], key)
    BY <2>1, <2>2, TableScalar
  <2>4. IsMade(s, t, k + 1) /\ (k > 1 => IsMade(s, t, k)) /\ (s.dummy \/ IsMade(s, t, k))
    <3>1. k + 1 > 1
      OBVIOUS
    <3>. QED
      BY <1>1, <2>1, <3>1 DEF IsMade
  <2>5. "table_name" \in Keys /\ "col_names" \in Keys
    BY DEF Keys
  <2>6. ASSUME k > 1 PROVE (IsMade(s, t, k + 1) <=> IsMade(s, t, k))
    BY <2>1, <2>6 DEF IsMade
  <2>. QED
    BY <2>3, <2>4, <2>5, <2>6
<1>. QED
  BY <1>3, <1>4

\* Before a dummy is made it is as new.
LEMMA NotMade ==
  ASSUME NEW s, Proper(s), s.dummy, NEW t \in 0..Len(s.tables), NEW k \in Nat, k > 0,
         ~IsMade(s, t, k)
  PROVE  SubUpTo(s, t, k) = NewSub(TRUE)
<1> DEFINE on  == TRUE
           off == FALSE
<1>1. Len(s.tables) \in Nat /\ t \in Nat
  BY SubFields
<1>2. ASSUME NEW i \in Nat, i > 0, i <= 2
      PROVE  SubUpTo(s, 0, i) = NewSub(TRUE)
  <2>1. SubUpTo(s, 0, i) = SubOf(NameUpTo(s, i), DescUpTo(s, i), s.dummy, AllUpTo(s, i),
                                 SupportUpTo(s, i), CmdsUpTo(s, i), <<>>)
    BY BeforeTables DEF SubOf
  <2>2. NameUpTo(s, i) = None /\ DescUpTo(s, i) = None
    BY SubFields DEF NameUpTo, DescUpTo
  <2>3. /\ s.all = None \/ i <= AllEnd(s)
        /\ s.feature = None \/ i <= FlagsEnd(s)
        /\ i <= FlagsEnd(s) + 2
    BY <1>2, EndsCases
  <2>4. AllUpTo(s, i) = on /\ SupportUpTo(s, i) = off
    BY <2>3, FlagsUpTo
  <2>5. CmdsUpTo(s, i) = <<>>
    BY <2>3, CmdsUpToIs
  <2>6. s.dummy = on
    BY SubFields
  <2>. HIDE DEF on, off
  <2>7. SubUpTo(s, 0, i) = SubOf(None, None, on, on, off, <<>>, <<>>)
    BY <2>1, <2>2, <2>4, <2>5, <2>6
  <2>. QED
    BY <2>7 DEF SubOf, NewSub, on, off
<1>3. CASE t = 0
  <2>1. k <= 2
    BY <1>3 DEF IsMade
  <2>. QED
    BY <1>2, <1>3, <2>1
<1>4. CASE t # 0
  <2>1. t > 0
    BY <1>1, <1>4
  <2>2. ~(t > 1) /\ ~(k > 1) /\ ~(Len(SubScalars(s)) > 1)
    BY <2>1 DEF IsMade
  <2>3. t = 1 /\ k = 1
    BY <1>1, <2>1, <2>2
  <2>4. Len(s.tables) # 0 /\ s.tables # <<>>
    <3>1. Len(<<>>) = 0
      OBVIOUS
    <3>. QED
      BY <1>1, <2>1, <3>1
  <2>5. SubUpTo(s, 0, Len(SubScalars(s)) + 1) = SubUpTo(s, 1, 1)
    BY <2>4, SubRollover
  <2>6. Len(SubScalars(s)) \in Nat
    <3>1. SubScalars(s) \in Seq(Word)
      BY SubRow
    <3>. QED
      BY <3>1
  <2>7. Len(SubScalars(s)) + 1 \in Nat /\ Len(SubScalars(s)) + 1 > 0 /\ Len(SubScalars(s)) + 1 <= 2
    BY <2>2, <2>6
  <2>8. SubUpTo(s, 0, Len(SubScalars(s)) + 1) = NewSub(TRUE)
    BY <1>2, <2>7
  <2>. QED
    BY <2>3, <2>5, <2>8
<1>. QED
  BY <1>3, <1>4

\* From one row to the next a sub feature stays, or stays away, and in the end it
\* is there.
LEMMA MadeRollover ==
  ASSUME NEW s, Proper(s), SubScalars(s) # <<>>
  PROVE  /\ s.tables = <<>> => IsMade(s, 0, Len(SubScalars(s)) + 1)
         /\ s.tables # <<>> =>
              (IsMade(s, 0, Len(SubScalars(s)) + 1) <=> IsMade(s, 1, 1))
         /\ \A t \in 1..Len(s.tables) : /\ IsMade(s, t, Len(TableScalars(s.tables[t])) + 1)
                                        /\ IsMade(s, t + 1, 1)
         /\ ~IsMade(s, 0, 1)
<1>1. /\ Len(SubScalars(s)) \in Nat /\ Len(SubScalars(s)) > 0
      /\ s.tables = <<>> => Len(SubScalars(s)) = CmdsEnd(s)
      /\ Len(s.tables) \in Nat
  <2>1. /\ SubScalars(s) \in Seq(Word)
        /\ Len(SubScalars(s)) = CmdsEnd(s) + (IF s.tables = <<>> THEN 0 ELSE 1)
        /\ CmdsEnd(s) \in Nat
    BY SubRow, EndsCases
  <2>2. Len(SubScalars(s)) \in Nat /\ Len(SubScalars(s)) # 0
    BY <2>1, EmptySeq
  <2>. QED
    BY <2>1, <2>2, SubFields
<1>2. s.dummy => CmdsEnd(s) # 1
  <2>1. s.cmds # <<>> => Len(s.cmds) # 0
    BY SubFields, EmptySeq
  <2>. QED
    BY <2>1, EndsCases
<1>3. ASSUME s.tables = <<>> PROVE IsMade(s, 0, Len(SubScalars(s)) + 1)
  <2>1. s.dummy => Len(SubScalars(s)) + 1 > 2
    BY <1>1, <1>2, <1>3
  <2>2. Len(SubScalars(s)) + 1 > 1
    BY <1>1
  <2>. QED
    BY <2>1, <2>2 DEF IsMade
<1>4. (IsMade(s, 0, Len(SubScalars(s)) + 1) <=> IsMade(s, 1, 1))
  <2>1. (Len(SubScalars(s)) + 1 > 2) <=> (Len(SubScalars(s)) > 1)
    BY <1>1
  <2>2. Len(SubScalars(s)) + 1 > 1
    BY <1>1
  <2>. QED
    BY <2>1, <2>2 DEF IsMade
<1>5. ASSUME NEW t \in 1..Len(s.tables)
      PROVE  IsMade(s, t, Len(TableScalars(s.tables[t])) + 1) /\ IsMade(s, t + 1, 1)
  <2>1. t \in Nat /\ t > 0 /\ t + 1 > 1 /\ t + 1 > 0
    BY <1>1
  <2>2. s.tables[t] \in FileTable
    BY TablesUpToIs
  <2>3. Len(TableScalars(s.tables[t])) + 1 > 1
    <3>1. /\ Len(TableScalars(s.tables[t])) = 4 + Len(s.tables[t].cols)
          /\ Len(s.tables[t].cols) \in Nat
      BY <2>2, TableRow
    <3>. QED
      BY <3>1
  <2>. QED
    BY <2>1, <2>3 DEF IsMade
<1>6. ~IsMade(s, 0, 1)
  BY DEF IsMade
<1>. QED
  BY <1>3, <1>4, <1>5, <1>6

-----------------------------------------------------------------------------
(* What is stored of a feature, as a function of the place.                *)

\* A feature, attribute by attribute; its sub features before the sub feature j, and
\* with e in the place of that.
FeatureOf(nm, ds, sb) == [name |-> nm, desc |-> ds, subs |-> sb]
Without(F, j) == [i \in 1..j - 1 |-> SubMeaning(F.subs[i])]
With(F, j, e) == [i \in 1..j |-> IF i < j THEN SubMeaning(F.subs[i]) ELSE e]

\* Another sub feature after those ...
LEMMA WithAppend ==
  \A F, e : \A j \in Nat : j > 0 => Append(Without(F, j), e) = With(F, j, e)
<1>. SUFFICES ASSUME NEW F, NEW e, NEW j \in Nat, j > 0
             PROVE  Append(Without(F, j), e) = With(F, j, e)
  OBVIOUS
<1> DEFINE f == Without(F, j)
<1>1. j - 1 \in Nat /\ f = [i \in 1..j - 1 |-> f[i]] /\ j - 1 + 1 = j
  BY DEF Without
<1>2. \A i \in 1..j - 1 : f[i] = SubMeaning(F.subs[i])
  BY DEF Without
<1>. HIDE DEF f
<1>3. Append(f, e) = [i \in 1..j - 1 + 1 |-> IF i <= j - 1 THEN f[i] ELSE e]
  BY <1>1, AppendIs
<1>4. \A i \in 1..j : (IF i <= j - 1 THEN f[i] ELSE e) = IF i < j THEN SubMeaning(F.subs[i]) ELSE e
  <2>1. \A i \in 1..j : (i <= j - 1) <=> (i < j)
    OBVIOUS
  <2>2. \A i \in 1..j : i < j => i \in 1..j - 1
    OBVIOUS
  <2>. QED
    BY <1>2, <2>1, <2>2
<1>5. Append(f, e) = With(F, j, e)
  BY <1>1, <1>3, <1>4 DEF With
<1>. QED
  BY <1>5 DEF f

\* ... is the last one ...
LEMMA WithLen ==
  \A F, e : \A j \in Nat : j > 0 => /\ Len(With(F, j, e)) = j /\ With(F, j, e) # <<>>
                                    /\ With(F, j, e)[j] = e
<1>. SUFFICES ASSUME NEW F, NEW e, NEW j \in Nat, j > 0
             PROVE  Len(With(F, j, e)) = j /\ With(F, j, e) # <<>> /\ With(F, j, e)[j] = e
  OBVIOUS
<1>1. j \in 1..j /\ ~(j < j)
  OBVIOUS
<1>2. DOMAIN With(F, j, e) = 1..j
  BY DEF With
<1>3. DOMAIN <<>> = {}
  OBVIOUS
<1>4. With(F, j, e)[j] = e
  BY <1>1 DEF With
<1>5. Len(With(F, j, e)) = j
  BY <1>2
<1>. QED
  BY <1>1, <1>2, <1>3, <1>4, <1>5

\* ... and can be replaced.
LEMMA WithReplace ==
  \A F, d, e : \A j \in Nat : j > 0 => [With(F, j, d) EXCEPT ![j] = e] = With(F, j, e)
<1>. SUFFICES ASSUME NEW F, NEW d, NEW e, NEW j \in Nat, j > 0
             PROVE  [With(F, j, d) EXCEPT ![j] = e] = With(F, j, e)
  OBVIOUS
<1> DEFINE f == With(F, j, d)
<1>1. f = [i \in 1..j |-> f[i]] /\ \A i \in 1..j : i < j => f[i] = SubMeaning(F.subs[i])
  BY DEF With
<1>. HIDE DEF f
<1>2. [f EXCEPT ![j] = e] = [i \in 1..j |-> IF i < j THEN f[i] ELSE e]
  BY <1>1, ReplaceIs
<1>3. With(F, j, e) = [i \in 1..j |-> IF i < j THEN f[i] ELSE e]
  BY <1>1 DEF With
<1>. QED
  BY <1>2, <1>3 DEF f

\* The whole sub feature j is one of those before j + 1, and none is before 1.
LEMMA WithIs ==
  ASSUME NEW F, NEW j \in Nat, j > 0
  PROVE  /\ With(F, j, SubMeaning(F.subs[j])) = Without(F, j + 1)
         /\ Len(Without(F, j)) = j - 1
         /\ Without(F, 1) = <<>>
<1>1. With(F, j, SubMeaning(F.subs[j])) = Without(F, j + 1)
  <2>1. j + 1 - 1 = j /\ \A i \in 1..j : ~(i < j) => i = j
    OBVIOUS
  <2>2. Without(F, j + 1) = [i \in 1..j |-> SubMeaning(F.subs[i])]
    BY <2>1 DEF Without
  <2>. QED
    BY <2>1, <2>2 DEF With
<1>2. Len(Without(F, j)) = j - 1
  <2>1. j - 1 \in Nat /\ DOMAIN Without(F, j) = 1..j - 1
    BY DEF Without
  <2>. QED
    BY <2>1
<1>3. Without(F, 1) = <<>>
  <2>1. 1..1 - 1 = {}
    OBVIOUS
  <2>. QED
    BY <2>1 DEF Without
<1>. QED
  BY <1>1, <1>2, <1>3

\* Within a sub feature and in the heading.
LEMMA FeatureUpToIs ==
  ASSUME NEW F
  PROVE  /\ \A j \in Nat : \A t, k : j > 0 =>
              /\ IsMade(F.subs[j], t, k) =>
                   FeatureUpTo(F, j, t, k)
                     = FeatureOf(F.name, F.desc, With(F, j, SubUpTo(F.subs[j], t, k)))
              /\ ~IsMade(F.subs[j], t, k) =>
                   FeatureUpTo(F, j, t, k) = FeatureOf(F.name, F.desc, Without(F, j))
         /\ \A t, k : FeatureUpTo(F, 0, t, k)
                        = FeatureOf(IF k > 5 THEN F.name ELSE None,
                                    IF k > 3 THEN F.desc ELSE None, <<>>)
<1>1. ASSUME NEW j \in Nat, NEW t, NEW k, j > 0, IsMade(F.subs[j], t, k)
      PROVE  FeatureUpTo(F, j, t, k)
               = FeatureOf(F.name, F.desc, With(F, j, SubUpTo(F.subs[j], t, k)))
  <2>1. \A i \in 1..j : ~(i < j) => i = j
    OBVIOUS
  <2> DEFINE e == SubUpTo(F.subs[j], t, k)
  <2>2. FeatureUpTo(F, j, t, k)
          = [name |-> F.name, desc |-> F.desc,
             subs |-> [i \in 1..j |-> IF i < j THEN SubMeaning(F.subs[i])
                                      ELSE SubUpTo(F.subs[i], t, k)]]
    BY <1>1 DEF FeatureUpTo
  <2>3. [i \in 1..j |-> IF i < j THEN SubMeaning(F.subs[i]) ELSE SubUpTo(F.subs[i], t, k)]
          = With(F, j, e)
    BY <2>1 DEF With
  <2>. QED
    BY <2>2, <2>3 DEF FeatureOf
<1>2. ASSUME NEW j \in Nat, NEW t, NEW k, j > 0, ~IsMade(F.subs[j], t, k)
      PROVE  FeatureUpTo(F, j, t, k) = FeatureOf(F.name, F.desc, Without(F, j))
  <2>1. \A i \in 1..j - 1 : i < j
    OBVIOUS
  <2>2. FeatureUpTo(F, j, t, k)
          = [name |-> F.name, desc |-> F.desc,
             subs |-> [i \in 1..j - 1 |-> IF i < j THEN SubMeaning(F.subs[i])
                                          ELSE SubUpTo(F.subs[i], t, k)]]
    BY <1>2 DEF FeatureUpTo
  <2>3. [i \in 1..j - 1 |-> IF i < j THEN SubMeaning(F.subs[i]) ELSE SubUpTo(F.subs[i], t, k)]
          = Without(F, j)
    BY <2>1 DEF Without
  <2>. QED
    BY <2>2, <2>3 DEF FeatureOf
<1>3. ASSUME NEW t, NEW k
      PROVE  FeatureUpTo(F, 0, t, k) = FeatureOf(IF k > 5 THEN F.name ELSE None,
                                                 IF k > 3 THEN F.desc ELSE None, <<>>)
  <2>1. ~(0 > 0) /\ 1..0 - 1 = {}
    OBVIOUS
  <2>2. [i \in 1..(IF 0 > 0 /\ IsMade(F.subs[0], t, k) THEN 0 ELSE 0 - 1) |->
           IF i < 0 THEN SubMeaning(F.subs[i]) ELSE SubUpTo(F.subs[i], t, k)] = <<>>
    BY <2>1
  <2>. QED
    BY <2>1, <2>2 DEF FeatureUpTo, FeatureOf
<1>. QED
  BY <1>1, <1>2, <1>3

\* All of a feature.
LEMMA FeatureMeaningIs ==
  ASSUME NEW F \in FileFeature
  PROVE  FeatureMeaning(F) = FeatureOf(F.name, F.desc, Without(F, Len(F.subs) + 1))
<1>1. /\ F = [name |-> F.name, desc |-> F.desc, subs |-> F.subs]
      /\ F.subs \in Seq(FileSub) /\ Len(F.subs) \in Nat
  BY DEF FileFeature
<1>2. [j \in DOMAIN F.subs |-> SubMeaning(F.subs[j])] = Without(F, Len(F.subs) + 1)
  <2>1. DOMAIN F.subs = 1..Len(F.subs) /\ Len(F.subs) + 1 - 1 = Len(F.subs)
    BY <1>1
  <2>. QED
    BY <2>1 DEF Without
<1> DEFINE m == [j \in DOMAIN F.subs |-> SubMeaning(F.subs[j])]
<1>3. FeatureMeaning(F) = [F EXCEPT !.subs = m]
  BY DEF FeatureMeaning
<1>. HIDE DEF m
<1>4. FeatureMeaning(F) = FeatureOf(F.name, F.desc, m)
  BY <1>1, <1>3 DEF FeatureOf
<1>. QED
  BY <1>2, <1>4 DEF m

\* The sub features of a feature.
LEMMA FeatureOfSubs == \A nm, ds, sb : FeatureOf(nm, ds, sb).subs = sb
  BY DEF FeatureOf

\* Its name or its description replaced, ...
LEMMA FeatureOfTexts ==
  \A nm, ds, sb, e : /\ [FeatureOf(nm, ds, sb) EXCEPT !.name = e] = FeatureOf(e, ds, sb)
                     /\ [FeatureOf(nm, ds, sb) EXCEPT !.desc = e] = FeatureOf(nm, e, sb)
  BY DEF FeatureOf

\* ... one of its sub features replaced ...
LEMMA FeatureOfReplace ==
  \A nm, ds, sb, j, e : [FeatureOf(nm, ds, sb) EXCEPT !.subs[j] = e]
                          = FeatureOf(nm, ds, [sb EXCEPT ![j] = e])
  BY DEF FeatureOf

\* ... and a sub feature more.
LEMMA FeatureOfMore ==
  ASSUME NEW nm, NEW ds, NEW sb, NEW e
  PROVE  WithSub(FeatureOf(nm, ds, sb), e) = FeatureOf(nm, ds, Append(sb, e))
<1> DEFINE f == FeatureOf(nm, ds, sb)
           a == Append(sb, e)
<1>1. f.subs = sb /\ f = [name |-> nm, desc |-> ds, subs |-> sb]
  BY DEF FeatureOf
<1>2. WithSub(f, e) = [f EXCEPT !.subs = a]
  BY <1>1 DEF WithSub
<1>. HIDE DEF a, f
<1>3. [f EXCEPT !.subs = a] = FeatureOf(nm, ds, a)
  BY <1>1 DEF FeatureOf
<1>. QED
  BY <1>2, <1>3 DEF a, f

\* The end of the heading of a feature.
LEMMA HeadingEnd ==
  ASSUME NEW d \in Files, NEW f \in 1..Len(d.doc)
  PROVE  LET F == d.doc[f]
         IN  /\ Len(F.subs) > 0 => FeatureUpTo(F, 0, 0, 6) = FeatureUpTo(F, 1, 0, 1)
             /\ Len(F.subs) = 0 => FeatureUpTo(F, 0, 0, 6) = FeatureMeaning(F)
<1> DEFINE F == d.doc[f]
<1>1. F \in FileFeature /\ Len(F.subs) \in Nat
  BY DocType, SubsType
<1>2. \A j \in 1..Len(F.subs) : Proper(F.subs[j])
  BY SubsType
<1>. HIDE DEF F
<1>3. FeatureUpTo(F, 0, 0, 6) = FeatureOf(F.name, F.desc, <<>>)
  <2>1. FeatureUpTo(F, 0, 0, 6) = FeatureOf(IF 6 > 5 THEN F.name ELSE None,
                                            IF 6 > 3 THEN F.desc ELSE None, <<>>)
    BY FeatureUpToIs
  <2>2. 6 > 5 /\ 6 > 3
    OBVIOUS
  <2>. QED
    BY <2>1, <2>2
<1>4. Without(F, 1) = <<>>
  BY WithIs
<1>5. ASSUME Len(F.subs) > 0 PROVE FeatureUpTo(F, 0, 0, 6) = FeatureUpTo(F, 1, 0, 1)
  <2>1. ~IsMade(F.subs[1], 0, 1)
    BY DEF IsMade
  <2>2. FeatureUpTo(F, 1, 0, 1) = FeatureOf(F.name, F.desc, Without(F, 1))
    BY <2>1, FeatureUpToIs
  <2>. QED
    BY <1>3, <1>4, <2>2
<1>6. ASSUME Len(F.subs) = 0 PROVE FeatureUpTo(F, 0, 0, 6) = FeatureMeaning(F)
  <2>1. FeatureMeaning(F) = FeatureOf(F.name, F.desc, Without(F, 0 + 1))
    BY <1>1, <1>6, FeatureMeaningIs
  <2>. QED
    BY <1>3, <1>4, <2>1
<1>. QED
  BY <1>5, <1>6 DEF F

\* A row of a sub feature. What is stored where it ends is what is stored where the
\* next one starts: a table, a sub feature or the next feature.
RowOf(s, t) == IF t = 0 THEN SubScalars(s) ELSE TableScalars(s.tables[t])

EndsSub(F, j, s, t) ==
  /\ t < Len(s.tables) =>
       FeatureUpTo(F, j, t, Len(RowOf(s, t)) + 1) = FeatureUpTo(F, j, t + 1, 1)
  /\ t = Len(s.tables) /\ j < Len(F.subs) =>
       FeatureUpTo(F, j, t, Len(RowOf(s, t)) + 1) = FeatureUpTo(F, j + 1, 0, 1)
  /\ t = Len(s.tables) /\ j = Len(F.subs) =>
       FeatureUpTo(F, j, t, Len(RowOf(s, t)) + 1) = FeatureMeaning(F)

\* It is so for every row of every sub feature.
LEMMA SubEnd ==
  ASSUME NEW d \in Files, NEW f \in 1..Len(d.doc), NEW j \in 1..Len(d.doc[f].subs),
         NEW t \in 0..Len(d.doc[f].subs[j].tables)
  PROVE  EndsSub(d.doc[f], j, d.doc[f].subs[j], t)
<1> DEFINE F == d.doc[f]
           s == F.subs[j]
           row == RowOf(s, t)
           T == Len(s.tables)
           n == Len(row) + 1
<1>1. F \in FileFeature /\ Len(F.subs) \in Nat /\ Proper(s)
  BY DocType, SubsType
<1>2. SubScalars(s) # <<>>
  <2>1. Len(SubScalars(s)) \in Nat \ {0}
    BY SubRowLength
  <2>2. Len(<<>>) = 0
    OBVIOUS
  <2>. QED
    BY <2>1, <2>2
<1>. HIDE DEF F, s, row
<1>3. /\ j \in Nat /\ j > 0 /\ T \in Nat /\ t \in Nat
      /\ s.tables = <<>> => T = 0
      /\ s.tables # <<>> => T > 0
  <2>1. s.tables \in Seq(FileTable) /\ Len(s.tables) \in Nat
    BY <1>1, SubFields
  <2>2. s.tables # <<>> => Len(s.tables) # 0
    BY <2>1, EmptySeq
  <2>3. Len(<<>>) = 0
    OBVIOUS
  <2>. QED
    BY <1>1, <2>1, <2>2, <2>3 DEF F, s
<1>4. /\ s.tables = <<>> => IsMade(s, 0, Len(SubScalars(s)) + 1)
      /\ s.tables # <<>> =>
           (IsMade(s, 0, Len(SubScalars(s)) + 1) <=> IsMade(s, 1, 1))
      /\ \A i \in 1..T : /\ IsMade(s, i, Len(TableScalars(s.tables[i])) + 1)
                         /\ IsMade(s, i + 1, 1)
  BY <1>1, <1>2, MadeRollover
<1>5. /\ s.tables = <<>> => SubUpTo(s, 0, Len(SubScalars(s)) + 1) = SubMeaning(s)
      /\ s.tables # <<>> => SubUpTo(s, 0, Len(SubScalars(s)) + 1) = SubUpTo(s, 1, 1)
      /\ \A i \in 1..T :
           SubUpTo(s, i, Len(TableScalars(s.tables[i])) + 1)
             = IF i = T THEN SubMeaning(s) ELSE SubUpTo(s, i + 1, 1)
  BY <1>1, SubRollover
<1>6. /\ t < T => /\ SubUpTo(s, t, n) = SubUpTo(s, t + 1, 1)
                  /\ IsMade(s, t, n) <=> IsMade(s, t + 1, 1)
      /\ t = T => SubUpTo(s, t, n) = SubMeaning(s) /\ IsMade(s, t, n)
  <2>1. CASE t = 0
    <3>1. row = SubScalars(s)
      BY <2>1 DEF row, RowOf
    <3>2. t < T => s.tables # <<>>
      BY <1>3, <2>1
    <3>3. t = T => s.tables = <<>>
      BY <1>3, <2>1
    <3>. QED
      BY <1>4, <1>5, <2>1, <3>1, <3>2, <3>3
  <2>2. CASE t # 0
    <3>1. row = TableScalars(s.tables[t]) /\ t \in 1..T
      BY <1>3, <2>2 DEF row, RowOf, s, F
    <3>2. t < T => t # T
      BY <1>3
    <3>. QED
      BY <1>4, <1>5, <3>1, <3>2
  <2>. QED
    BY <2>1, <2>2
<1> DEFINE U(i, x, y) == FeatureUpTo(F, i, x, y)
<1>7. /\ \A x, y : IsMade(s, x, y) =>
           U(j, x, y) = FeatureOf(F.name, F.desc, With(F, j, SubUpTo(s, x, y)))
      /\ \A x, y : ~IsMade(s, x, y) => U(j, x, y) = FeatureOf(F.name, F.desc, Without(F, j))
  BY <1>3, FeatureUpToIs DEF s
<1>8. ASSUME t < T PROVE U(j, t, n) = U(j, t + 1, 1)
  <2>. HIDE DEF U, n, T
  <2>1. CASE IsMade(s, t, n)
    BY <1>6, <1>7, <1>8, <2>1
  <2>2. CASE ~IsMade(s, t, n)
    BY <1>6, <1>7, <1>8, <2>2
  <2>. QED
    BY <2>1, <2>2
<1>9. ASSUME t = T PROVE U(j, t, n) = FeatureOf(F.name, F.desc, Without(F, j + 1))
  <2>1. U(j, t, n) = FeatureOf(F.name, F.desc, With(F, j, SubMeaning(s)))
    BY <1>6, <1>7, <1>9
  <2>2. With(F, j, SubMeaning(s)) = Without(F, j + 1)
    BY <1>3, WithIs DEF s
  <2>. QED
    BY <2>1, <2>2
<1>10. ASSUME t = T, j < Len(F.subs) PROVE U(j, t, n) = U(j + 1, 0, 1)
  <2>1. ~IsMade(F.subs[j + 1], 0, 1) /\ j + 1 \in Nat /\ j + 1 > 0
    BY <1>3 DEF IsMade
  <2>2. U(j + 1, 0, 1) = FeatureOf(F.name, F.desc, Without(F, j + 1))
    BY <2>1, FeatureUpToIs
  <2>. QED
    BY <1>9, <1>10, <2>2
<1>11. ASSUME t = T, j = Len(F.subs) PROVE U(j, t, n) = FeatureMeaning(F)
  BY <1>1, <1>9, <1>11, FeatureMeaningIs
<1>. QED
  BY <1>8, <1>10, <1>11 DEF EndsSub, F, s, row

-----------------------------------------------------------------------------
(* The list of features at a place.                                        *)

\* The place after the scalar in its row.
Beyond == Place(pos.feature, pos.sub, pos.table, pos.scalar + 1)

\* From the end of a row to the beginning of the next one nothing is stored.
LEMMA EndOfRow ==
  ASSUME file \in Files, PositionOK, ~AtEnd, NEW S, NEW list \in Seq(S),
         StoredAt(list, file.doc, Beyond)
  PROVE  StoredAt(list, file.doc, Following)
<1> DEFINE f == pos.feature
           j == pos.sub
           t == pos.table
           k == pos.scalar
           F == file.doc[f]
<1>1. /\ f \in Nat /\ j \in Nat /\ t \in Nat /\ k \in Nat /\ k # 0
      /\ k <= Len(Row) /\ Len(Row) \in Nat
      /\ Len(Subs) \in Nat /\ Len(Tables) \in Nat
      /\ j <= Len(Subs) /\ t <= Len(Tables)
      /\ f <= Len(file.doc) /\ Len(file.doc) \in Nat
      /\ f = 0 => j = 0 /\ t = 0
      /\ j = 0 => t = 0
  BY RowType
<1>2. Len(list) \in Nat /\ DOMAIN list = 1..Len(list)
  OBVIOUS
<1>3. CASE k < Len(Row)
  <2>1. Following = Beyond
    BY <1>3 DEF Following, Beyond
  <2>. QED
    BY <2>1
<1>4. Len(<<>>) = 0
  OBVIOUS
<1>5. CASE ~(k < Len(Row)) /\ f = 0
  <2>1. Subs = <<>> /\ Tables = <<>>
    BY <1>1, <1>5 DEF Subs, Tables
  <2>2. Following = Place(1, 0, 0, 1)
    BY <1>1, <1>4, <1>5, <2>1 DEF Following
  <2>3. Len(list) = 0
    BY <1>5 DEF StoredAt, Beyond, Place
  <2>4. \A i \in DOMAIN list : FALSE
    BY <1>2, <2>3
  <2>5. /\ Place(1, 0, 0, 1).feature = 1 /\ Place(1, 0, 0, 1).sub = 0
        /\ Place(1, 0, 0, 1).scalar = 1
    BY DEF Place
  <2>. QED
    BY <2>2, <2>3, <2>4, <2>5 DEF StoredAt, HasBegun
<1>6. ASSUME ~(k < Len(Row)), f # 0
      PROVE  StoredAt(list, file.doc, Following)
  <2>1. k = Len(Row) /\ k + 1 > 1 /\ f \in 1..Len(file.doc) /\ Subs = F.subs
    BY <1>1, <1>6 DEF Subs
  <2> DEFINE e == FeatureUpTo(F, j, t, Len(Row) + 1)
  <2>2. /\ Len(list) = f
        /\ \A i \in 1..f : i < f => list[i] = FeatureMeaning(file.doc[i])
        /\ list[f] = e
    <3>1. /\ Beyond.feature = f /\ Beyond.sub = j /\ Beyond.table = t /\ Beyond.scalar = k + 1
      BY DEF Beyond, Place
    <3>2. HasBegun(Beyond)
      BY <2>1, <3>1 DEF HasBegun
    <3>3. Len(list) = f
      BY <3>1, <3>2 DEF StoredAt
    <3>4. \A i \in 1..f : list[i] = IF i < f THEN FeatureMeaning(file.doc[i])
                                    ELSE FeatureUpTo(file.doc[i], j, t, k + 1)
      BY <1>2, <3>1, <3>3 DEF StoredAt
    <3>5. f \in 1..f /\ ~(f < f)
      BY <1>1, <1>6
    <3>. QED
      BY <2>1, <3>3, <3>4, <3>5
  <2>. HIDE DEF e
  \* It is enough that the last feature is as it is to be.
  <2>3. ASSUME NEW a \in Nat, NEW b \in Nat, a > 0, e = FeatureUpTo(F, a, b, 1),
               Following = Place(f, a, b, 1)
        PROVE  StoredAt(list, file.doc, Following)
    <3>1. /\ Following.feature = f /\ Following.sub = a /\ Following.table = b
          /\ Following.scalar = 1
      BY <2>3 DEF Place
    <3>2. \A i \in 1..f : i < f \/ i = f
      BY <1>1
    <3>3. \A i \in 1..f : list[i] = IF i < f THEN FeatureMeaning(file.doc[i])
                                    ELSE FeatureUpTo(file.doc[i], a, b, 1)
      BY <2>2, <2>3, <3>2
    <3>4. HasBegun(Following)
      BY <2>3, <3>1 DEF HasBegun
    <3>. QED
      BY <1>2, <2>2, <3>1, <3>3, <3>4 DEF StoredAt
  <2>4. ASSUME e = FeatureMeaning(F), Following = Place(f + 1, 0, 0, 1)
        PROVE  StoredAt(list, file.doc, Following)
    <3>1. /\ Following.feature = f + 1 /\ Following.sub = 0 /\ Following.table = 0
          /\ Following.scalar = 1
      BY <2>4 DEF Place
    <3>2. \A i \in 1..f : i < f + 1 /\ (i < f \/ i = f)
      BY <1>1
    <3>3. \A i \in 1..f : list[i] = FeatureMeaning(file.doc[i])
      BY <2>2, <2>4, <3>2
    <3>4. ~HasBegun(Following) /\ f + 1 # 0 /\ f + 1 - 1 = f
      BY <1>1, <3>1 DEF HasBegun
    <3>. QED
      BY <1>2, <2>2, <3>1, <3>2, <3>3, <3>4 DEF StoredAt
  <2>5. CASE j = 0
    <3>1. Tables = <<>> /\ t = 0 /\ ~(t < Len(Tables))
      BY <1>1, <1>4, <2>5 DEF Tables
    <3>2. Row = FeatureScalars(F) /\ F \in FileFeature
      BY <1>6, <2>1, <2>5, DocType DEF Row
    <3>3. Len(Row) + 1 = 6
      <4>1. ASSUME NEW u \in FileFeature PROVE Len(FeatureScalars(u)) = 5
        BY FeatureRow
      <4>2. Len(Row) = 5
        BY <3>2, <4>1
      <4>. QED
        BY <4>2
    <3>4. e = FeatureUpTo(F, 0, 0, 6)
      BY <2>5, <3>1, <3>3 DEF e
    <3>5. CASE j < Len(Subs)
      <4>1. Following = Place(f, 1, 0, 1)
        BY <1>6, <2>5, <3>1, <3>5 DEF Following
      <4>2. e = FeatureUpTo(F, 1, 0, 1)
        BY <2>1, <2>5, <3>4, <3>5, HeadingEnd
      <4>. QED
        BY <2>3, <4>1, <4>2
    <3>6. CASE ~(j < Len(Subs))
      <4>1. Following = Place(f + 1, 0, 0, 1)
        BY <1>6, <3>1, <3>6 DEF Following
      <4>2. Len(F.subs) = 0
        BY <1>1, <2>1, <2>5, <3>6
      <4>3. e = FeatureMeaning(F)
        BY <2>1, <3>4, <4>2, HeadingEnd
      <4>. QED
        BY <2>4, <4>1, <4>3
    <3>. QED
      BY <3>5, <3>6
  <2>6. CASE j # 0
    <3>1. /\ j \in 1..Len(F.subs) /\ Tables = F.subs[j].tables
          /\ t \in 0..Len(F.subs[j].tables)
      BY <1>1, <2>1, <2>6 DEF Tables
    <3>2. Row = RowOf(F.subs[j], t)
      BY <1>6, <2>1, <2>6, <3>1 DEF Row, RowOf
    <3>3. /\ t < Len(Tables) => e = FeatureUpTo(F, j, t + 1, 1)
          /\ t = Len(Tables) /\ j < Len(Subs) => e = FeatureUpTo(F, j + 1, 0, 1)
          /\ t = Len(Tables) /\ j = Len(Subs) => e = FeatureMeaning(F)
      <4>1. EndsSub(F, j, F.subs[j], t)
        BY <2>1, <3>1, SubEnd
      <4>. QED
        BY <2>1, <3>1, <3>2, <4>1 DEF EndsSub, e
    <3>4. CASE t < Len(Tables)
      <4>1. Following = Place(f, j, t + 1, 1) /\ t + 1 \in Nat /\ j > 0
        BY <1>1, <1>6, <2>6, <3>4 DEF Following
      <4>. QED
        BY <1>1, <2>3, <3>3, <3>4, <4>1
    <3>5. CASE ~(t < Len(Tables)) /\ j < Len(Subs)
      <4>1. Following = Place(f, j + 1, 0, 1) /\ j + 1 \in Nat /\ j + 1 > 0 /\ t = Len(Tables)
        BY <1>1, <1>6, <3>5 DEF Following
      <4>. QED
        BY <1>1, <2>3, <3>3, <3>5, <4>1
    <3>6. CASE ~(t < Len(Tables)) /\ ~(j < Len(Subs))
      <4>1. Following = Place(f + 1, 0, 0, 1) /\ t = Len(Tables) /\ j = Len(Subs)
        BY <1>1, <1>6, <3>6 DEF Following
      <4>. QED
        BY <2>4, <3>3, <4>1
    <3>. QED
      BY <3>4, <3>5, <3>6
  <2>. QED
    BY <2>5, <2>6
<1>. QED
  BY <1>3, <1>5, <1>6

-----------------------------------------------------------------------------
(* What a step of the parser does that does not fail.                      *)

\* The steps that get on with the file.
Progress ==
  \/ AddFeature \/ AddSubFeature \/ AddTable \/ OtherKey
  \/ SetFeature \/ SetSub \/ SetSupport \/ AddCommand \/ SetTable \/ SkipValue

\* It reads one scalar, and a key is the last one from then on.
Move ==
  /\ More /\ pos' = Following /\ file' = file /\ parsing' = parsing
  /\ Scalar \in Keys => current_state' = Scalar
  /\ Scalar \notin Keys => current_state' = current_state

\* Each of them does.
LEMMA ProgressMoves == ASSUME Progress PROVE Move
<1>1. ASSUME NEW k \in Keys, Key(k) PROVE Move
  BY <1>1 DEF Key, Move
<1>2. ASSUME NEW k, Value(k) PROVE Move
  BY <1>2 DEF Value, Move
<1>3. "feature" \in Keys /\ "sub_feature" \in Keys /\ "table" \in Keys
  BY DEF Keys
<1>4. CASE AddFeature
  BY <1>1, <1>3, <1>4 DEF AddFeature
<1>5. CASE AddSubFeature
  BY <1>1, <1>3, <1>5 DEF AddSubFeature
<1>6. CASE AddTable
  BY <1>1, <1>3, <1>6 DEF AddTable
<1>7. CASE OtherKey
  BY <1>1, <1>7 DEF OtherKey
<1>8. CASE SetFeature
  BY <1>2, <1>8 DEF SetFeature
<1>9. CASE SetSub
  BY <1>2, <1>9 DEF SetSub
<1>10. CASE SetSupport
  BY <1>2, <1>10 DEF SetSupport
<1>11. CASE AddCommand
  BY <1>2, <1>11 DEF AddCommand
<1>12. CASE SetTable
  BY <1>2, <1>12 DEF SetTable
<1>13. CASE SkipValue
  BY <1>2, <1>13 DEF SkipValue
<1>. QED
  BY <1>4, <1>5, <1>6, <1>7, <1>8, <1>9, <1>10, <1>11, <1>12, <1>13 DEF Progress

\* A key is read by the action of that key ...
LEMMA KeyDecides ==
  ASSUME Progress, Scalar \in Keys
  PROVE  \/ Scalar = "feature" /\ AddFeature
         \/ Scalar = "sub_feature" /\ AddSubFeature
         \/ Scalar = "table" /\ AddTable
         \/ Scalar \in OtherKeys /\ UNCHANGED <<features, sub, table>>
<1>1. \A k : ~Value(k)
  BY DEF Value
<1>2. ~SetFeature /\ ~SetSub /\ ~SetSupport /\ ~AddCommand /\ ~SetTable /\ ~SkipValue
  BY <1>1 DEF SetFeature, SetSub, SetSupport, AddCommand, SetTable, SkipValue
<1>3. \A k : Key(k) => Scalar = k
  BY DEF Key
<1>. QED
  BY <1>2, <1>3 DEF Progress, AddFeature, AddSubFeature, AddTable, OtherKey, OtherKeys

\* ... and a value by that of the last key.
LEMMA ValueDecides ==
  ASSUME Progress, Scalar \notin Keys
  PROVE  \/ current_state \in {"feature_name", "feature_desc"} /\ SetFeature
         \/ current_state \in {"sub_feature_name", "sub_feature_desc"} /\ SetSub
         \/ current_state \in {"support_showtech_all", "support_showtech_feature"} /\ SetSupport
         \/ current_state = "cli_cmds" /\ AddCommand
         \/ current_state \in {"table_name", "col_names"} /\ SetTable
         \/ /\ current_state \in {"feature", "sub_feature", "ovsdb", "table"}
            /\ UNCHANGED <<features, sub, table>>
<1>1. \A k \in Keys : ~Key(k)
  BY DEF Key
<1>2. "feature" \in Keys /\ "sub_feature" \in Keys /\ "table" \in Keys
  BY DEF Keys
<1>3. ~AddFeature /\ ~AddSubFeature /\ ~AddTable /\ ~OtherKey
  BY <1>1, <1>2 DEF AddFeature, AddSubFeature, AddTable, OtherKey
<1>4. \A k : Value(k) => current_state = k
  BY DEF Value
<1>5. SetFeature => current_state \in {"feature_name", "feature_desc"}
  BY <1>4 DEF SetFeature
<1>6. SetSub => current_state \in {"sub_feature_name", "sub_feature_desc"}
  BY <1>4 DEF SetSub
<1>7. SetSupport => current_state \in {"support_showtech_all", "support_showtech_feature"}
  BY <1>4 DEF SetSupport
<1>8. AddCommand => current_state = "cli_cmds"
  BY <1>4 DEF AddCommand
<1>9. SetTable => current_state \in {"table_name", "col_names"}
  BY <1>4 DEF SetTable
<1>10. SkipValue => /\ current_state \in {"feature", "sub_feature", "ovsdb", "table"}
                    /\ UNCHANGED <<features, sub, table>>
  BY <1>4 DEF SkipValue
<1>. QED
  BY <1>3, <1>5, <1>6, <1>7, <1>8, <1>9, <1>10 DEF Progress

\* A value of a sub feature goes to the sub feature in hand.
LEMMA ValueEdits ==
  ASSUME Progress, Scalar \notin Keys, NEW n, Edits(Current, n, Scalar, current_state)
  PROVE  PutSub(n)
<1>1. \A k : Value(k) => current_state = k
  BY DEF Value
<1>2. ASSUME current_state = "sub_feature_name", n = WithName(Current, Scalar)
      PROVE  PutSub(n)
  <2>1. SetSub
    BY <1>2, ValueDecides
  <2>. QED
    BY <1>1, <1>2, <2>1 DEF SetSub, WithName
<1>3. ASSUME current_state = "sub_feature_desc", n = WithDesc(Current, Scalar)
      PROVE  PutSub(n)
  <2>1. SetSub
    BY <1>3, ValueDecides
  <2>. QED
    BY <1>1, <1>3, <2>1 DEF SetSub, WithDesc
<1>4. ASSUME current_state = "support_showtech_all", n = WithAll(Current, Scalar \in {"yes", "true"})
      PROVE  PutSub(n)
  <2>1. SetSupport
    BY <1>4, ValueDecides
  <2>2. PutSub([Current EXCEPT !.all = Yes])
    BY <1>1, <1>4, <2>1 DEF SetSupport
  <2>. QED
    BY <1>4, <2>2 DEF WithAll, Yes
<1>5. ASSUME current_state = "support_showtech_feature",
             n = WithSupport(Current, Scalar \in {"yes", "true"})
      PROVE  PutSub(n)
  <2>1. SetSupport
    BY <1>5, ValueDecides
  <2>2. PutSub([Current EXCEPT !.feature = Yes])
    BY <1>1, <1>5, <2>1 DEF SetSupport
  <2>. QED
    BY <1>5, <2>2 DEF WithSupport, Yes
<1>6. ASSUME current_state = "cli_cmds", n = WithCmds(Current, Append(Current.cmds, Scalar))
      PROVE  PutSub(n)
  <2>1. AddCommand
    BY <1>6, ValueDecides
  <2>. QED
    BY <1>6, <2>1 DEF AddCommand, WithCmds
<1>7. ASSUME current_state = "table_name",
             n = InTable(Current, [Current.tables[Len(Current.tables)] EXCEPT !.name = Scalar])
      PROVE  PutSub(n)
  <2>1. SetTable
    BY <1>7, ValueDecides
  <2>2. PutSub([Current EXCEPT !.tables[LastTable].name = Scalar])
    BY <1>1, <1>7, <2>1 DEF SetTable
  <2>. QED
    BY <1>7, <2>2 DEF InTable, WithTables, LastTable
<1>8. ASSUME current_state = "col_names",
             n = InTable(Current, [Current.tables[Len(Current.tables)] EXCEPT !.cols =
                                     Append(@, Scalar)])
      PROVE  PutSub(n)
  <2>1. SetTable
    BY <1>8, ValueDecides
  <2>2. PutSub([Current EXCEPT !.tables[LastTable].cols = Append(@, Scalar)])
    BY <1>1, <1>8, <2>1 DEF SetTable
  <2>. QED
    BY <1>8, <2>2 DEF InTable, WithTables, LastTable
<1>. QED
  BY <1>2, <1>3, <1>4, <1>5, <1>6, <1>7, <1>8 DEF Edits

\* The last key of the row is current_state ...
LEMMA CurrentKey ==
  ASSUME StateOK, NEW key \in Keys, LastKey(Row, pos.scalar, key)
  PROVE  current_state = key
  BY DEF StateOK, LastKey

\* ... and stays it.
LEMMA StateKept ==
  ASSUME file \in Files, PositionOK, StateOK, Move
  PROVE  StateOK'
<1>1. ~AtEnd /\ pos' = Following /\ file' = file
  BY DEF Move, More
<1>2. /\ pos.feature \in Nat /\ pos.sub \in Nat /\ pos.table \in Nat
      /\ pos.scalar \in Nat /\ pos.scalar # 0 /\ Len(Row) \in Nat
  BY <1>1, RowType
<1>3. CASE pos.scalar < Len(Row)
  <2>1. pos' = Place(pos.feature, pos.sub, pos.table, pos.scalar + 1)
    BY <1>1, <1>3 DEF Following
  <2>2. /\ pos'.feature = pos.feature /\ pos'.sub = pos.sub /\ pos'.table = pos.table
        /\ pos'.scalar = pos.scalar + 1
    BY <2>1 DEF Place
  <2>3. Subs' = Subs
    BY <1>1, <2>2 DEF Subs
  <2>4. Tables' = Tables
    BY <2>2, <2>3 DEF Tables
  <2>5. Row' = Row
    BY <1>1, <2>2, <2>3, <2>4 DEF Row
  <2>. SUFFICES ASSUME NEW m \in 1..pos.scalar, Row[m] \in Keys,
                       \A l \in m + 1..pos.scalar : Row[l] \notin Keys
                PROVE  current_state' = Row[m]
    <3>1. pos'.scalar - 1 = pos.scalar
      BY <1>2, <2>2
    <3>. QED
      BY <2>5, <3>1 DEF StateOK
  <2>6. CASE m = pos.scalar
    BY <2>6 DEF Move, Scalar
  <2>7. CASE m # pos.scalar
    <3>1. m \in 1..pos.scalar - 1 /\ pos.scalar \in m + 1..pos.scalar
      BY <1>2, <2>7
    <3>2. Scalar \notin Keys
      BY <3>1 DEF Scalar
    <3>3. \A l \in m + 1..pos.scalar - 1 : l \in m + 1..pos.scalar
      BY <1>2
    <3>4. current_state = Row[m]
      BY <3>1, <3>3 DEF StateOK
    <3>. QED
      BY <3>2, <3>4 DEF Move
  <2>. QED
    BY <2>6, <2>7
<1>4. CASE ~(pos.scalar < Len(Row))
  <2>1. pos'.scalar = 1
    BY <1>1, <1>4 DEF Following, Place
  <2>2. 1..1 - 1 = {}
    OBVIOUS
  <2>. QED
    BY <2>1, <2>2 DEF StateOK
<1>. QED
  BY <1>3, <1>4

-----------------------------------------------------------------------------
(* In front of the features.                                               *)

\* The parser is reading, and what it has stored is what it is to.
Reading ==
  /\ IInv /\ parsing /\ ~AtEnd
  /\ StoredAt(features, file.doc, pos) /\ StateOK /\ SubOK /\ FrontOK

\* What has been stored after a step.
Kept == StoredAt(features', file.doc, Beyond) /\ SubOK'

\* The place of a parser that is reading.
LEMMA ReadingType ==
  ASSUME Reading
  PROVE  /\ file \in Files /\ PositionOK /\ features \in Seq(Feature)
         /\ Len(features) \in Nat /\ DOMAIN features = 1..Len(features)
         /\ pos.feature \in Nat /\ pos.sub \in Nat /\ pos.table \in Nat
         /\ pos.scalar \in 1..Len(Row) /\ Len(Row) \in Nat /\ pos.scalar \in Nat
         /\ Beyond.feature = pos.feature /\ Beyond.sub = pos.sub
         /\ Beyond.table = pos.table /\ Beyond.scalar = pos.scalar + 1
         /\ HasBegun(Beyond)
<1>1. file \in Files /\ PositionOK /\ ~AtEnd /\ features \in Seq(Feature)
  BY DEF Reading, IInv, ParserOK
<1>2. /\ pos.feature \in Nat /\ pos.sub \in Nat /\ pos.table \in Nat
      /\ pos.scalar \in 1..Len(Row) /\ Len(Row) \in Nat /\ pos.scalar \in Nat
  BY <1>1, RowType
<1>3. /\ Beyond.feature = pos.feature /\ Beyond.sub = pos.sub
      /\ Beyond.table = pos.table /\ Beyond.scalar = pos.scalar + 1
  BY DEF Beyond, Place
<1>4. pos.scalar + 1 > 1
  BY <1>2
<1>. QED
  BY <1>1, <1>2, <1>3, <1>4 DEF HasBegun

\* Nothing is stored, and a feature's name is refused.
LEMMA FrontStep ==
  ASSUME Reading, Progress, pos.feature = 0
  PROVE  /\ Kept /\ features' = <<>>
         /\ ~NamesAFeature(pos.scalar)
<1>1. Move
  BY ProgressMoves
<1>2. features = <<>> /\ sub \in {None, 0}
  <2>1. Len(features) = 0
    BY DEF Reading, StoredAt
  <2>2. features = <<>>
    BY <2>1, ReadingType, EmptySeq
  <2>. QED
    BY <2>2 DEF Reading, SubOK
<1>3. Row = file.stray
  BY DEF Row
<1>4. Scalar # "feature"
  BY <1>3, ReadingType, DocType DEF Scalar
<1>5. ASSUME NEW s, PutSub(s) PROVE features' = <<>> /\ sub' \in {None, 0}
  <2>1. LastFeature = 0
    BY <1>2 DEF LastFeature
  <2>2. sub' = 0
    BY <1>2, <1>5, <2>1 DEF PutSub
  <2>. QED
    BY <1>2, <1>5, <2>2 DEF PutSub
<1>6. features' = <<>> /\ sub' \in {None, 0}
  <2>1. CASE Scalar \in Keys
    <3>1. ~AddSubFeature /\ ~AddTable
      BY <1>2 DEF AddSubFeature, AddTable
    <3>2. UNCHANGED <<features, sub, table>>
      BY <1>4, <2>1, <3>1, KeyDecides
    <3>. QED
      BY <1>2, <3>2
  <2>2. CASE Scalar \notin Keys
    <3>1. ~SetFeature
      BY <1>2 DEF SetFeature
    <3>2. SetSub => features' = <<>> /\ sub' \in {None, 0}
      BY <1>5 DEF SetSub
    <3>3. SetSupport => features' = <<>> /\ sub' \in {None, 0}
      BY <1>5 DEF SetSupport
    <3>4. AddCommand => features' = <<>> /\ sub' \in {None, 0}
      BY <1>5 DEF AddCommand
    <3>5. SetTable => features' = <<>> /\ sub' \in {None, 0}
      BY <1>5 DEF SetTable
    <3>. QED
      BY <1>2, <2>2, <3>1, <3>2, <3>3, <3>4, <3>5, ValueDecides
  <2>. QED
    BY <2>1, <2>2
<1>7. Kept
  <2>1. StoredAt(<<>>, file.doc, Beyond)
    <3>1. Len(<<>>) = 0 /\ DOMAIN <<>> = {}
      OBVIOUS
    <3>2. Beyond.feature = 0
      BY ReadingType
    <3>. QED
      BY <3>1, <3>2 DEF StoredAt
  <2>2. SubOK'
    BY <1>6 DEF SubOK
  <2>. QED
    BY <1>6, <2>1, <2>2 DEF Kept
<1>8. ~NamesAFeature(pos.scalar)
  <2>. SUFFICES ASSUME NEW i \in 1..pos.scalar - 1, file.stray[i] = "feature_name",
                       file.stray[i + 1] \in Text
                PROVE  FALSE
    BY DEF NamesAFeature
  <2>1. pos.scalar \in Nat
    BY ReadingType
  <2>2. CASE i = pos.scalar - 1
    <3>1. i + 1 = pos.scalar /\ i \in Nat /\ i > 0
      BY <2>1, <2>2
    <3>2. Scalar \in Text
      BY <1>3, <3>1 DEF Scalar
    <3>3. Scalar \notin Keys
      BY <3>2 DEF Text
    <3>4. LastKey(Row, i + 1, "feature_name")
      BY <1>3, <3>1, AfterItsKey
    <3>5. current_state = "feature_name"
      <4>1. StateOK /\ "feature_name" \in Keys
        BY DEF Reading, Keys
      <4>. QED
        BY <3>1, <3>4, <4>1, CurrentKey
    <3>6. SetFeature
      BY <3>3, <3>5, ValueDecides
    <3>. QED
      BY <1>2, <3>6 DEF SetFeature
  <2>3. CASE i # pos.scalar - 1
    <3>1. i \in 1..(pos.scalar - 1) - 1
      BY <2>1, <2>3
    <3>2. ~NamesAFeature(pos.scalar - 1)
      BY DEF Reading, FrontOK
    <3>. QED
      BY <3>1, <3>2 DEF NamesAFeature
  <2>. QED
    BY <2>2, <2>3
<1>. QED
  BY <1>6, <1>7, <1>8

-----------------------------------------------------------------------------
(* In the heading of a feature.                                            *)

\* The list with another last feature, or one more.
LEMMA ListKept ==
  ASSUME Reading, pos.feature > 0, NEW g,
         g = FeatureUpTo(file.doc[pos.feature], pos.sub, pos.table, pos.scalar + 1),
         \/ HasBegun(pos) /\ features' = [features EXCEPT ![pos.feature] = g]
         \/ HasBegun(pos) /\ features' = features /\ features[pos.feature] = g
         \/ ~HasBegun(pos) /\ features' = Append(features, g)
  PROVE  /\ StoredAt(features', file.doc, Beyond)
         /\ Len(features') = pos.feature /\ features' # <<>>
         /\ Last(features') = g
<1> DEFINE f == pos.feature
           d == file.doc
<1>1. /\ f \in Nat /\ f > 0 /\ Len(features) \in Nat /\ DOMAIN features = 1..Len(features)
      /\ features \in Seq(Feature) /\ StoredAt(features, d, pos)
  BY ReadingType DEF Reading
<1>2. /\ Len(features') = f /\ DOMAIN features' = 1..f
      /\ \A i \in 1..f : i < f => features'[i] = FeatureMeaning(d[i])
      /\ features'[f] = g
  <2>1. CASE HasBegun(pos)
    <3>1. /\ Len(features) = f
          /\ \A i \in 1..f : i < f => features[i] = FeatureMeaning(d[i])
      BY <1>1, <2>1 DEF StoredAt
    <3>2. /\ DOMAIN features' = DOMAIN features /\ Len(features') = Len(features)
          /\ \A i \in 1..f : i < f => features'[i] = features[i]
          /\ features'[f] = g
      <4>1. CASE features' = features /\ features[f] = g
        BY <4>1
      <4>2. CASE features' = [features EXCEPT ![f] = g]
        <5>. HIDE DEF f
        <5>1. f \in 1..f /\ \A i \in 1..f : i < f => i # f
          BY <1>1
        <5>2. /\ DOMAIN features' = DOMAIN features
              /\ \A i \in 1..f : i < f => features'[i] = features[i]
              /\ features'[f] = g
          BY <1>1, <3>1, <4>2, <5>1
        <5>3. Len(features') = Len(features)
          <6>1. features = [i \in 1..f |-> features[i]]
            <7>1. features = [i \in 1..Len(features) |-> features[i]]
              BY <1>1
            <7>. QED
              BY <3>1, <7>1
          <6>2. features' = [i \in 1..f |-> IF i < f THEN features[i] ELSE g]
            BY <1>1, <4>2, <6>1, ReplaceIs
          <6>. QED
            BY <1>1, <3>1, <6>2
        <5>. QED
          BY <5>2, <5>3
      <4>. QED
        BY <2>1, <4>1, <4>2
    <3>. QED
      BY <1>1, <3>1, <3>2
  <2>2. CASE ~HasBegun(pos)
    <3>1. /\ Len(features) = f - 1 /\ features' = Append(features, g)
          /\ \A i \in 1..f - 1 : features[i] = FeatureMeaning(d[i])
      <4>1. Len(features) = f - 1
        BY <1>1, <2>2 DEF StoredAt
      <4>2. \A i \in 1..f - 1 : features[i] = FeatureMeaning(d[i])
        <5>1. \A i \in 1..f - 1 : i < f
          BY <1>1
        <5>. QED
          BY <1>1, <4>1, <5>1 DEF StoredAt
      <4>. QED
        BY <2>2, <4>1, <4>2
    <3>2. features = [i \in 1..f - 1 |-> features[i]] /\ f - 1 \in Nat /\ f - 1 + 1 = f
      BY <1>1, <3>1
    <3>3. /\ features' = [i \in 1..f - 1 + 1 |-> IF i <= f - 1 THEN features[i] ELSE g]
          /\ Len(features') = f - 1 + 1
      BY <3>1, <3>2, AppendIs
    <3>4. /\ f \in 1..f /\ ~(f <= f - 1)
          /\ \A i \in 1..f : i < f => i <= f - 1 /\ i \in 1..f - 1
      BY <1>1
    <3>. QED
      BY <3>1, <3>2, <3>3, <3>4
  <2>. QED
    BY <2>1, <2>2
<1>3. StoredAt(features', d, Beyond)
  <2>1. /\ Beyond.feature = f /\ Beyond.sub = pos.sub /\ Beyond.table = pos.table
        /\ Beyond.scalar = pos.scalar + 1 /\ HasBegun(Beyond)
    BY ReadingType
  <2>2. \A i \in 1..f : i < f \/ i = f
    BY <1>1
  <2>3. \A i \in 1..f : features'[i] = IF i < f THEN FeatureMeaning(d[i])
                                       ELSE FeatureUpTo(d[i], pos.sub, pos.table, pos.scalar + 1)
    BY <1>2, <2>2
  <2>. QED
    BY <1>2, <2>1, <2>3 DEF StoredAt
<1>4. features' # <<>> /\ Last(features') = g
  <2>1. Len(<<>>) = 0
    OBVIOUS
  <2>. QED
    BY <1>1, <1>2, <2>1 DEF Last
<1>. QED
  BY <1>2, <1>3, <1>4

\* The heading of a feature: "feature" begins it, and it is given its description
\* and its name.
LEMMA HeadingStep ==
  ASSUME Reading, Progress, pos.feature > 0, pos.sub = 0
  PROVE  Kept
<1> DEFINE f == pos.feature
           k == pos.scalar
           F == file.doc[f]
           U(i) == FeatureUpTo(F, 0, 0, i)
<1>1. /\ f \in 1..Len(file.doc) /\ F \in FileFeature /\ pos.table = 0
      /\ f \in Nat /\ f > 0
  <2>1. file \in Files /\ PositionOK /\ ~AtEnd
    BY ReadingType DEF Reading
  <2>2. f \in 1..Len(file.doc) /\ pos.table = 0
    BY <2>1, RowType
  <2>. QED
    BY <2>1, <2>2, DocType
<1>2. /\ Row = FeatureScalars(F) /\ Len(Row) = 5
      /\ Row[1] = "feature" /\ Row[2] = "feature_desc" /\ Row[3] = F.desc
      /\ Row[4] = "feature_name" /\ Row[5] = F.name
      /\ F.desc \in Text /\ F.name \in Text
  <2>1. Row = FeatureScalars(F)
    BY <1>1 DEF Row
  <2>2. ASSUME NEW u \in FileFeature
        PROVE  LET r == FeatureScalars(u)
               IN  /\ Len(r) = 5
                   /\ r[1] = "feature" /\ r[2] = "feature_desc" /\ r[3] = u.desc
                   /\ r[4] = "feature_name" /\ r[5] = u.name
                   /\ u.desc \in Text /\ u.name \in Text
    BY FeatureRow
  <2>. HIDE DEF F
  <2>. QED
    BY <1>1, <2>1, <2>2
<1>3. k \in 1..5 /\ k \in Nat /\ Move
  BY <1>2, ReadingType, ProgressMoves
<1>4. /\ U(2) = NewFeature
      /\ U(2) = FeatureOf(None, None, <<>>) /\ U(3) = FeatureOf(None, None, <<>>)
      /\ U(4) = FeatureOf(None, F.desc, <<>>) /\ U(5) = FeatureOf(None, F.desc, <<>>)
      /\ U(6) = FeatureOf(F.name, F.desc, <<>>)
  <2>1. ASSUME NEW i \in 2..6
        PROVE  U(i) = FeatureOf(IF i > 5 THEN F.name ELSE None,
                                IF i > 3 THEN F.desc ELSE None, <<>>)
    BY FeatureUpToIs
  <2>. HIDE DEF U
  <2>2. NewFeature = FeatureOf(None, None, <<>>)
    BY DEF NewFeature, FeatureOf
  <2>. QED
    BY <2>1, <2>2
<1>5. features \in Seq(Feature) /\ Len(features) \in Nat
      /\ StoredAt(features, file.doc, pos) /\ SubOK /\ StateOK
  BY ReadingType DEF Reading
<1>6. HasBegun(pos) <=> k > 1
  BY <1>1, <1>3 DEF HasBegun
\* Once it has begun, it is the last of the list.
<1>7. ASSUME k > 1
      PROVE  /\ Len(features) = f /\ LastFeature = f /\ features[f] = U(k)
             /\ features # <<>> /\ Last(features) = U(k)
  <2>1. Len(features) = f
    BY <1>1, <1>5, <1>6, <1>7 DEF StoredAt
  <2>2. features[f] = U(k)
    <3>1. f \in DOMAIN features /\ ~(f < f)
      BY <1>1, <1>5, <2>1
    <3>. QED
      BY <1>1, <1>5, <3>1 DEF StoredAt
  <2>3. features # <<>>
    <3>1. Len(<<>>) = 0
      OBVIOUS
    <3>. QED
      BY <1>1, <2>1, <3>1
  <2>. QED
    BY <2>1, <2>2, <2>3 DEF Last, LastFeature
<1>. HIDE DEF U, F, f, k
\* It has no sub feature yet, before and after the scalar.
<1>8. ASSUME NEW nm, NEW ds, U(k) = FeatureOf(nm, ds, <<>>), k > 1
      PROVE  sub = None
  <2>1. Last(features).subs = <<>>
    BY <1>7, <1>8, FeatureOfSubs
  <2>. QED
    BY <1>5, <1>7, <1>8, <2>1 DEF SubOK
<1>9. ASSUME NEW nm, NEW ds, U(k + 1) = FeatureOf(nm, ds, <<>>), sub' = None,
             \/ k > 1 /\ features' = [features EXCEPT ![f] = U(k + 1)]
             \/ k > 1 /\ features' = features /\ U(k + 1) = U(k)
             \/ k = 1 /\ features' = Append(features, U(k + 1))
      PROVE  Kept
  <2>1. U(k + 1) = FeatureUpTo(file.doc[pos.feature], pos.sub, pos.table, pos.scalar + 1)
    BY <1>1 DEF U, F, f, k
  <2>2. \/ HasBegun(pos) /\ features' = [features EXCEPT ![pos.feature] = U(k + 1)]
        \/ HasBegun(pos) /\ features' = features /\ features[pos.feature] = U(k + 1)
        \/ ~HasBegun(pos) /\ features' = Append(features, U(k + 1))
    <3>1. k = 1 => ~(k > 1)
      OBVIOUS
    <3>. QED
      BY <1>6, <1>7, <1>9, <3>1 DEF f
  <2>3. /\ StoredAt(features', file.doc, Beyond)
        /\ features' # <<>> /\ Last(features') = U(k + 1)
    BY <2>1, <2>2, ListKept
  <2>4. Last(features').subs = <<>>
    BY <1>9, <2>3, FeatureOfSubs
  <2>5. SubOK'
    BY <1>9, <2>3, <2>4 DEF SubOK
  <2>. QED
    BY <2>3, <2>5 DEF Kept
<1>10. Scalar = Row[k]
  BY DEF Scalar, k
<1>11. /\ "feature" \in Keys /\ "feature_desc" \in Keys /\ "feature_name" \in Keys
       /\ \A x \in Text : x \notin Keys
  BY DEF Keys, Text
<1>12. CASE k = 1
  <2>1. AddFeature
    BY <1>2, <1>10, <1>11, <1>12, KeyDecides DEF OtherKeys
  <2>2. features' = Append(features, U(k + 1)) /\ sub' = None
    BY <1>4, <1>12, <2>1 DEF AddFeature
  <2>3. k + 1 = 2
    BY <1>12
  <2>. QED
    BY <1>4, <1>9, <1>12, <2>2, <2>3
<1>13. CASE k = 2 \/ k = 4
  <2>1. UNCHANGED <<features, sub>>
    BY <1>2, <1>10, <1>11, <1>13, KeyDecides
  <2>2. k > 1 /\ U(k + 1) = U(k)
    BY <1>4, <1>13
  <2>3. PICK nm, ds : U(k) = FeatureOf(nm, ds, <<>>)
    BY <1>4, <1>13
  <2>4. sub = None
    BY <1>8, <2>2, <2>3
  <2>. QED
    BY <1>9, <2>1, <2>2, <2>3, <2>4
<1>14. CASE k = 3
  <2>1. Scalar = F.desc /\ Scalar \notin Keys
    BY <1>2, <1>10, <1>11, <1>14
  <2>2. current_state = "feature_desc"
    <3>1. LastKey(Row, 2 + 1, "feature_desc")
      BY <1>2, AfterItsKey
    <3>2. pos.scalar = 2 + 1
      BY <1>14 DEF k
    <3>. QED
      BY <1>5, <1>11, <3>1, <3>2, CurrentKey
  <2>3. SetFeature
    BY <2>1, <2>2, ValueDecides
  <2>4. features' = [features EXCEPT ![LastFeature].desc = Scalar] /\ sub' = sub
    BY <2>2, <2>3 DEF SetFeature, Value
  <2>5. k > 1 /\ k + 1 = 4
    BY <1>14
  <2>6. features[f] = FeatureOf(None, None, <<>>) /\ LastFeature = f /\ sub = None
    BY <1>4, <1>7, <1>8, <1>14, <2>5
  <2>7. [features[f] EXCEPT !.desc = Scalar] = U(k + 1)
    BY <1>4, <2>1, <2>5, <2>6, FeatureOfTexts
  <2>8. features' = [features EXCEPT ![f] = U(k + 1)]
    BY <2>4, <2>6, <2>7
  <2>. QED
    BY <1>4, <1>9, <2>4, <2>5, <2>6, <2>8
<1>15. CASE k = 5
  <2>1. Scalar = F.name /\ Scalar \notin Keys
    BY <1>2, <1>10, <1>11, <1>15
  <2>2. current_state = "feature_name"
    <3>1. LastKey(Row, 4 + 1, "feature_name")
      BY <1>2, AfterItsKey
    <3>2. pos.scalar = 4 + 1
      BY <1>15 DEF k
    <3>. QED
      BY <1>5, <1>11, <3>1, <3>2, CurrentKey
  <2>3. SetFeature
    BY <2>1, <2>2, ValueDecides
  <2>4. features' = [features EXCEPT ![LastFeature].name = Scalar] /\ sub' = sub
    BY <2>2, <2>3 DEF SetFeature, Value
  <2>5. k > 1 /\ k + 1 = 6
    BY <1>15
  <2>6. features[f] = FeatureOf(None, F.desc, <<>>) /\ LastFeature = f /\ sub = None
    BY <1>4, <1>7, <1>8, <1>15, <2>5
  <2>7. [features[f] EXCEPT !.name = Scalar] = U(k + 1)
    BY <1>4, <2>1, <2>5, <2>6, FeatureOfTexts
  <2>8. features' = [features EXCEPT ![f] = U(k + 1)]
    BY <2>4, <2>6, <2>7
  <2>. QED
    BY <1>4, <1>9, <2>4, <2>5, <2>6, <2>8
<1>. QED
  BY <1>3, <1>12, <1>13, <1>14, <1>15 DEF k

-----------------------------------------------------------------------------
(* In a sub feature.                                                       *)

\* The sub feature that the parser is in, and what is stored of it now and after the
\* scalar.
Here == file.doc[pos.feature].subs[pos.sub]
Now  == SubUpTo(Here, pos.table, pos.scalar)
Soon == SubUpTo(Here, pos.table, pos.scalar + 1)
IsHere == IsMade(Here, pos.table, pos.scalar)
IsSoon == IsMade(Here, pos.table, pos.scalar + 1)
FeatureWith(e) ==
  FeatureOf(file.doc[pos.feature].name, file.doc[pos.feature].desc,
            With(file.doc[pos.feature], pos.sub, e))

\* They are what the place says.
LEMMA SubPlace ==
  ASSUME Reading, pos.sub > 0
  PROVE  /\ pos.feature \in 1..Len(file.doc) /\ pos.feature > 0 /\ pos.feature \in Nat
         /\ pos.sub \in 1..Len(file.doc[pos.feature].subs) /\ pos.sub \in Nat
         /\ Proper(Here) /\ (Here.dummy => pos.sub = 1)
         /\ pos.table \in 0..Len(Here.tables)
         /\ Row = RowOf(Here, pos.table)
         /\ pos.scalar \in Nat /\ pos.scalar > 0 /\ pos.scalar <= Len(Row)
<1>1. file \in Files /\ PositionOK /\ ~AtEnd
  BY ReadingType DEF Reading
<1>2. /\ pos.feature \in Nat /\ pos.sub \in Nat /\ pos.table \in Nat
      /\ pos.feature # 0 /\ pos.feature <= Len(file.doc) /\ Len(file.doc) \in Nat
      /\ pos.sub <= Len(Subs) /\ pos.table <= Len(Tables)
      /\ Len(Subs) \in Nat /\ Len(Tables) \in Nat
      /\ pos.scalar \in Nat /\ pos.scalar > 0 /\ pos.scalar <= Len(Row)
  BY <1>1, RowType
<1>3. pos.feature \in 1..Len(file.doc) /\ Subs = file.doc[pos.feature].subs
  BY <1>2 DEF Subs
<1>4. /\ pos.sub \in 1..Len(file.doc[pos.feature].subs)
      /\ Subs[pos.sub] = Here /\ Tables = Here.tables
  BY <1>2, <1>3 DEF Here, Tables
<1>5. Proper(Here) /\ (Here.dummy => pos.sub = 1)
  BY <1>1, <1>3, <1>4, SubsType DEF Here
<1>6. Row = RowOf(Here, pos.table)
  BY <1>2, <1>4 DEF Row, RowOf
<1>. QED
  BY <1>2, <1>3, <1>4, <1>5, <1>6

\* It is the one in hand, or the parser is in none and it is as a new dummy.
LEMMA CurrentIs ==
  ASSUME Reading, pos.sub > 0
  PROVE  /\ Len(features) = pos.feature /\ features # <<>>
         /\ IsHere => /\ sub = pos.feature /\ Current = Now
                      /\ features[pos.feature] = FeatureWith(Now)
         /\ ~IsHere => features[pos.feature]
                         = FeatureOf(file.doc[pos.feature].name, file.doc[pos.feature].desc,
                                     Without(file.doc[pos.feature], pos.sub))
         /\ ~IsHere /\ Here.dummy => sub = None /\ Current = Now
<1> DEFINE f == pos.feature
           j == pos.sub
           F == file.doc[f]
<1>1. /\ f \in Nat /\ f > 0 /\ j \in Nat /\ j > 0 /\ Here = F.subs[j]
      /\ features \in Seq(Feature) /\ Len(features) \in Nat
      /\ StoredAt(features, file.doc, pos) /\ SubOK
  BY SubPlace, ReadingType DEF Reading, Here
<1>2. /\ Len(features) = f /\ features # <<>> /\ Last(features) = features[f]
      /\ features[f] = FeatureUpTo(F, j, pos.table, pos.scalar)
  <2>1. Len(features) = f
    BY <1>1 DEF StoredAt, HasBegun
  <2>2. f \in DOMAIN features /\ ~(f < f)
    BY <1>1, <2>1
  <2>3. Len(<<>>) = 0
    OBVIOUS
  <2>. QED
    BY <1>1, <2>1, <2>2, <2>3 DEF StoredAt, Last
<1>3. ASSUME IsHere
      PROVE  /\ sub = f /\ Current = Now
             /\ features[f] = FeatureWith(Now)
  <2>1. features[f] = FeatureWith(Now)
    BY <1>1, <1>2, <1>3, FeatureUpToIs DEF IsHere, FeatureWith, Now
  <2>2. features[f].subs = With(F, j, Now)
    BY <2>1, FeatureOfSubs DEF FeatureWith
  <2>3. /\ Len(With(F, j, Now)) = j /\ With(F, j, Now) # <<>>
        /\ With(F, j, Now)[j] = Now
    BY <1>1, WithLen
  <2>4. sub = f
    BY <1>1, <1>2, <2>2, <2>3 DEF SubOK
  <2>5. Last(features[f].subs) = Now
    BY <2>2, <2>3 DEF Last
  <2>6. sub \notin {None, 0}
    BY <1>1, <2>4
  <2>. QED
    BY <2>1, <2>4, <2>5, <2>6 DEF Current
<1>4. ASSUME ~IsHere
      PROVE  features[f] = FeatureOf(F.name, F.desc, Without(F, j))
  BY <1>1, <1>2, <1>4, FeatureUpToIs DEF IsHere
<1>5. ASSUME ~IsHere, Here.dummy
      PROVE  sub = None /\ Current = Now
  <2>1. j = 1
    BY <1>5, SubPlace
  <2>2. features[f].subs = Without(F, 1)
    BY <1>4, <1>5, <2>1, FeatureOfSubs
  <2>3. features[f].subs = <<>>
    BY <2>2, WithIs
  <2>4. sub = None
    BY <1>1, <1>2, <2>3 DEF SubOK
  <2>5. Now = NewSub(TRUE)
    BY <1>5, SubPlace, NotMade DEF IsHere, Now
  <2>. QED
    BY <2>4, <2>5 DEF Current
<1>. QED
  BY <1>2, <1>3, <1>4, <1>5

\* PutSub replaces it, or appends it when the parser is in none.
LEMMA PutHere ==
  ASSUME Reading, pos.sub > 0, IsHere \/ Here.dummy, NEW x, PutSub(x)
  PROVE  /\ features' = [features EXCEPT ![pos.feature] = FeatureWith(x)]
         /\ sub' = pos.feature
<1> DEFINE f == pos.feature
           j == pos.sub
           F == file.doc[f]
<1>1. /\ f \in Nat /\ f > 0 /\ f # None /\ j \in Nat /\ j > 0 /\ Len(features) = f
  BY SubPlace, CurrentIs
<1>2. CASE IsHere
  <2>1. sub = f /\ features[f] = FeatureWith(Now)
    BY <1>2, CurrentIs
  <2>2. /\ sub' = f
        /\ features' = [features EXCEPT ![f].subs[Len(features[f].subs)] = x]
    BY <1>1, <2>1 DEF PutSub
  <2>3. features[f].subs = With(F, j, Now) /\ Len(With(F, j, Now)) = j
    <3>1. features[f].subs = With(F, j, Now)
      BY <2>1, FeatureOfSubs DEF FeatureWith
    <3>2. Len(With(F, j, Now)) = j
      BY <1>1, WithLen
    <3>. QED
      BY <3>1, <3>2
  <2>4. [features[f] EXCEPT !.subs[j] = x] = FeatureWith(x)
    <3>1. [features[f] EXCEPT !.subs[j] = x]
            = FeatureOf(F.name, F.desc, [With(F, j, Now) EXCEPT ![j] = x])
      BY <2>1, FeatureOfReplace DEF FeatureWith
    <3>2. [With(F, j, Now) EXCEPT ![j] = x] = With(F, j, x)
      BY <1>1, WithReplace
    <3>. QED
      BY <3>1, <3>2 DEF FeatureWith
  <2>5. features' = [features EXCEPT ![f] = [features[f] EXCEPT !.subs[j] = x]]
    BY <2>2, <2>3
  <2>. QED
    BY <2>2, <2>4, <2>5
<1>3. CASE ~IsHere /\ Here.dummy
  <2>1. sub = None /\ features[f] = FeatureOf(F.name, F.desc, Without(F, j))
    BY <1>3, CurrentIs
  <2>2. /\ sub' = f
        /\ features' = [features EXCEPT ![f] = WithSub(features[f], x)]
    BY <1>1, <2>1 DEF PutSub, LastFeature
  <2>3. WithSub(features[f], x) = FeatureWith(x)
    <3>1. WithSub(features[f], x) = FeatureOf(F.name, F.desc, Append(Without(F, j), x))
      BY <2>1, FeatureOfMore
    <3>2. Append(Without(F, j), x) = With(F, j, x)
      BY <1>1, WithAppend
    <3>. QED
      BY <3>1, <3>2 DEF FeatureWith
  <2>. QED
    BY <2>2, <2>3
<1>. QED
  BY <1>2, <1>3

\* Once it is there and what it is to be, all is.
LEMMA SoonKept ==
  ASSUME Reading, pos.sub > 0, IsSoon, sub' = pos.feature,
         features' = [features EXCEPT ![pos.feature] = FeatureWith(Soon)]
  PROVE  Kept
<1> DEFINE f == pos.feature
           j == pos.sub
           F == file.doc[f]
           g == FeatureUpTo(F, j, pos.table, pos.scalar + 1)
<1>1. f \in Nat /\ f > 0 /\ j \in Nat /\ j > 0
  BY SubPlace
<1>2. g = FeatureWith(Soon)
  BY <1>1, FeatureUpToIs DEF IsSoon, Soon, Here, FeatureWith
<1>3. /\ StoredAt(features', file.doc, Beyond) /\ Len(features') = f
      /\ features' # <<>> /\ Last(features') = g
  <2>1. HasBegun(pos)
    BY DEF HasBegun
  <2>. QED
    BY <1>1, <1>2, <2>1, ListKept
<1>4. Last(features').subs # <<>>
  <2>1. Last(features').subs = With(F, j, Soon)
    BY <1>2, <1>3, FeatureOfSubs DEF FeatureWith
  <2>2. With(F, j, Soon) # <<>>
    BY <1>1, WithLen
  <2>. QED
    BY <2>1, <2>2
<1>5. SubOK'
  BY <1>3, <1>4 DEF SubOK
<1>. QED
  BY <1>3, <1>5 DEF Kept

\* A scalar that changes nothing.
LEMMA SameKept ==
  ASSUME Reading, pos.sub > 0, Soon = Now, IsSoon <=> IsHere, features' = features,
         sub' = sub
  PROVE  Kept
<1> DEFINE f == pos.feature
           j == pos.sub
           F == file.doc[f]
           g == FeatureUpTo(F, j, pos.table, pos.scalar + 1)
<1>1. f \in Nat /\ f > 0 /\ j \in Nat /\ j > 0
  BY SubPlace
<1>2. g = features[f]
  <2>1. CASE IsHere
    <3>1. g = FeatureWith(Soon)
      BY <1>1, <2>1, FeatureUpToIs DEF IsSoon, Soon, Here, FeatureWith
    <3>. QED
      BY <2>1, <3>1, CurrentIs
  <2>2. CASE ~IsHere
    <3>1. g = FeatureOf(F.name, F.desc, Without(F, j))
      BY <1>1, <2>2, FeatureUpToIs DEF IsSoon, Here
    <3>. QED
      BY <2>2, <3>1, CurrentIs
  <2>. QED
    BY <2>1, <2>2
<1>3. StoredAt(features', file.doc, Beyond)
  <2>1. HasBegun(pos)
    BY DEF HasBegun
  <2>. QED
    BY <1>1, <1>2, <2>1, ListKept
<1>4. SubOK'
  BY DEF Reading, SubOK
<1>. QED
  BY <1>3, <1>4 DEF Kept

\* "sub_feature" begins it, a key changes nothing, and a table or a value goes to it.
LEMMA InSubStep ==
  ASSUME Reading, Progress, pos.sub > 0
  PROVE  Kept
<1>1. Scalar = Row[pos.scalar]
  BY DEF Scalar
<1>2. \/ Scalar = "sub_feature" /\ Soon = NewSub(FALSE) /\ ~IsHere /\ IsSoon
      \/ Scalar \in OtherKeys /\ Soon = Now /\ (IsSoon <=> IsHere)
      \/ /\ IsSoon /\ (Here.dummy \/ IsHere)
         /\ \/ Scalar = "table" /\ Soon = WithTables(Now, Append(Now.tables, NewTable))
            \/ /\ Scalar \in Text
               /\ \E key \in Keys : /\ LastKey(Row, pos.scalar, key)
                                    /\ Edits(Now, Soon, Scalar, key)
  <2>1. ASSUME NEW s, Proper(s), NEW t \in 0..Len(s.tables), NEW k \in Nat, k > 0, NEW row,
               row = RowOf(s, t), k <= Len(row)
        PROVE  LET c == SubUpTo(s, t, k)
                   n == SubUpTo(s, t, k + 1)
               IN  \/ /\ row[k] = "sub_feature" /\ n = NewSub(FALSE)
                      /\ ~IsMade(s, t, k) /\ IsMade(s, t, k + 1)
                   \/ /\ row[k] \in OtherKeys /\ n = c
                      /\ (IsMade(s, t, k + 1) <=> IsMade(s, t, k))
                   \/ /\ IsMade(s, t, k + 1) /\ (s.dummy \/ IsMade(s, t, k))
                      /\ \/ row[k] = "table" /\ n = WithTables(c, Append(c.tables, NewTable))
                         \/ /\ row[k] \in Text
                            /\ \E key \in Keys : LastKey(row, k, key) /\ Edits(c, n, row[k], key)
    BY <2>1, SubStep DEF RowOf
  <2>. QED
    BY <1>1, <2>1, SubPlace DEF Now, Soon, IsHere, IsSoon
<1>3. /\ "sub_feature" \in Keys /\ "table" \in Keys /\ OtherKeys \subseteq Keys
      /\ \A x \in Text : x \notin Keys
      /\ "sub_feature" \notin OtherKeys /\ "table" \notin OtherKeys /\ "feature" \notin OtherKeys
  BY DEF Keys, OtherKeys, Text
<1>4. ASSUME Scalar = "sub_feature", Soon = NewSub(FALSE), ~IsHere, IsSoon
      PROVE  Kept
  <2>1. AddSubFeature
    BY <1>3, <1>4, KeyDecides
  <2> DEFINE f == pos.feature
             j == pos.sub
             F == file.doc[f]
             x == NewSub(FALSE)
  <2>2. Len(features) = f /\ features[f] = FeatureOf(F.name, F.desc, Without(F, j))
    BY <1>4, CurrentIs
  <2>3. features' = [features EXCEPT ![f] = WithSub(features[f], x)] /\ sub' = f
    BY <2>1, <2>2 DEF AddSubFeature, LastFeature
  <2>. HIDE DEF x
  <2>4. WithSub(features[f], x) = FeatureWith(x)
    <3>1. WithSub(features[f], x) = FeatureOf(F.name, F.desc, Append(Without(F, j), x))
      BY <2>2, FeatureOfMore
    <3>2. Append(Without(F, j), x) = With(F, j, x)
      BY SubPlace, WithAppend
    <3>. QED
      BY <3>1, <3>2 DEF FeatureWith
  <2>5. Soon = x
    BY <1>4 DEF x
  <2>. QED
    BY <1>4, <2>3, <2>4, <2>5, SoonKept
<1>5. ASSUME Scalar \in OtherKeys, Soon = Now, IsSoon <=> IsHere
      PROVE  Kept
  <2>1. UNCHANGED <<features, sub, table>>
    BY <1>3, <1>5, KeyDecides
  <2>. QED
    BY <1>5, <2>1, SameKept
<1>6. ASSUME IsSoon, Here.dummy \/ IsHere PROVE PutSub(Soon) => Kept
  <2>. SUFFICES ASSUME PutSub(Soon) PROVE Kept
    OBVIOUS
  <2>1. /\ features' = [features EXCEPT ![pos.feature] = FeatureWith(Soon)]
        /\ sub' = pos.feature
    BY <1>6, PutHere
  <2>. QED
    BY <1>6, <2>1, SoonKept
<1>7. ASSUME Here.dummy \/ IsHere PROVE Current = Now
  BY <1>7, CurrentIs
<1>8. ASSUME IsSoon, Here.dummy \/ IsHere, Scalar = "table",
             Soon = WithTables(Now, Append(Now.tables, NewTable))
      PROVE  Kept
  <2>1. AddTable
    BY <1>3, <1>8, KeyDecides
  <2>2. PutSub(Soon)
    BY <1>7, <1>8, <2>1 DEF AddTable, WithTables
  <2>. QED
    BY <1>6, <1>8, <2>2
<1>9. ASSUME IsSoon, Here.dummy \/ IsHere, Scalar \in Text,
             NEW key \in Keys, LastKey(Row, pos.scalar, key), Edits(Now, Soon, Scalar, key)
      PROVE  Kept
  <2>1. current_state = key
    BY <1>9, CurrentKey DEF Reading
  <2>2. PutSub(Soon)
    BY <1>3, <1>7, <1>9, <2>1, ValueEdits
  <2>. QED
    BY <1>6, <1>9, <2>2
<1>. QED
  BY <1>2, <1>4, <1>5, <1>8, <1>9

-----------------------------------------------------------------------------
(* Every step.                                                             *)

\* A step of the parser that does not fail.
LEMMA ProgressKeeps == ASSUME Reading, Progress, IInv' PROVE FileInv'
<1>1. Move
  BY ProgressMoves
<1>2. /\ file \in Files /\ PositionOK /\ ~AtEnd /\ StateOK /\ FrontOK /\ parsing
      /\ pos.feature \in Nat /\ pos.sub \in Nat /\ pos.scalar \in Nat
      /\ pos.scalar <= Len(Row) /\ Len(Row) \in Nat
  BY ReadingType DEF Reading
<1>3. Kept
  <2>1. pos.sub = 0 \/ pos.sub > 0
    BY <1>2
  <2>2. pos.feature = 0 \/ pos.feature > 0
    BY <1>2
  <2>. QED
    BY <2>1, <2>2, FrontStep, HeadingStep, InSubStep
<1>4. /\ pos' = Following /\ file' = file /\ parsing'
  BY <1>1, <1>2 DEF Move
<1>5. StoredAt(features', file'.doc, pos')
  <2>1. features' \in Seq(Feature)
    BY DEF IInv
  <2>2. StoredAt(features', file.doc, Following)
    BY <1>2, <1>3, <2>1, EndOfRow DEF Kept
  <2>. QED
    BY <1>4, <2>2
<1>6. StateOK'
  BY <1>1, <1>2, StateKept
<1>7. FrontOK'
  <2>1. CASE pos.feature = 0
    <3>1. features' = <<>> /\ ~NamesAFeature(pos.scalar)
      BY <2>1, FrontStep
    <3>2. Row = file.stray
      BY <2>1 DEF Row
    <3>3. (IF pos'.feature = 0 THEN pos'.scalar - 1 ELSE Len(file.stray)) = pos.scalar
      <4>1. Subs = <<>> /\ Tables = <<>> /\ pos.sub = 0 /\ pos.table = 0
        <5>1. pos.sub = 0 /\ pos.table = 0
          BY <1>2, <2>1, RowType
        <5>. QED
          BY <2>1, <5>1 DEF Subs, Tables
      <4>2. Len(<<>>) = 0
        OBVIOUS
      <4>3. CASE pos.scalar < Len(Row)
        <5>1. pos'.feature = 0 /\ pos'.scalar = pos.scalar + 1
          BY <1>4, <2>1, <4>3 DEF Following, Place
        <5>. QED
          BY <1>2, <5>1
      <4>4. CASE ~(pos.scalar < Len(Row))
        <5>1. pos' = Place(0 + 1, 0, 0, 1)
          BY <1>4, <2>1, <4>1, <4>2, <4>4 DEF Following
        <5>2. pos'.feature # 0
          BY <5>1 DEF Place
        <5>. QED
          BY <1>2, <3>2, <4>4, <5>2
      <4>. QED
        BY <4>3, <4>4
    <3>. QED
      BY <1>4, <3>1, <3>3 DEF FrontOK, NamesAFeature
  <2>2. CASE pos.feature # 0
    <3>1. ~NamesAFeature(Len(file.stray))
      BY <1>2, <2>2 DEF FrontOK
    <3>2. pos'.feature # 0
      <4>1. pos'.feature = pos.feature \/ pos'.feature = pos.feature + 1
        BY <1>4 DEF Following, Place
      <4>. QED
        BY <1>2, <2>2, <4>1
    <3>. QED
      BY <1>4, <3>1, <3>2 DEF FrontOK, NamesAFeature
  <2>. QED
    BY <2>1, <2>2
<1>. QED
  BY <1>3, <1>4, <1>5, <1>6, <1>7 DEF FileInv, Kept

\* Where the file ends all of it is stored.
LEMMA EndIsMeaning ==
  ASSUME IInv, AtEnd, StoredAt(features, file.doc, pos)
  PROVE  features = Meaning(file.doc)
<1>1. file \in Files /\ PositionOK /\ features \in Seq(Feature)
  BY DEF IInv, ParserOK
<1>2. Len(file.doc) \in Nat /\ DOMAIN file.doc = 1..Len(file.doc)
  BY <1>1, DocType
<1>3. pos = Place(Len(file.doc) + 1, 0, 0, 1)
  BY <1>1 DEF PositionOK, Places
<1>4. pos.feature = Len(file.doc) + 1 /\ pos.sub = 0 /\ pos.scalar = 1
  BY <1>3 DEF Place
<1>5. ~HasBegun(pos) /\ pos.feature # 0
  BY <1>2, <1>4 DEF HasBegun
<1>6. Len(features) = Len(file.doc)
  BY <1>2, <1>4, <1>5 DEF StoredAt
<1>7. /\ DOMAIN features = 1..Len(file.doc)
      /\ features = [i \in 1..Len(file.doc) |-> features[i]]
  BY <1>1, <1>6
<1>8. \A i \in 1..Len(file.doc) : i < pos.feature
  BY <1>2, <1>4
<1>9. \A i \in 1..Len(file.doc) : features[i] = FeatureMeaning(file.doc[i])
  BY <1>7, <1>8 DEF StoredAt
<1>. QED
  BY <1>2, <1>7, <1>9 DEF Meaning

\* When the parser begins nothing is stored and nothing has been read.
LEMMA GetKeeps == ASSUME IInv, GetConfig PROVE FileInv'
<1>1. /\ features' = <<>> /\ parsing' /\ file' = file /\ pos' = Start /\ sub' = None
  BY DEF GetConfig
<1>2. file \in Files /\ Len(file.stray) \in Nat
  BY DocType DEF IInv, ParserOK
<1>3. /\ pos'.feature \in {0, 1} /\ pos'.sub = 0 /\ pos'.scalar = 1
      /\ pos'.feature = 1 => Len(file.stray) = 0
  <2>1. Len(<<>>) = 0
    OBVIOUS
  <2>. QED
    BY <1>1, <2>1 DEF Start, Place
<1>4. Len(<<>>) = 0 /\ DOMAIN <<>> = {} /\ 1..1 - 1 = {}
  OBVIOUS
<1>5. StoredAt(features', file'.doc, pos')
  <2>1. ~HasBegun(pos')
    BY <1>3 DEF HasBegun
  <2>2. StoredAt(<<>>, file.doc, pos')
    BY <1>3, <1>4, <2>1 DEF StoredAt
  <2>. QED
    BY <1>1, <2>2
<1>6. StateOK'
  BY <1>3, <1>4 DEF StateOK
<1>7. SubOK'
  BY <1>1 DEF SubOK
<1>8. FrontOK'
  <2>1. \A n \in {0} : 1..n - 1 = {}
    OBVIOUS
  <2>2. (IF pos'.feature = 0 THEN pos'.scalar - 1 ELSE Len(file'.stray)) = 0
    BY <1>1, <1>3
  <2>. QED
    BY <1>1, <2>1, <2>2 DEF FrontOK, NamesAFeature
<1>. QED
  BY <1>1, <1>5, <1>6, <1>7, <1>8 DEF FileInv

\* After an error nothing is left, and at the end all is there.
LEMMA StopKeeps == ASSUME IInv, FileInv, parsing, Fail \/ ParseEnd PROVE FileInv'
<1>1. CASE Fail
  BY <1>1 DEF Fail, FileInv, FrontOK
<1>2. CASE ParseEnd
  <2>1. features = Meaning(file.doc)
    BY <1>2, EndIsMeaning DEF ParseEnd, FileInv
  <2>2. FrontOK'
    BY <1>2 DEF ParseEnd, FileInv, FrontOK, NamesAFeature
  <2>. QED
    BY <1>2, <2>1, <2>2 DEF ParseEnd, FileInv
<1>. QED
  BY <1>1, <1>2

\* Every action keeps the invariant.
LEMMA FileInvNext == ASSUME IInv, FileInv, [Next]_vars PROVE FileInv'
<1>1. IInv'
  BY NextInv
<1>2. CASE Progress
  <2>1. parsing /\ ~AtEnd
    BY <1>2, ProgressMoves DEF Move, More
  <2>2. Reading
    BY <2>1 DEF Reading, FileInv
  <2>. QED
    BY <1>1, <1>2, <2>2, ProgressKeeps
<1>3. CASE Refused \/ ParseError
  <2>1. parsing /\ Fail
    BY <1>3 DEF Refused, ParseError, KeyFails, ValueFails, More
  <2>. QED
    BY <2>1, StopKeeps
<1>4. CASE ParseEnd
  BY <1>4, StopKeeps DEF ParseEnd
<1>5. CASE UNCHANGED vars
  <2>1. UNCHANGED <<file, features, parsing, pos, current_state, sub, table>>
    BY <1>5 DEF vars
  <2>2. UNCHANGED Row
    BY <2>1 DEF Row, Tables, Subs
  <2>3. StateOK => StateOK'
    BY <2>1, <2>2 DEF StateOK
  <2>4. SubOK => SubOK'
    BY <2>1 DEF SubOK
  <2>5. FrontOK => FrontOK'
    BY <2>1 DEF FrontOK, NamesAFeature
  <2>. QED
    BY <2>1, <2>3, <2>4, <2>5 DEF FileInv
<1>. QED
  BY <1>2, <1>3, <1>4, <1>5, GetKeeps DEF Next, Progress

\* What the parser has stored is at every scalar what the file has up to there:
\* the list is a function of the parser's place, and so are the key that it goes
\* by and the sub feature in hand.
THEOREM FileInvariance == Spec => []FileInv
<1>1. Init => FileInv
  BY DEF Init, FileInv, FrontOK
<1>. QED
  BY <1>1, FileInvNext, Invariance, PTL DEF Spec

\* The configuration is all of the file or nothing, whatever the file has and
\* wherever the parser is stopped, but for the strings of `nulls': an allocation
\* that fails ends it, and only the copy of a string that fails goes unnoticed.
THEOREM ConfigCorrect == Spec => []ConfigIsFile
<1>1. FileInv => ConfigIsFile
  BY DEF FileInv, ConfigIsFile
<1>. QED
  BY <1>1, FileInvariance, PTL
=============================================================================
