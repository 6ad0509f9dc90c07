--------------------------- MODULE EventLogProofs ---------------------------
(***************************************************************************)
(* Proofs about EventLog and Events, for every file of events, every set   *)
(* of categories and names that the daemons use, and every capacity.       *)
(***************************************************************************)
EXTENDS Events, SequenceTheorems, FiniteSetTheorems, TLAPS

-----------------------------------------------------------------------------
(* The events of the file.                                                 *)

LEMMA DocFacts ==
  /\ Len(Doc) \in Nat /\ DOMAIN Doc = 1..Len(Doc)
  /\ MaxEvents \in Nat /\ MaxCategories \in Nat /\ Len(Doc) < MaxEvents
  /\ Len(Headings) \in Nat /\ DOMAIN Headings = 1..Len(Headings)
  /\ IsFiniteSet(DOMAIN Doc) /\ Cardinality(DOMAIN Doc) = Len(Doc)
<1>1. /\ Len(Doc) \in Nat /\ DOMAIN Doc = 1..Len(Doc)
      /\ Len(Headings) \in Nat /\ DOMAIN Headings = 1..Len(Headings)
  BY TextsAssumption, LenProperties DEF TextsAssumption
<1>2. MaxEvents \in Nat /\ MaxCategories \in Nat /\ Len(Doc) < MaxEvents
  BY TextsAssumption, FileFits DEF TextsAssumption, FileFits
<1>3. IsFiniteSet(1..Len(Doc)) /\ Cardinality(1..Len(Doc)) = Len(Doc)
  <2>1. 1 \in Int /\ Len(Doc) \in Int
    BY <1>1
  <2>2. /\ IsFiniteSet(1..Len(Doc))
        /\ Cardinality(1..Len(Doc)) = IF 1 > Len(Doc) THEN 0 ELSE Len(Doc) - 1 + 1
    BY <2>1, FS_Interval
  <2> QED
    BY <2>2, <1>1
<1> QED
  BY <1>1, <1>2, <1>3

LEMMA DocTexts ==
  ASSUME NEW i \in DOMAIN Doc
  PROVE  /\ {Doc[i].name, Doc[i].id, Doc[i].severity, Doc[i].keys,
             Doc[i].template} \cap (Keys \cup Asked) = {}
         /\ Doc[i].category \notin Keys
         /\ Doc[i].name \notin {Blank, Delimiter}
         /\ Len(KeysOf[Doc[i].keys]) \in Nat
BY TextsAssumption DEF TextsAssumption

\* Sets of events: they take the slots of the table one by one.
LEMMA EventsCount ==
  ASSUME NEW S \in SUBSET DOMAIN Doc
  PROVE  IsFiniteSet(S) /\ Cardinality(S) \in 0..Len(Doc)
<1>1. IsFiniteSet(S) /\ Cardinality(S) <= Len(Doc)
  BY DocFacts, FS_Subset
<1>2. Cardinality(S) \in Nat
  BY <1>1, FS_CardinalityType
<1> QED
  BY <1>1, <1>2, DocFacts

LEMMA NextEvent ==
  ASSUME NEW S \in SUBSET DOMAIN Doc, NEW i \in DOMAIN Doc, i \notin S
  PROVE  /\ Cardinality(S \cup {i}) = Cardinality(S) + 1
         /\ Cardinality(S) < Len(Doc)
<1>1. Cardinality(S \cup {i}) = Cardinality(S) + 1
  BY EventsCount, FS_AddElement
<1>2. Cardinality(S \cup {i}) \in 0..Len(Doc) /\ Cardinality(S) \in 0..Len(Doc)
  BY EventsCount
<1> QED
  BY <1>1, <1>2, DocFacts

LEMMA FewerEvents ==
  ASSUME NEW T \in SUBSET DOMAIN Doc, NEW S \in SUBSET T, NEW i \in T \ S
  PROVE  Cardinality(S) < Cardinality(T)
<1>1. Cardinality(S \cup {i}) <= Cardinality(T)
  BY EventsCount, FS_Subset
<1>2. Cardinality(S \cup {i}) = Cardinality(S) + 1
  BY NextEvent
<1>3. Cardinality(S) \in 0..Len(Doc) /\ Cardinality(T) \in 0..Len(Doc)
  BY EventsCount
<1> QED
  BY <1>1, <1>2, <1>3, DocFacts

-----------------------------------------------------------------------------
(* One scalar, whatever it is.                                             *)

ParseRecord(c, pos, n, b, d, e, v, f, a) ==
  [category |-> c, pos |-> pos, index |-> n, buf |-> b, def |-> d, evt |-> e,
   val |-> v, found |-> f, any |-> a]

LEMMA RecordGet ==
  ASSUME NEW c, NEW pos, NEW n, NEW b, NEW d, NEW e, NEW v, NEW f, NEW a,
         NEW p, p = ParseRecord(c, pos, n, b, d, e, v, f, a)
  PROVE  /\ p.category = c /\ p.pos = pos /\ p.index = n /\ p.buf = b
         /\ p.def = d /\ p.evt = e /\ p.val = v /\ p.found = f /\ p.any = a
BY DEF ParseRecord

\* The value that a key announces.
NextVal(d, e, v, s) ==
  CASE s = "event_name" /\ d = 1 -> 1
    [] s = "event_ID" /\ d = 1 -> 2
    [] s = "severity" /\ e = 1 -> 3
    [] s = "keys" /\ e = 1 -> 4
    [] s = "event_description_template" /\ e = 1 -> 5
    [] OTHER -> v

\* A key changes nothing but the flags.
LEMMA KeyStep ==
  ASSUME NEW c, NEW pos, NEW n, NEW b, NEW d, NEW e, NEW v, NEW f, NEW a,
         NEW s \in Keys,
         parse = ParseRecord(c, pos, n, b, d, e, v, f, a),
         s = ScalarAt(pos), c \notin Keys, v # 1, f = 0 \/ v = 0,
         Scalar
  PROVE  /\ table' = table
         /\ parse' = ParseRecord(c, Following(pos), n, b,
                       IF s = "event_definitions" THEN 1 ELSE d,
                       IF s = "event_category" /\ d = 1 THEN 1 ELSE e,
                       NextVal(d, e, v, s), f, a)
<1>0. /\ parse.category = c /\ parse.pos = pos /\ parse.def = d
      /\ parse.evt = e /\ parse.val = v /\ parse.found = f
  BY RecordGet
<1>1. Named(parse, s) = parse
  BY <1>0 DEF Named
<1>2. ~IsMatch(parse, s)
  BY <1>0 DEF IsMatch
<1>3. Matched(parse, s) = parse
  BY <1>2 DEF Matched
<1>4. Assigned(parse) = parse
  <2>1. CASE f = 0
    BY <2>1, <1>0 DEF Assigned
  <2>2. CASE v = 0
    <3>1. [parse EXCEPT !.val = 0] = parse
      BY <2>2 DEF ParseRecord
    <3> QED
      BY <3>1, <2>2, <1>0 DEF Assigned
  <2> QED
    BY <2>1, <2>2
<1>5. parse.found = 1 => WithValue(table, parse, s) = table
  BY <1>0 DEF WithValue
<1>6. table' = table
  BY <1>0, <1>1, <1>2, <1>3, <1>5 DEF Scalar
<1>7. parse' = [Flagged(parse, s) EXCEPT !.pos = Following(@)]
  BY <1>0, <1>1, <1>3, <1>4 DEF Scalar
<1>8. Flagged(parse, s) = ParseRecord(c, pos, n, b,
                            IF s = "event_definitions" THEN 1 ELSE d,
                            IF s = "event_category" /\ d = 1 THEN 1 ELSE e,
                            NextVal(d, e, v, s), f, a)
  <2>1. CASE s = "event_definitions"
    BY <2>1 DEF Flagged, ParseRecord, NextVal
  <2>2. CASE s = "event_category"
    BY <2>2, <1>0 DEF Flagged, ParseRecord, NextVal
  <2>3. CASE s \in {"event_name", "event_ID"}
    BY <2>3, <1>0 DEF Flagged, ParseRecord, NextVal
  <2>4. CASE s \in {"severity", "keys", "event_description_template"}
    BY <2>4, <1>0 DEF Flagged, ParseRecord, NextVal
  <2>5. CASE s \in {"categories", "description"}
    BY <2>5 DEF Flagged, ParseRecord, NextVal
  <2> QED
    BY <2>1, <2>2, <2>3, <2>4, <2>5 DEF Keys
<1> QED
  BY <1>6, <1>7, <1>8 DEF ParseRecord

\* Any other text raises no flag.
LEMMA NoKey ==
  ASSUME NEW p, NEW s, s \notin Keys
  PROVE  Flagged(p, s) = p
BY DEF Flagged, Keys

\* The name of an event is kept until its category is known.
LEMMA NameStep ==
  ASSUME NEW c, NEW pos, NEW n, NEW b, NEW d, NEW e, NEW a, NEW s,
         parse = ParseRecord(c, pos, n, b, d, e, 1, 0, a),
         s = ScalarAt(pos), s \notin Keys, s # c,
         Scalar
  PROVE  /\ table' = table
         /\ parse' = ParseRecord(c, Following(pos), n, s, d, e, 0, 0, a)
<1> SUFFICES ASSUME NEW p, p = ParseRecord(c, pos, n, s, d, e, 0, 0, a)
             PROVE  /\ table' = table
                    /\ parse' = ParseRecord(c, Following(pos), n, s, d, e, 0, 0, a)
  OBVIOUS
<1>0. parse.val = 1
  BY RecordGet
<1>1. Named(parse, s) = p
  <2>1. PICK q : q = [parse EXCEPT !.buf = s]
    OBVIOUS
  <2>2. q = ParseRecord(c, pos, n, s, d, e, 1, 0, a)
    BY <2>1 DEF ParseRecord
  <2>3. [q EXCEPT !.val = 0] = p
    BY <2>2 DEF ParseRecord
  <2> QED
    BY <1>0, <2>1, <2>3 DEF Named
<1>2. p.category = c /\ p.pos = pos /\ p.found = 0 /\ parse.pos = pos
  BY RecordGet
<1>3. ~IsMatch(p, s)
  BY <1>2 DEF IsMatch
<1>4. Matched(p, s) = p
  BY <1>3 DEF Matched
<1>5. Assigned(p) = p
  BY <1>2 DEF Assigned
<1>6. Flagged(p, s) = p
  BY NoKey
<1>7. table' = table /\ parse' = [p EXCEPT !.pos = Following(@)]
  BY <1>1, <1>2, <1>3, <1>4, <1>5, <1>6 DEF Scalar
<1>8. [p EXCEPT !.pos = Following(pos)]
        = ParseRecord(c, Following(pos), n, s, d, e, 0, 0, a)
  BY DEF ParseRecord
<1> QED
  BY <1>7, <1>2, <1>8

\* The category of an event: if it is the one asked for, the event gets a slot.
LEMMA CategoryStep ==
  ASSUME NEW c, NEW pos, NEW n, NEW b, NEW d, NEW a, NEW s,
         parse = ParseRecord(c, pos, n, b, d, 1, 0, 0, a),
         s = ScalarAt(pos), s \notin Keys, s = c,
         Scalar
  PROVE  /\ table' = [table EXCEPT ![n].name = b, ![n].category = c]
         /\ parse' = ParseRecord(c, Following(pos), n, b, d, 1, 0, 1, 1)
<1> SUFFICES ASSUME NEW p, p = ParseRecord(c, pos, n, b, d, 1, 0, 1, 1)
             PROVE  /\ table' = [table EXCEPT ![n].name = b, ![n].category = c]
                    /\ parse' = ParseRecord(c, Following(pos), n, b, d, 1, 0, 1, 1)
  OBVIOUS
<1>1. /\ parse.category = c /\ parse.pos = pos /\ parse.evt = 1 /\ parse.val = 0
      /\ p.category = c /\ p.pos = pos /\ p.evt = 1 /\ p.val = 0 /\ p.found = 1
      /\ p.index = n /\ p.buf = b
  BY RecordGet
<1>2. Named(parse, s) = parse
  BY <1>1 DEF Named
<1>3. IsMatch(p, s) /\ IsMatch(parse, s)
  BY <1>1 DEF IsMatch
<1>4. [parse EXCEPT !.found = 1, !.any = 1] = p
  <2>1. PICK q : q = [parse EXCEPT !.found = 1]
    OBVIOUS
  <2>2. q = ParseRecord(c, pos, n, b, d, 1, 0, 1, a)
    BY <2>1 DEF ParseRecord
  <2>3. [q EXCEPT !.any = 1] = p
    BY <2>2 DEF ParseRecord
  <2> QED
    BY <2>1, <2>3
<1>5. Matched(parse, s) = p
  BY <1>3, <1>4 DEF Matched
<1>6. [p EXCEPT !.val = 0] = p
  BY DEF ParseRecord
<1>7. Assigned(p) = p
  BY <1>1, <1>6 DEF Assigned
<1>8. Flagged(p, s) = p
  BY NoKey
<1>9. \A t : WithValue(t, p, s) = t
  BY <1>1 DEF WithValue
<1>10. WithName(table, p) = [table EXCEPT ![n].name = b, ![n].category = c]
  BY <1>1 DEF WithName
<1>11. table' = WithName(table, p) /\ parse' = [p EXCEPT !.pos = Following(@)]
  BY <1>1, <1>2, <1>3, <1>5, <1>7, <1>8, <1>9 DEF Scalar
<1>12. [p EXCEPT !.pos = Following(pos)]
         = ParseRecord(c, Following(pos), n, b, d, 1, 0, 1, 1)
  BY DEF ParseRecord
<1> QED
  BY <1>1, <1>10, <1>11, <1>12

\* Values of events that are not asked for, and the descriptions.
LEMMA OtherStep ==
  ASSUME NEW c, NEW pos, NEW n, NEW b, NEW d, NEW e, NEW v, NEW f, NEW a, NEW s,
         parse = ParseRecord(c, pos, n, b, d, e, v, f, a),
         s = ScalarAt(pos), s \notin Keys, s # c \/ e = 0, v # 1, f = 0 \/ v = 0,
         Scalar
  PROVE  /\ table' = table
         /\ parse' = ParseRecord(c, Following(pos), n, b, d, e, v, f, a)
<1>1. /\ parse.category = c /\ parse.pos = pos
      /\ parse.evt = e /\ parse.val = v /\ parse.found = f
  BY RecordGet
<1>2. Named(parse, s) = parse
  BY <1>1 DEF Named
<1>3. ~IsMatch(parse, s)
  BY <1>1 DEF IsMatch
<1>4. Matched(parse, s) = parse
  BY <1>3 DEF Matched
<1>5. Assigned(parse) = parse
  <2>1. CASE f = 0
    BY <2>1, <1>1 DEF Assigned
  <2>2. CASE v = 0
    <3>1. [parse EXCEPT !.val = 0] = parse
      BY <2>2 DEF ParseRecord
    <3> QED
      BY <3>1, <2>2, <1>1 DEF Assigned
  <2> QED
    BY <2>1, <2>2
<1>6. Flagged(parse, s) = parse
  BY NoKey
<1>7. parse.found = 1 => WithValue(table, parse, s) = table
  BY <1>1 DEF WithValue
<1>8. table' = table /\ parse' = [parse EXCEPT !.pos = Following(@)]
  BY <1>1, <1>2, <1>3, <1>4, <1>5, <1>6, <1>7 DEF Scalar
<1>9. [parse EXCEPT !.pos = Following(pos)]
        = ParseRecord(c, Following(pos), n, b, d, e, v, f, a)
  BY DEF ParseRecord
<1> QED
  BY <1>1, <1>8, <1>9

\* A value of an event that is asked for goes to its slot.
LEMMA ValueStep ==
  ASSUME NEW c, NEW pos, NEW n, NEW b, NEW d, NEW e, NEW v \in 2..5, NEW a, NEW s,
         parse = ParseRecord(c, pos, n, b, d, e, v, 1, a),
         s = ScalarAt(pos), s \notin Keys, s # c,
         Scalar
  PROVE  /\ table' = WithValue(table, [index |-> n, val |-> v], s)
         /\ parse' = IF v = 5
              THEN ParseRecord(c, Following(pos), n + 1, b, d, e, 0, 0, a)
              ELSE ParseRecord(c, Following(pos), n, b, d, e, 0, 1, a)
<1>1. /\ parse.category = c /\ parse.pos = pos /\ parse.index = n
      /\ parse.evt = e /\ parse.val = v /\ parse.found = 1
  BY RecordGet
<1>2. Named(parse, s) = parse
  BY <1>1 DEF Named
<1>3. ~IsMatch(parse, s)
  BY <1>1 DEF IsMatch
<1>4. Matched(parse, s) = parse
  BY <1>3 DEF Matched
<1>5. WithValue(table, parse, s) = WithValue(table, [index |-> n, val |-> v], s)
  BY <1>1 DEF WithValue
<1>6. table' = WithValue(table, parse, s)
  BY <1>1, <1>2, <1>3, <1>4 DEF Scalar
<1>7. parse' = [Flagged(Assigned(parse), s) EXCEPT !.pos = Following(@)]
  BY <1>1, <1>2, <1>4 DEF Scalar
<1>8. ASSUME NEW p, Assigned(parse) = p, p.pos = pos
      PROVE  parse' = [p EXCEPT !.pos = Following(pos)]
  BY <1>7, <1>8, NoKey
<1>9. ASSUME v = 5
      PROVE  parse' = ParseRecord(c, Following(pos), n + 1, b, d, e, 0, 0, a)
  <2> SUFFICES ASSUME NEW m, m = n + 1,
                      NEW p, p = ParseRecord(c, pos, m, b, d, e, 0, 0, a)
               PROVE  parse' = ParseRecord(c, Following(pos), m, b, d, e, 0, 0, a)
    OBVIOUS
  <2>2. [parse EXCEPT !.val = 0, !.found = 0, !.index = m] = p
    <3>1. PICK q : q = [parse EXCEPT !.val = 0]
      OBVIOUS
    <3>2. q = ParseRecord(c, pos, n, b, d, e, 0, 1, a)
      BY <3>1 DEF ParseRecord
    <3>3. PICK r : r = [q EXCEPT !.found = 0]
      OBVIOUS
    <3>4. r = ParseRecord(c, pos, n, b, d, e, 0, 0, a)
      BY <3>2, <3>3 DEF ParseRecord
    <3>5. [r EXCEPT !.index = m] = p
      BY <3>4 DEF ParseRecord
    <3> QED
      BY <3>1, <3>3, <3>5
  <2>3. Assigned(parse) = [parse EXCEPT !.val = 0, !.found = 0, !.index = parse.index + 1]
    BY <1>1, <1>9 DEF Assigned
  <2>4. Assigned(parse) = p
    BY <2>2, <2>3, <1>1
  <2>5. p.pos = pos
    BY RecordGet
  <2>6. [p EXCEPT !.pos = Following(pos)]
          = ParseRecord(c, Following(pos), m, b, d, e, 0, 0, a)
    BY DEF ParseRecord
  <2> QED
    BY <1>8, <2>4, <2>5, <2>6
<1>10. ASSUME v # 5
      PROVE  parse' = ParseRecord(c, Following(pos), n, b, d, e, 0, 1, a)
  <2> SUFFICES ASSUME NEW p, p = ParseRecord(c, pos, n, b, d, e, 0, 1, a)
               PROVE  parse' = ParseRecord(c, Following(pos), n, b, d, e, 0, 1, a)
    OBVIOUS
  <2>1. Assigned(parse) = [parse EXCEPT !.val = 0]
    BY <1>1, <1>10 DEF Assigned
  <2>2. [parse EXCEPT !.val = 0] = p
    BY DEF ParseRecord
  <2>3. p.pos = pos
    BY RecordGet
  <2>4. [p EXCEPT !.pos = Following(pos)]
          = ParseRecord(c, Following(pos), n, b, d, e, 0, 1, a)
    BY DEF ParseRecord
  <2> QED
    BY <1>8, <2>1, <2>2, <2>3, <2>4
<1> QED
  BY <1>5, <1>6, <1>9, <1>10

-----------------------------------------------------------------------------
(* What the scanner writes to the table.                                   *)

SlotRecord(n, c, i, s, k, t) ==
  [name |-> n, category |-> c, id |-> i, severity |-> s, keys |-> k, template |-> t]

\* The slot at the end of the table is written, the others stay.
LEMMA PutSlot ==
  ASSUME NEW n, NEW old, Frontier(n, old), NEW new,
         table' = [table EXCEPT ![n] = new]
  PROVE  Frontier(n, new)' /\ \A s \in 0..MaxEvents \ {n} : table'[s] = table[s]
<1>1. table' = [s \in 0..MaxEvents |-> IF s = n THEN new ELSE table[s]]
  BY DEF Frontier
<1>2. n \in 0..MaxEvents - 1 /\ MaxEvents \in Nat
  BY DocFacts DEF Frontier
<1>3. table'[n] = new /\ \A s \in 0..MaxEvents \ {n} : table'[s] = table[s]
  BY <1>1, <1>2
<1>4. table' = [s \in 0..MaxEvents |-> table'[s]]
  BY <1>1
<1>5. \A s \in 0..n - 1 : \E i \in DOMAIN Doc : table'[s] = EntryOf(Doc[i])
  <2> SUFFICES ASSUME NEW s \in 0..n - 1
               PROVE  \E i \in DOMAIN Doc : table'[s] = EntryOf(Doc[i])
    OBVIOUS
  <2>1. s \in 0..MaxEvents \ {n}
    BY <1>2
  <2> QED
    BY <2>1, <1>3 DEF Frontier
<1>6. \A s \in n + 1..MaxEvents : table'[s] = Unwritten
  <2> SUFFICES ASSUME NEW s \in n + 1..MaxEvents
               PROVE  table'[s] = Unwritten
    OBVIOUS
  <2>1. s \in 0..MaxEvents \ {n}
    BY <1>2
  <2> QED
    BY <2>1, <1>3 DEF Frontier
<1> QED
  BY <1>2, <1>3, <1>4, <1>5, <1>6 DEF Frontier

LEMMA PutName ==
  ASSUME NEW m, NEW n, NEW c, NEW i, NEW s, NEW k, NEW t,
         Frontier(m, SlotRecord(n, c, i, s, k, t)), NEW x, NEW y,
         table' = [table EXCEPT ![m].name = x, ![m].category = y]
  PROVE  /\ Frontier(m, SlotRecord(x, y, i, s, k, t))'
         /\ \A j \in 0..MaxEvents \ {m} : table'[j] = table[j]
<1>1. m \in 0..MaxEvents /\ table = [j \in 0..MaxEvents |-> table[j]]
  BY DocFacts DEF Frontier
<1>2. PICK old : old = table[m]
  OBVIOUS
<1>3. old = SlotRecord(n, c, i, s, k, t)
  BY <1>2 DEF Frontier
<1>4. PICK q : q = [old EXCEPT !.name = x]
  OBVIOUS
<1>5. q = SlotRecord(x, c, i, s, k, t)
  BY <1>3, <1>4 DEF SlotRecord
<1>6. [q EXCEPT !.category = y] = SlotRecord(x, y, i, s, k, t)
  BY <1>5 DEF SlotRecord
<1>7. PICK u : u = [table EXCEPT ![m] = q]
  OBVIOUS
<1>8. u = [table EXCEPT ![m].name = x]
  BY <1>2, <1>4, <1>7
<1>9. table' = [u EXCEPT ![m].category = y]
  BY <1>8
<1>10. u[m] = q
  BY <1>1, <1>7
<1>11. table' = [u EXCEPT ![m] = SlotRecord(x, y, i, s, k, t)]
  BY <1>6, <1>9, <1>10
<1>12. table' = [table EXCEPT ![m] = SlotRecord(x, y, i, s, k, t)]
  BY <1>1, <1>7, <1>11
<1> QED
  BY <1>12, PutSlot

LEMMA PutId ==
  ASSUME NEW m, NEW n, NEW c, NEW i, NEW s, NEW k, NEW t,
         Frontier(m, SlotRecord(n, c, i, s, k, t)), NEW x,
         table' = [table EXCEPT ![m].id = x]
  PROVE  /\ Frontier(m, SlotRecord(n, c, x, s, k, t))'
         /\ \A j \in 0..MaxEvents \ {m} : table'[j] = table[j]
<1>1. PICK old : old = table[m]
  OBVIOUS
<1>2. old = SlotRecord(n, c, i, s, k, t)
  BY <1>1 DEF Frontier
<1>3. [old EXCEPT !.id = x] = SlotRecord(n, c, x, s, k, t)
  BY <1>2 DEF SlotRecord
<1>4. table' = [table EXCEPT ![m] = SlotRecord(n, c, x, s, k, t)]
  BY <1>1, <1>3
<1> QED
  BY <1>4, PutSlot
LEMMA PutSeverity ==
  ASSUME NEW m, NEW n, NEW c, NEW i, NEW s, NEW k, NEW t,
         Frontier(m, SlotRecord(n, c, i, s, k, t)), NEW x,
         table' = [table EXCEPT ![m].severity = x]
  PROVE  /\ Frontier(m, SlotRecord(n, c, i, x, k, t))'
         /\ \A j \in 0..MaxEvents \ {m} : table'[j] = table[j]
<1>1. PICK old : old = table[m]
  OBVIOUS
<1>2. old = SlotRecord(n, c, i, s, k, t)
  BY <1>1 DEF Frontier
<1>3. [old EXCEPT !.severity = x] = SlotRecord(n, c, i, x, k, t)
  BY <1>2 DEF SlotRecord
<1>4. table' = [table EXCEPT ![m] = SlotRecord(n, c, i, x, k, t)]
  BY <1>1, <1>3
<1> QED
  BY <1>4, PutSlot

LEMMA PutKeys ==
  ASSUME NEW m, NEW n, NEW c, NEW i, NEW s, NEW k, NEW t,
         Frontier(m, SlotRecord(n, c, i, s, k, t)), NEW x,
         table' = [table EXCEPT ![m].keys = x]
  PROVE  /\ Frontier(m, SlotRecord(n, c, i, s, x, t))'
         /\ \A j \in 0..MaxEvents \ {m} : table'[j] = table[j]
<1>1. PICK old : old = table[m]
  OBVIOUS
<1>2. old = SlotRecord(n, c, i, s, k, t)
  BY <1>1 DEF Frontier
<1>3. [old EXCEPT !.keys = x] = SlotRecord(n, c, i, s, x, t)
  BY <1>2 DEF SlotRecord
<1>4. table' = [table EXCEPT ![m] = SlotRecord(n, c, i, s, x, t)]
  BY <1>1, <1>3
<1> QED
  BY <1>4, PutSlot

\* With its template a slot is complete, and the delimiter follows.
LEMMA PutTemplate ==
  ASSUME NEW m, NEW n, NEW c, NEW i, NEW s, NEW k, NEW t,
         Frontier(m, SlotRecord(n, c, i, s, k, t)), NEW x,
         NEW e \in DOMAIN Doc, EntryOf(Doc[e]) = SlotRecord(n, c, i, s, k, x),
         NEW l \in 0..MaxEvents - 1, l = m + 1,
         NEW p, p.index = m, p.val = 5, table' = WithValue(table, p, x)
  PROVE  /\ Frontier(l, Marked(Delimiter))'
         /\ table'[m] = EntryOf(Doc[e])
         /\ \A j \in 0..m - 1 : table'[j] = table[j]
<1>1. /\ m \in 0..MaxEvents /\ l \in 0..MaxEvents - 1 /\ m # l /\ MaxEvents \in Nat
      /\ table = [j \in 0..MaxEvents |-> table[j]]
  BY DocFacts DEF Frontier
<1>2. PICK old : old = table[m]
  OBVIOUS
<1>3. old = SlotRecord(n, c, i, s, k, t)
  BY <1>2 DEF Frontier
<1>4. [old EXCEPT !.template = x] = SlotRecord(n, c, i, s, k, x)
  BY <1>3 DEF SlotRecord
<1>5. PICK u : u = [table EXCEPT ![m] = EntryOf(Doc[e])]
  OBVIOUS
<1>6. u = [table EXCEPT ![m].template = x]
  BY <1>2, <1>4, <1>5
<1>7. table' = [u EXCEPT ![l].name = Delimiter]
  <2>1. table' = [table EXCEPT ![m].template = x, ![l].name = Delimiter]
    BY DEF WithValue
  <2> QED
    BY <2>1, <1>6
<1>8. u[l] = Unwritten
  <2>1. l \in m + 1..MaxEvents /\ l \in 0..MaxEvents
    BY <1>1
  <2>2. table[l] = Unwritten
    BY <2>1 DEF Frontier
  <2>3. u[l] = table[l]
    BY <1>1, <1>5, <2>1
  <2> QED
    BY <2>2, <2>3
<1>9. table' = [u EXCEPT ![l] = Marked(Delimiter)]
  BY <1>7, <1>8 DEF Marked
<1>10. u = [j \in 0..MaxEvents |-> IF j = m THEN EntryOf(Doc[e]) ELSE table[j]]
  BY <1>1, <1>5
<1>11. table' = [j \in 0..MaxEvents |->
          IF j = l THEN Marked(Delimiter)
          ELSE IF j = m THEN EntryOf(Doc[e]) ELSE table[j]]
  BY <1>1, <1>9, <1>10
<1>12. table' = [j \in 0..MaxEvents |-> table'[j]]
  BY <1>11
<1>13. table'[l] = Marked(Delimiter) /\ table'[m] = EntryOf(Doc[e])
  <2>1. l \in 0..MaxEvents /\ m \in 0..MaxEvents
    BY <1>1
  <2> QED
    BY <2>1, <1>1, <1>11
<1>14. \A j \in 0..m - 1 : table'[j] = table[j]
  BY <1>1, <1>11
<1>15. \A j \in 0..l - 1 : \E d \in DOMAIN Doc : table'[j] = EntryOf(Doc[d])
  <2> SUFFICES ASSUME NEW j \in 0..l - 1
               PROVE  \E d \in DOMAIN Doc : table'[j] = EntryOf(Doc[d])
    OBVIOUS
  <2>1. CASE j = m
    BY <2>1, <1>13
  <2>2. CASE j # m
    <3>1. j \in 0..m - 1
      BY <2>2, <1>1
    <3> QED
      BY <3>1, <1>14 DEF Frontier
  <2> QED
    BY <2>1, <2>2
<1>16. \A j \in l + 1..MaxEvents : table'[j] = Unwritten
  <2> SUFFICES ASSUME NEW j \in l + 1..MaxEvents
               PROVE  table'[j] = Unwritten
    OBVIOUS
  <2>1. j \in 0..MaxEvents /\ j # m /\ j # l /\ j \in m + 1..MaxEvents
    BY <1>1
  <2>2. table[j] = Unwritten
    BY <2>1 DEF Frontier
  <2> QED
    BY <2>1, <2>2, <1>11
<1> QED
  BY <1>1, <1>12, <1>13, <1>14, <1>15, <1>16 DEF Frontier

-----------------------------------------------------------------------------
(* Slots.                                                                  *)

\* The events recorded are below the end of the table.
LEMMA RecordedBelow ==
  ASSUME CategoriesInv, NEW a \in DOMAIN categories, NEW i \in DOMAIN Doc,
         Doc[i].category = categories[a]
  PROVE  Slot(a, i) \in Nat /\ Slot(a, i) < Cardinality(Loaded)
<1>0. /\ DOMAIN categories = 1..Len(categories) /\ Len(categories) \in Nat
      /\ \A x, y \in DOMAIN categories : categories[x] = categories[y] => x = y
  BY DEF CategoriesInv
<1>1. InFrontOf(a, i) \subseteq Loaded
  BY <1>0 DEF InFrontOf, Loaded, ToSet
<1>2. i \in Loaded
  BY DEF Loaded, ToSet
<1>3. i \notin InFrontOf(a, i)
  <2> SUFFICES ASSUME NEW b \in 1..a - 1, Doc[i].category = categories[b]
               PROVE  FALSE
    BY DocFacts DEF InFrontOf
  <2>1. b \in DOMAIN categories /\ b # a
    BY <1>0
  <2> QED
    BY <1>0, <2>1
<1>4. Loaded \subseteq DOMAIN Doc
  BY DEF Loaded
<1>5. Cardinality(InFrontOf(a, i)) < Cardinality(Loaded)
  BY <1>1, <1>2, <1>3, <1>4, FewerEvents
<1>6. Cardinality(InFrontOf(a, i)) \in 0..Len(Doc)
  BY <1>1, <1>4, EventsCount
<1> QED
  BY <1>5, <1>6 DEF Slot

\* So are those of the category that is scanned.
LEMMA SeenBelow ==
  ASSUME ParseInv, TypeOK, pc = "scan", NEW i \in DOMAIN Doc, Current(i), Seen(i)
  PROVE  NextSlot(i) \in Nat /\ NextSlot(i) < Cardinality(Held)
<1> DEFINE S == Loaded \cup {j \in DOMAIN Doc : Current(j) /\ j < i}
<1>1. parse.category \notin ToSet(categories)
  BY DEF ParseInv
<1>2. i \notin Loaded /\ i \in Held
  BY <1>1 DEF Loaded, Held, Current
<1>3. \A j \in DOMAIN Doc : j < i => Seen(j)
  <2>1. parse.pos.part = 3 \/ (parse.pos.part = 2 /\ i < parse.pos.item)
    BY DEF Seen
  <2>2. CASE parse.pos.part = 3
    BY <2>2 DEF Seen
  <2>3. ASSUME parse.pos.part = 2, i < parse.pos.item
        PROVE  \A j \in DOMAIN Doc : j < i => Seen(j)
    <3> TAKE j \in DOMAIN Doc
    <3> HAVE j < i
    <3>1. parse.pos.item \in Nat
      BY DEF TypeOK
    <3> QED
      BY <2>3, <3>1, DocFacts DEF Seen
  <2> QED
    BY <2>1, <2>2, <2>3
<1>4. S \subseteq Held
  BY <1>3 DEF Held
<1>5. i \notin S
  BY <1>2, DocFacts
<1>6. Held \subseteq DOMAIN Doc
  BY DEF Held, Loaded
<1>7. Cardinality(S) < Cardinality(Held)
  BY <1>2, <1>4, <1>5, <1>6, FewerEvents
<1>8. Cardinality(S) \in 0..Len(Doc)
  BY <1>4, <1>6, EventsCount
<1> QED
  BY <1>7, <1>8 DEF NextSlot

-----------------------------------------------------------------------------
(* Positions.                                                              *)

LEMMA PositionFacts ==
  ASSUME TypeOK
  PROVE  /\ parse.pos.part \in 1..3 /\ parse.pos.item \in Nat
         /\ parse.pos.scalar \in 1..14
         /\ InEvent => parse.pos.item \in DOMAIN Doc
<1>1. parse.pos \in [part : 1..3, item : Nat, scalar : 1..14]
  BY DEF TypeOK
<1>2. /\ parse.pos.part \in 1..3 /\ parse.pos.item \in Nat
      /\ parse.pos.scalar \in 1..14
  BY <1>1
<1>3. InEvent => parse.pos.item <= Len(Doc)
  BY DEF TypeOK, PositionOK, InEvent, Items
<1> QED
  BY <1>2, <1>3, DocFacts DEF InEvent

\* The next position, outside the events and within one.
LEMMA HeadPosition ==
  ASSUME TypeOK, ~InEvent, ~AtEnd, NEW pos, pos = parse.pos,
         NEW next, next = Following(pos)
  PROVE  /\ next \in [part : 1..3, item : Nat, scalar : 1..14]
         /\ next.item <= (IF next.part = 3 THEN 0 ELSE Len(Items(next.part)))
         /\ next.item = 0 => next.scalar = 1
         /\ next.part = 1 => next.scalar <= 4
         /\ next.part = 2 =>
              \/ next.item = 0 /\ pos.part = 1
              \/ next.item = 1 /\ next.scalar = 1 /\ pos.part = 2
         /\ next.part = 3 => pos.part = 2 /\ Doc = <<>>
<1>1. /\ pos.part \in 1..3 /\ pos.item \in Nat /\ pos.scalar \in 1..14
      /\ pos.part = 1 => pos.item <= Len(Headings) /\ pos.scalar <= 4
      /\ pos.part = 2 => pos.item = 0
      /\ pos.part # 3
      /\ pos.item = 0 => pos.scalar = 1
  <2>1. /\ pos.item <= (IF pos.part = 3 THEN 0 ELSE Len(Items(pos.part)))
        /\ pos.item = 0 => pos.scalar = 1
        /\ pos.part = 1 => pos.scalar <= 4
    BY DEF TypeOK, PositionOK
  <2> QED
    BY <2>1, PositionFacts DEF Items, InEvent, AtEnd
<1>2. Len(Doc) \in Nat /\ Len(Headings) \in Nat /\ (Len(Doc) = 0 => Doc = <<>>)
  BY DocFacts, TextsAssumption, EmptySeq DEF TextsAssumption
<1>3. CASE pos.part = 1 /\ pos.item > 0 /\ pos.scalar < 4
  <2>1. next = Place(1, pos.item, pos.scalar + 1)
    BY <1>1, <1>2, <1>3 DEF Following, Items
  <2> QED
    <3>1. next.part = 1 /\ next.item = pos.item /\ next.scalar = pos.scalar + 1
      BY <2>1 DEF Place
    <3>2. pos.item <= Len(Headings) /\ pos.scalar + 1 \in 1..4
      BY <1>1, <1>3
    <3>3. next \in [part : 1..3, item : Nat, scalar : 1..14]
      BY <1>1, <2>1, <3>2 DEF Place
    <3> QED
      BY <1>1, <1>3, <3>1, <3>2, <3>3 DEF Items
<1>4. CASE pos.part = 1 /\ ~(pos.item > 0 /\ pos.scalar < 4) /\ pos.item < Len(Headings)
  <2>1. next = Place(1, pos.item + 1, 1)
    BY <1>1, <1>2, <1>4 DEF Following, Items
  <2> QED
    BY <1>1, <1>2, <1>4, <2>1 DEF Place, Items
<1>5. CASE pos.part = 1 /\ ~(pos.item > 0 /\ pos.scalar < 4) /\ ~(pos.item < Len(Headings))
  <2>1. next = Place(2, 0, 1)
    BY <1>1, <1>2, <1>5 DEF Following, Items
  <2> QED
    BY <1>1, <1>2, <1>5, <2>1 DEF Place, Items
<1>6. CASE pos.part = 2 /\ Len(Doc) > 0
  <2>1. next = Place(2, 1, 1)
    BY <1>1, <1>2, <1>6 DEF Following, Items
  <2> QED
    BY <1>1, <1>2, <1>6, <2>1 DEF Place, Items
<1>7. CASE pos.part = 2 /\ Len(Doc) = 0
  <2>1. next = Place(3, 0, 1)
    BY <1>1, <1>2, <1>7 DEF Following, Items
  <2> QED
    BY <1>1, <1>2, <1>7, <2>1 DEF Place, Items
<1> QED
  BY <1>1, <1>2, <1>3, <1>4, <1>5, <1>6, <1>7

LEMMA EventPosition ==
  ASSUME TypeOK, InEvent, NEW i, i = parse.pos.item, NEW k, k = parse.pos.scalar
  PROVE  /\ i \in DOMAIN Doc /\ k \in 1..14
         /\ ScalarAt(parse.pos) = Definition(Doc[i])[k]
         /\ Following(parse.pos) =
              IF k < 14 THEN Place(2, i, k + 1)
              ELSE IF i < Len(Doc) THEN Place(2, i + 1, 1) ELSE Place(3, 0, 1)
BY PositionFacts, DocFacts DEF InEvent, ScalarAt, Following, Items

-----------------------------------------------------------------------------
(* The table after a scalar.                                               *)

LEMMA TableType ==
  ASSUME TableInv', pc' = "scan" /\ parse'.found = 1 => InEvent',
         InEvent' => parse'.pos.item \in DOMAIN Doc
  PROVE  table' # NoTable =>
           /\ DOMAIN table' = 0..MaxEvents
           /\ \A j \in DOMAIN table' : table'[j].keys \in Nat
<1> SUFFICES ASSUME table' # NoTable
             PROVE  /\ DOMAIN table' = 0..MaxEvents
                    /\ \A j \in DOMAIN table' : table'[j].keys \in Nat
  OBVIOUS
<1>1. ASSUME NEW n, NEW slot, Frontier(n, slot)', slot.keys \in Nat
      PROVE  /\ DOMAIN table' = 0..MaxEvents
             /\ \A j \in DOMAIN table' : table'[j].keys \in Nat
  <2>1. DOMAIN table' = 0..MaxEvents /\ n \in 0..MaxEvents - 1
    BY <1>1 DEF Frontier
  <2>2. ASSUME NEW j \in 0..MaxEvents
        PROVE  table'[j].keys \in Nat
    <3>1. CASE j < n
      <4>1. PICK i \in DOMAIN Doc : table'[j] = EntryOf(Doc[i])
        BY <1>1, <2>1, <3>1 DEF Frontier
      <4> QED
        BY <4>1, DocTexts DEF EntryOf
    <3>2. CASE j = n
      BY <1>1, <3>2 DEF Frontier
    <3>3. CASE j > n
      <4>1. j \in n + 1..MaxEvents
        BY <2>1, <3>3
      <4> QED
        BY <1>1, <4>1 DEF Frontier, Unwritten
    <3> QED
      BY <2>1, <3>1, <3>2, <3>3
  <2> QED
    BY <2>1, <2>2
<1>2. \A name : Marked(name).keys = 0
  BY DEF Marked, Unwritten
<1>3. ASSUME NEW i \in DOMAIN Doc, NEW k
      PROVE  Partly(Doc[i], k).keys \in Nat
  BY DocTexts DEF Partly
<1>4. CASE pc' = "scan"
  <2>1. CASE parse'.found = 1
    <3>1. Frontier(parse.index, Partly(Doc[parse.pos.item], parse.pos.scalar))'
      BY <1>4, <2>1 DEF TableInv
    <3> QED
      BY <1>1, <1>3, <2>1, <3>1, <1>4
  <2>2. CASE parse'.found # 1
    <3>1. Frontier(parse.index, Marked(Delimiter))'
      BY <1>4, <2>2 DEF TableInv
    <3> QED
      BY <1>1, <1>2, <3>1
  <2> QED
    BY <2>1, <2>2
<1>5. CASE pc' # "scan"
  <2>1. \/ Frontier(Cardinality(Loaded), Marked(Delimiter))'
        \/ \E n \in 0..MaxEvents - 1, i \in DOMAIN Doc :
             Frontier(n, Marked(Doc[i].name))'
    BY <1>5 DEF TableInv
  <2> QED
    BY <1>1, <1>2, <2>1
<1> QED
  BY <1>4, <1>5

\* At most the slot at the end of the table has changed.
LEMMA TableKept ==
  ASSUME TypeOK, ParseInv, TableInv, CategoriesInv, pc = "scan",
         pc' = "scan", categories' = categories, parse'.category = parse.category,
         \A i \in DOMAIN Doc : Current(i) => (Seen(i)' <=> Seen(i)),
         NEW n, n = parse.index, parse'.index = n,
         \A j \in 0..MaxEvents \ {n} : table'[j] = table[j],
         NEW slot, Frontier(n, slot)',
         slot = IF parse'.found = 1
                  THEN Partly(Doc[parse'.pos.item], parse'.pos.scalar)
                  ELSE Marked(Delimiter)
  PROVE  TableInv' /\ Held' = Held
<1>1. Loaded' = Loaded /\ \A i : Current(i)' <=> Current(i)
  BY DEF Loaded, Current
<1>2. Held' = Held
  <2>1. \A i \in DOMAIN Doc : (Current(i) /\ Seen(i))' <=> Current(i) /\ Seen(i)
    BY <1>1
  <2> QED
    BY <1>1, <2>1 DEF Held
<1>3. n = Cardinality(Held) /\ n \in 0..MaxEvents
  <2>1. n = Cardinality(Held)
    BY DEF ParseInv
  <2>2. Held \in SUBSET DOMAIN Doc
    BY DEF Held, Loaded
  <2> QED
    BY <2>1, <2>2, EventsCount, DocFacts
<1>4. ASSUME NEW a \in DOMAIN categories, NEW i \in DOMAIN Doc,
             Doc[i].category = categories[a]
      PROVE  table'[Slot(a, i)'] = EntryOf(Doc[i])
  <2>1. Slot(a, i)' = Slot(a, i)
    BY DEF Slot, InFrontOf
  <2>2. Slot(a, i) \in Nat /\ Slot(a, i) < Cardinality(Loaded)
    BY <1>4, RecordedBelow
  <2>3. Cardinality(Loaded) <= Cardinality(Held) /\ Cardinality(Loaded) \in Nat
    <3>1. Loaded \subseteq Held /\ Held \subseteq DOMAIN Doc
      BY DEF Held, Loaded
    <3> QED
      BY <3>1, EventsCount, FS_Subset
  <2>4. Slot(a, i) \in 0..MaxEvents \ {n}
    BY ONLY <1>3, <2>2, <2>3, DocFacts
  <2>5. table[Slot(a, i)] = EntryOf(Doc[i])
    BY <1>4 DEF TableInv
  <2> QED
    BY <2>1, <2>4, <2>5
<1>5. ASSUME NEW i \in DOMAIN Doc, Current(i)', Seen(i)'
      PROVE  table'[NextSlot(i)'] = EntryOf(Doc[i])
  <2>1. Current(i) /\ Seen(i)
    BY <1>1, <1>5
  <2>2. NextSlot(i)' = NextSlot(i)
    BY <1>1 DEF NextSlot
  <2>3. NextSlot(i) \in Nat /\ NextSlot(i) < Cardinality(Held)
    BY <2>1, SeenBelow
  <2>4. NextSlot(i) \in 0..MaxEvents \ {n}
    BY ONLY <1>3, <2>3, DocFacts
  <2>5. table[NextSlot(i)] = EntryOf(Doc[i])
    BY <2>1 DEF TableInv
  <2> QED
    BY <2>2, <2>4, <2>5
<1>6. TableInv'
  <2>1. (pc = "idle" /\ table = NoTable => categories = <<>>)'
    OBVIOUS
  <2>2. (\A a \in DOMAIN categories, i \in DOMAIN Doc :
          Doc[i].category = categories[a] => table[Slot(a, i)] = EntryOf(Doc[i]))'
    BY <1>4
  <2>3. (\A i \in DOMAIN Doc :
          Current(i) /\ Seen(i) => table[NextSlot(i)] = EntryOf(Doc[i]))'
    BY <1>5
  <2>4. Frontier(parse.index,
              IF parse.found = 1
                THEN Partly(Doc[parse.pos.item], parse.pos.scalar)
                ELSE Marked(Delimiter))'
    BY DEF Frontier
  <2> QED
    BY <2>1, <2>2, <2>3, <2>4 DEF TableInv
<1> QED
  BY <1>2, <1>6

\* An event that is asked for is complete.
LEMMA TableGrown ==
  ASSUME TypeOK, ParseInv, TableInv, CategoriesInv, pc = "scan", InEvent,
         NEW i, i = parse.pos.item, Current(i),
         pc' = "scan", categories' = categories, parse'.category = parse.category,
         \A j \in DOMAIN Doc : Current(j) => (Seen(j)' <=> Seen(j) \/ j = i),
         NEW n, n = parse.index, parse'.index = n + 1, parse'.found = 0,
         \A j \in 0..n - 1 : table'[j] = table[j],
         table'[n] = EntryOf(Doc[i]),
         Frontier(n + 1, Marked(Delimiter))'
  PROVE  TableInv' /\ Cardinality(Held)' = n + 1
<1>0. i \in DOMAIN Doc /\ i \in Nat
  BY PositionFacts
<1>1. Loaded' = Loaded /\ \A j : Current(j)' <=> Current(j)
  BY DEF Loaded, Current
<1>2. \A j \in DOMAIN Doc : Seen(j) <=> j < i
  BY DEF Seen, InEvent
<1>3. i \notin Held
  <2>1. i \notin Loaded
    BY DEF ParseInv, Loaded, Current
  <2> QED
    BY <2>1, <1>0, <1>2 DEF Held
<1>4. Held' = Held \cup {i}
  <2>1. \A j \in DOMAIN Doc :
          (Current(j) /\ Seen(j))' <=> (Current(j) /\ Seen(j)) \/ j = i
    BY <1>1
  <2> QED
    BY <1>0, <1>1, <2>1 DEF Held
<1>5. Held \in SUBSET DOMAIN Doc
  BY DEF Held, Loaded
<1>6. n = Cardinality(Held) /\ n \in Nat
  <2>1. n = Cardinality(Held)
    BY DEF ParseInv
  <2> QED
    BY <2>1, <1>5, EventsCount
<1>7. Cardinality(Held)' = n + 1
  BY <1>0, <1>3, <1>4, <1>5, <1>6, NextEvent
<1>8. ASSUME NEW a \in DOMAIN categories, NEW j \in DOMAIN Doc,
             Doc[j].category = categories[a]
      PROVE  table'[Slot(a, j)'] = EntryOf(Doc[j])
  <2>1. Slot(a, j)' = Slot(a, j)
    BY DEF Slot, InFrontOf
  <2>2. Slot(a, j) \in Nat /\ Slot(a, j) < Cardinality(Loaded)
    BY <1>8, RecordedBelow
  <2>3. Cardinality(Loaded) <= Cardinality(Held) /\ Cardinality(Loaded) \in Nat
    <3>1. Loaded \subseteq Held
      BY DEF Held
    <3> QED
      BY <3>1, <1>5, EventsCount, FS_Subset
  <2>4. Slot(a, j) \in 0..n - 1
    BY ONLY <1>6, <2>2, <2>3
  <2>5. table[Slot(a, j)] = EntryOf(Doc[j])
    BY <1>8 DEF TableInv
  <2> QED
    BY <2>1, <2>4, <2>5
<1>9. ASSUME NEW j \in DOMAIN Doc, Current(j)', Seen(j)'
      PROVE  table'[NextSlot(j)'] = EntryOf(Doc[j])
  <2>1. Current(j) /\ (Seen(j) \/ j = i)
    BY <1>1, <1>9
  <2>2. NextSlot(j)' = NextSlot(j)
    BY <1>1 DEF NextSlot
  <2>3. CASE Seen(j)
    <3>1. NextSlot(j) \in Nat /\ NextSlot(j) < Cardinality(Held)
      BY <2>1, <2>3, SeenBelow
    <3>2. NextSlot(j) \in 0..n - 1
      BY ONLY <1>6, <3>1
    <3>3. table[NextSlot(j)] = EntryOf(Doc[j])
      BY <2>1, <2>3 DEF TableInv
    <3> QED
      BY <2>2, <3>2, <3>3
  <2>4. CASE j = i
    <3>1. Held = Loaded \cup {l \in DOMAIN Doc : Current(l) /\ l < i}
      BY <1>2 DEF Held
    <3>2. NextSlot(j) = n
      BY <3>1, <1>6, <2>4 DEF NextSlot
    <3> QED
      BY <2>2, <2>4, <3>2
  <2> QED
    BY <2>1, <2>3, <2>4
<1>10. TableInv'
  <2>1. (pc = "idle" /\ table = NoTable => categories = <<>>)'
    OBVIOUS
  <2>2. (\A a \in DOMAIN categories, j \in DOMAIN Doc :
          Doc[j].category = categories[a] => table[Slot(a, j)] = EntryOf(Doc[j]))'
    BY <1>8
  <2>3. (\A j \in DOMAIN Doc :
          Current(j) /\ Seen(j) => table[NextSlot(j)] = EntryOf(Doc[j]))'
    BY <1>9
  <2>4. Frontier(parse.index,
              IF parse.found = 1
                THEN Partly(Doc[parse.pos.item], parse.pos.scalar)
                ELSE Marked(Delimiter))'
    BY DEF Frontier
  <2> QED
    BY <2>1, <2>2, <2>3, <2>4 DEF TableInv
<1> QED
  BY <1>7, <1>10

-----------------------------------------------------------------------------
(* The scanner goes on.                                                    *)

LEMMA ParseIs ==
  ASSUME TypeOK
  PROVE  parse = ParseRecord(parse.category, parse.pos, parse.index, parse.buf,
                   parse.def, parse.evt, parse.val, parse.found, parse.any)
<1>1. parse \in
       [category : Asked \cup {Blank},
        pos : [part : 1..3, item : Nat, scalar : 1..14],
        index : 0..MaxEvents - 1,
        buf : {Doc[i].name : i \in DOMAIN Doc} \cup {Blank},
        def : {0, 1}, evt : {0, 1}, val : 0..5, found : {0, 1}, any : {0, 1}]
  BY DEF TypeOK
<1> QED
  BY <1>1 DEF ParseRecord

\* The type of what a scalar leaves.
LEMMA ScanType ==
  ASSUME TypeOK, pc' = "scan", UNCHANGED <<categories, call>>,
         NEW c \in Asked, NEW pos \in [part : 1..3, item : Nat, scalar : 1..14],
         NEW n \in 0..MaxEvents - 1,
         NEW b \in {Doc[i].name : i \in DOMAIN Doc} \cup {Blank},
         NEW d \in {0, 1}, NEW e \in {0, 1}, NEW v \in 0..5, NEW f \in {0, 1},
         NEW a \in {0, 1},
         parse' = ParseRecord(c, pos, n, b, d, e, v, f, a),
         pos.item <= (IF pos.part = 3 THEN 0 ELSE Len(Items(pos.part))),
         pos.item = 0 => pos.scalar = 1,
         pos.part = 1 => pos.scalar <= 4,
         TableInv', parse'.found = 1 => InEvent'
  PROVE  TypeOK'
<1>1. parse' \in
       [category : Asked \cup {Blank},
        pos : [part : 1..3, item : Nat, scalar : 1..14],
        index : 0..MaxEvents - 1,
        buf : {Doc[i].name : i \in DOMAIN Doc} \cup {Blank},
        def : {0, 1}, evt : {0, 1}, val : 0..5, found : {0, 1}, any : {0, 1}]
  BY DEF ParseRecord
<1>2. parse'.pos = pos
  BY RecordGet
<1>3. PositionOK'
  BY <1>2 DEF PositionOK, Items
<1>4. InEvent' => parse'.pos.item \in DOMAIN Doc
  <2>1. InEvent' => pos.item \in Nat /\ pos.item > 0 /\ pos.item <= Len(Doc)
    BY <1>2 DEF InEvent, Items
  <2> QED
    BY <2>1, <1>2, DocFacts
<1>5. table' # NoTable =>
           /\ DOMAIN table' = 0..MaxEvents
           /\ \A j \in DOMAIN table' : table'[j].keys \in Nat
  BY <1>4, TableType
<1>6. /\ ToSet(categories') \subseteq Asked /\ Len(categories') <= MaxCategories
      /\ call'.index \in 0..MaxEvents /\ call'.null \in BOOLEAN
  BY DEF TypeOK
<1> QED
  BY <1>1, <1>3, <1>5, <1>6 DEF TypeOK

\* The head of the file and the title of its definitions.
LEMMA HeadScalar ==
  ASSUME TypeOK, ParseInv, TableInv, CategoriesInv, Scalar, ~InEvent
  PROVE  TypeOK' /\ ParseInv' /\ TableInv'
<1> SUFFICES ASSUME NEW c, c = parse.category, NEW pos, pos = parse.pos,
                    NEW n, n = parse.index, NEW b, b = parse.buf,
                    NEW s, s = ScalarAt(pos), NEW next, next = Following(pos),
                    NEW def, def = IF pos.part = 2 THEN 1 ELSE 0
             PROVE  TypeOK' /\ ParseInv' /\ TableInv'
  OBVIOUS
<1>1. /\ pc = "scan" /\ pc' = "scan" /\ ~AtEnd
      /\ UNCHANGED <<categories, call>>
  BY DEF Scalar
<1>2. /\ next \in [part : 1..3, item : Nat, scalar : 1..14]
      /\ next.item <= (IF next.part = 3 THEN 0 ELSE Len(Items(next.part)))
      /\ next.item = 0 => next.scalar = 1
      /\ next.part = 1 => next.scalar <= 4
      /\ next.part = 2 =>
           \/ next.item = 0 /\ pos.part = 1
           \/ next.item = 1 /\ next.scalar = 1 /\ pos.part = 2
      /\ next.part = 3 => pos.part = 2 /\ Doc = <<>>
  BY <1>1, HeadPosition
<1>3. \A i \in DOMAIN Doc : ~Seen(i)
  BY <1>1, PositionFacts, DocFacts DEF Seen, InEvent, AtEnd
<1>4. parse = ParseRecord(c, pos, n, b, 0, 0, 0, 0, 0)
  <2>1. /\ parse.def = 0 /\ parse.evt = 0 /\ parse.val = 0
        /\ parse.found = 0 /\ parse.any = 0
    BY <1>1, <1>3 DEF ParseInv, AfterCategory, Hit, Flag, ValueOK
  <2> QED
    BY <2>1, ParseIs
<1>5. c \in Asked /\ c \notin Keys
  BY <1>1, TextsAssumption DEF ParseInv, TextsAssumption
<1>6. table' = table /\ parse' = ParseRecord(c, next, n, b, def, 0, 0, 0, 0)
  <2>1. CASE pos.item = 0
    <3>1. pos.part \in {1, 2}
      BY <1>1, PositionFacts DEF AtEnd
    <3>2. CASE pos.part = 1
      <4>1. s = "categories"
        BY <2>1, <3>2 DEF ScalarAt
      <4>2. s \in Keys /\ NextVal(0, 0, 0, s) = 0
        BY <4>1 DEF Keys, NextVal
      <4>3. /\ table' = table
            /\ parse' = ParseRecord(c, Following(pos), n, b,
                          IF s = "event_definitions" THEN 1 ELSE 0,
                          IF s = "event_category" /\ 0 = 1 THEN 1 ELSE 0,
                          NextVal(0, 0, 0, s), 0, 0)
        BY <1>4, <1>5, <4>2, KeyStep
      <4> QED
        BY <3>2, <4>1, <4>2, <4>3
    <3>3. CASE pos.part = 2
      <4>1. s = "event_definitions"
        BY <2>1, <3>3 DEF ScalarAt
      <4>2. s \in Keys /\ NextVal(0, 0, 0, s) = 0
        BY <4>1 DEF Keys, NextVal
      <4>3. /\ table' = table
            /\ parse' = ParseRecord(c, Following(pos), n, b,
                          IF s = "event_definitions" THEN 1 ELSE 0,
                          IF s = "event_category" /\ 0 = 1 THEN 1 ELSE 0,
                          NextVal(0, 0, 0, s), 0, 0)
        BY <1>4, <1>5, <4>2, KeyStep
      <4> QED
        BY <3>3, <4>1, <4>2, <4>3
    <3> QED
      BY <3>1, <3>2, <3>3
  <2>2. CASE pos.item # 0
    <3>1. /\ pos.part = 1 /\ pos.item \in DOMAIN Headings /\ pos.scalar \in 1..4
          /\ s = Heading(Headings[pos.item])[pos.scalar]
      <4>1. pos.part \in 1..3 /\ pos.item \in Nat /\ pos.scalar \in 1..14
        BY PositionFacts
      <4>2. pos.part = 1
        BY <1>1, <2>2, <4>1 DEF InEvent, AtEnd
      <4>3. pos.item <= Len(Headings) /\ pos.scalar <= 4
        BY <4>2 DEF TypeOK, PositionOK, Items
      <4> QED
        BY <2>2, <4>1, <4>2, <4>3, DocFacts DEF ScalarAt
    <3>2. CASE pos.scalar \in {1, 3}
      <4>1. s \in {"event_category", "description"}
        BY <3>1, <3>2 DEF Heading
      <4> QED
        BY <1>4, <1>5, <3>1, <4>1, KeyStep DEF Keys, NextVal
    <3>3. CASE pos.scalar \in {2, 4}
      <4>1. s \in {Headings[pos.item], Description}
        BY <3>1, <3>3 DEF Heading
      <4>2. s \notin Keys
        BY <3>1, <4>1, TextsAssumption DEF TextsAssumption, ToSet, Description, Keys
      <4> QED
        BY <1>4, <3>1, <4>2, OtherStep
    <3> QED
      BY <3>1, <3>2, <3>3
  <2> QED
    BY <2>1, <2>2
<1>7. /\ parse'.category = c /\ parse'.pos = next /\ parse'.index = n /\ parse'.buf = b
      /\ parse'.def = def /\ parse'.evt = 0 /\ parse'.val = 0 /\ parse'.found = 0
      /\ parse'.any = 0
  BY <1>6, RecordGet
<1>8. \A i \in DOMAIN Doc : ~Seen(i)'
  BY <1>2, <1>7, DocFacts DEF Seen
<1>9. Frontier(n, Marked(Delimiter))'
  <2>1. Frontier(n, Marked(Delimiter))
    BY <1>1, <1>4, RecordGet DEF TableInv
  <2> QED
    BY <2>1, <1>6 DEF Frontier
<1>10. TableInv' /\ Held' = Held
  BY <1>1, <1>3, <1>6, <1>7, <1>8, <1>9, TableKept
<1>11. TypeOK'
  <2>1. n \in 0..MaxEvents - 1 /\ b \in {Doc[i].name : i \in DOMAIN Doc} \cup {Blank}
    BY DEF TypeOK
  <2>2. def \in {0, 1} /\ 0 \in {0, 1} /\ 0 \in 0..5
    OBVIOUS
  <2>3. parse'.found = 1 => InEvent'
    BY <1>7
  <2> HIDE DEF Items
  <2> QED
    BY ONLY TypeOK, <1>1, <1>2, <1>5, <1>6, <1>10, <2>1, <2>2, <2>3, ScanType
<1>12. ParseInv'
  <2>1. InEvent' => next.part = 2 /\ next.item = 1 /\ next.scalar = 1 /\ pos.part = 2
    BY <1>2, <1>7 DEF InEvent
  <2>2. (parse.category \in Asked \ ToSet(categories))'
    BY <1>1, <1>7 DEF ParseInv
  <2>3. (parse.index = Cardinality(Held))'
    BY <1>1, <1>7, <1>10 DEF ParseInv
  <2>4. (parse.def = Flag(InEvent \/ AtEnd))'
    <3>1. AtEnd' => pos.part = 2
      BY <1>2, <1>7 DEF AtEnd
    <3>2. pos.part = 2 => InEvent' \/ AtEnd'
      <4>1. pos.part = 2 => next.part # 1 /\ next.part \in 1..3
        BY <1>1, <1>2, PositionFacts DEF Following, InEvent, Items, Place
      <4> QED
        BY <1>2, <1>7, <4>1 DEF InEvent, AtEnd
    <3> QED
      BY <1>7, <2>1, <3>1, <3>2 DEF Flag
  <2>5. (parse.evt = Flag(AfterCategory))'
    <3>1. ~AfterCategory'
      BY <1>2, <1>7, <2>1 DEF AfterCategory, AtEnd
    <3> QED
      BY <1>7, <3>1 DEF Flag
  <2>6. ~Hit'
    BY <1>7, <2>1 DEF Hit
  <2>7. (parse.found = Flag(Hit))'
    BY <1>7, <2>6 DEF Flag
  <2>8. (parse.any = Flag(Hit \/ \E i \in DOMAIN Doc : Current(i) /\ Seen(i)))'
    BY <1>7, <1>8, <2>6 DEF Flag
  <2>9. ValueOK'
    BY <1>7, <2>1 DEF ValueOK
  <2> QED
    BY <1>1, <2>2, <2>3, <2>4, <2>5, <2>7, <2>8, <2>9 DEF ParseInv
<1> QED
  BY <1>10, <1>11, <1>12

-----------------------------------------------------------------------------
(* A scalar of an event.                                                   *)

LEMMA EventParse ==
  ASSUME TypeOK, ParseInv, TableInv, pc = "scan", InEvent,
         NEW i, i = parse.pos.item, NEW k, k = parse.pos.scalar
  PROVE  /\ parse.def = 1
         /\ parse.evt = IF i > 1 \/ k > 3 THEN 1 ELSE 0
         /\ parse.found = IF Current(i) /\ k > 4 THEN 1 ELSE 0
         /\ k = 2 <=> parse.val = 1
         /\ k > 2 => parse.buf = Doc[i].name
         /\ k \in 3..5 => parse.val = 0
         /\ k = 6 => parse.val = 2
         /\ k = 8 => parse.val = 3
         /\ k = 10 => parse.val = 4
         /\ k = 14 => parse.val = 5
         /\ k \in {7, 9, 11, 12, 13} /\ parse.found = 1 => parse.val = 0
         /\ parse.category \in Asked /\ parse.category \notin Keys
         /\ Frontier(parse.index, IF parse.found = 1 THEN Partly(Doc[i], k)
                                  ELSE Marked(Delimiter))
<1>1. /\ parse.def = 1
      /\ parse.evt = IF i > 1 \/ k > 3 THEN 1 ELSE 0
  BY DEF ParseInv, AfterCategory, Flag
<1>2. parse.found = IF Current(i) /\ k > 4 THEN 1 ELSE 0
  BY DEF ParseInv, Hit, Flag
<1>3. /\ k = 2 <=> parse.val = 1
      /\ k > 2 => parse.buf = Doc[i].name
      /\ k \in 3..5 => parse.val = 0
      /\ k \in {6, 8, 10} => parse.val = (k \div 2) - 1
      /\ k = 14 => parse.val = 5
      /\ k \in {7, 9, 11, 12, 13} /\ Hit => parse.val = 0
  BY DEF ParseInv, ValueOK
<1>4. k = 6 => parse.val = 2
  BY <1>3
<1>5. k = 8 => parse.val = 3
  BY <1>3
<1>6. k = 10 => parse.val = 4
  BY <1>3
<1>7. parse.found = 1 => Hit
  BY DEF ParseInv, Flag
<1>8. parse.category \in Asked /\ parse.category \notin Keys
  BY TextsAssumption DEF ParseInv, TextsAssumption
<1>9. Frontier(parse.index, IF parse.found = 1 THEN Partly(Doc[i], k)
                            ELSE Marked(Delimiter))
  BY DEF TableInv
<1> QED
  BY <1>1, <1>2, <1>3, <1>4, <1>5, <1>6, <1>7, <1>8, <1>9

\* What holds after a scalar that is not the last of its event.
LEMMA WithinEvent ==
  ASSUME TypeOK, ParseInv, TableInv, CategoriesInv, pc = "scan", InEvent,
         pc' = "scan", UNCHANGED <<categories, call>>,
         NEW i, i = parse.pos.item, NEW k, k = parse.pos.scalar, k < 14,
         NEW c, c = parse.category, NEW n, n = parse.index,
         NEW m, m = k + 1,
         NEW b \in {Doc[j].name : j \in DOMAIN Doc} \cup {Blank},
         NEW e, e = IF i > 1 \/ m > 3 THEN 1 ELSE 0,
         NEW v \in 0..5,
         NEW f, f = IF Current(i) /\ m > 4 THEN 1 ELSE 0,
         NEW a, a = IF k = 4 /\ Current(i) THEN 1 ELSE parse.any,
         parse' = ParseRecord(c, Place(2, i, m), n, b, 1, e, v, f, a),
         Frontier(n, IF f = 1 THEN Partly(Doc[i], m) ELSE Marked(Delimiter))',
         \A j \in 0..MaxEvents \ {n} : table'[j] = table[j],
         m = 2 <=> v = 1,
         m > 2 => b = Doc[i].name,
         m \in 3..5 => v = 0,
         m = 6 => v = 2, m = 8 => v = 3, m = 10 => v = 4, m = 14 => v = 5,
         m \in {7, 9, 11, 12, 13} /\ f = 1 => v = 0
  PROVE  TypeOK' /\ ParseInv' /\ TableInv'
<1>0. /\ i \in DOMAIN Doc /\ i \in Nat /\ i > 0 /\ i <= Len(Doc) /\ k \in 1..14
      /\ m \in 2..14
  <2>1. i \in DOMAIN Doc /\ k \in 1..14
    BY PositionFacts
  <2>2. i \in Nat /\ i > 0 /\ i <= Len(Doc)
    BY <2>1, DocFacts
  <2>3. m \in 2..14
    BY <2>1
  <2> QED
    BY <2>1, <2>2, <2>3
<1>1. /\ parse'.category = c /\ parse'.pos = Place(2, i, m) /\ parse'.index = n
      /\ parse'.buf = b /\ parse'.def = 1 /\ parse'.evt = e /\ parse'.val = v
      /\ parse'.found = f /\ parse'.any = a
  <2>1. PICK pos : pos = Place(2, i, m)
    OBVIOUS
  <2>2. parse' = ParseRecord(c, pos, n, b, 1, e, v, f, a)
    BY <2>1
  <2> QED
    BY <2>1, <2>2, RecordGet
<1>2. parse'.pos.part = 2 /\ parse'.pos.item = i /\ parse'.pos.scalar = m
  BY <1>1 DEF Place
<1>3. parse.pos.part = 2
  BY DEF InEvent
<1>4. \A j \in DOMAIN Doc : Seen(j)' <=> Seen(j)
  BY <1>2, <1>3 DEF Seen
<1>5. \A j : Current(j)' <=> Current(j)
  BY <1>1 DEF Current
<1>6. InEvent' /\ ~AtEnd'
  BY <1>0, <1>2 DEF InEvent, AtEnd
<1>7. TableInv' /\ Held' = Held
  <2> DEFINE slot == IF parse'.found = 1
                       THEN Partly(Doc[parse'.pos.item], parse'.pos.scalar)
                       ELSE Marked(Delimiter)
  <2>1. PICK t : t = slot
    OBVIOUS
  <2>2. Frontier(n, t)'
    BY <1>1, <1>2, <2>1 DEF Frontier
  <2> QED
    BY <1>1, <1>4, <2>1, <2>2, TableKept
<1>8. TypeOK'
  <2>1. n \in 0..MaxEvents - 1 /\ parse.any \in {0, 1}
    BY DEF TypeOK
  <2>2. PICK pos : pos = Place(2, i, m)
    OBVIOUS
  <2>3. /\ pos \in [part : 1..3, item : Nat, scalar : 1..14]
        /\ pos.item <= (IF pos.part = 3 THEN 0 ELSE Len(Items(pos.part)))
        /\ pos.item = 0 => pos.scalar = 1
        /\ pos.part = 1 => pos.scalar <= 4
    BY <1>0, <2>2 DEF Place, Items
  <2>4. 1 \in {0, 1} /\ e \in {0, 1} /\ f \in {0, 1} /\ a \in {0, 1} /\ c \in Asked
    BY <2>1, EventParse
  <2>5. parse' = ParseRecord(c, pos, n, b, 1, e, v, f, a)
    BY <2>2
  <2>6. parse'.found = 1 => InEvent'
    BY <1>6
  <2>7. UNCHANGED <<categories, call>> /\ pc' = "scan"
    OBVIOUS
  <2>8. b \in {Doc[j].name : j \in DOMAIN Doc} \cup {Blank} /\ v \in 0..5
    OBVIOUS
  <2> HIDE DEF Items
  <2> QED
    BY ONLY TypeOK, <1>7, <2>1, <2>3, <2>4, <2>5, <2>6, <2>7, <2>8, ScanType
<1>9. ParseInv'
  <2>1. (parse.category \in Asked \ ToSet(categories))'
    BY <1>1 DEF ParseInv
  <2>2. (parse.index = Cardinality(Held))'
    BY <1>1, <1>7 DEF ParseInv
  <2>3. (parse.def = Flag(InEvent \/ AtEnd))'
    BY <1>1, <1>6 DEF Flag
  <2>4. (parse.evt = Flag(AfterCategory))'
    <3>1. AfterCategory' <=> i > 1 \/ m > 3
      BY <1>2, <1>6 DEF AfterCategory
    <3> QED
      BY <1>1, <3>1 DEF Flag
  <2>5. Hit' <=> Current(i) /\ m > 4
    BY <1>2, <1>5, <1>6 DEF Hit
  <2>6. (parse.found = Flag(Hit))'
    BY <1>1, <2>5 DEF Flag
  <2>7. (parse.any = Flag(Hit \/ \E j \in DOMAIN Doc : Current(j) /\ Seen(j)))'
    <3>1. (\E j \in DOMAIN Doc : Current(j) /\ Seen(j))'
            <=> \E j \in DOMAIN Doc : Current(j) /\ Seen(j)
      BY <1>4, <1>5
    <3>2. parse.any = Flag(Hit \/ \E j \in DOMAIN Doc : Current(j) /\ Seen(j))
      BY DEF ParseInv
    <3>3. Hit <=> Current(i) /\ k > 4
      BY DEF Hit
    <3>4. CASE k = 4
      BY <1>1, <2>5, <3>1, <3>2, <3>3, <3>4 DEF Flag
    <3>5. CASE k # 4
      <4>1. k > 4 <=> m > 4
        BY ONLY <1>0, <3>5, m = k + 1
      <4> QED
        BY <1>1, <2>5, <3>1, <3>2, <3>3, <3>5, <4>1 DEF Flag
    <3> QED
      BY <3>4, <3>5
  <2>8. ValueOK'
    <3>1. m \in {6, 8, 10} => v = (m \div 2) - 1
      OBVIOUS
    <3>2. Hit' => f = 1
      BY <2>5
    <3>3. /\ m = 2 <=> v = 1
          /\ m > 2 => b = Doc[i].name
          /\ m \in 3..5 => v = 0
          /\ m = 14 => v = 5
          /\ m \in {7, 9, 11, 12, 13} /\ f = 1 => v = 0
      OBVIOUS
    <3> QED
      BY ONLY <1>1, <1>2, <1>6, <3>1, <3>2, <3>3 DEF ValueOK
  <2> QED
    BY <2>1, <2>2, <2>3, <2>4, <2>6, <2>7, <2>8 DEF ParseInv
<1> QED
  BY <1>7, <1>8, <1>9

\* A key of an event.
LEMMA KeyOfEvent ==
  ASSUME TypeOK, ParseInv, TableInv, CategoriesInv, Scalar, InEvent,
         parse.pos.scalar \in {1, 3, 5, 7, 9, 11, 13}
  PROVE  TypeOK' /\ ParseInv' /\ TableInv'
<1> SUFFICES ASSUME NEW i, i = parse.pos.item, NEW k, k = parse.pos.scalar,
                    NEW m, m = k + 1, NEW c, c = parse.category,
                    NEW n, n = parse.index, NEW b, b = parse.buf,
                    NEW e, e = parse.evt, NEW v, v = parse.val,
                    NEW f, f = parse.found, NEW a, a = parse.any,
                    NEW pos, pos = parse.pos, NEW s, s = ScalarAt(pos)
             PROVE  TypeOK' /\ ParseInv' /\ TableInv'
  OBVIOUS
<1>1. pc = "scan" /\ pc' = "scan" /\ UNCHANGED <<categories, call>>
  BY DEF Scalar
<1>2. k \in {1, 3, 5, 7, 9, 11, 13}
  OBVIOUS
<1>3. /\ parse = ParseRecord(c, pos, n, b, 1, e, v, f, a)
      /\ e = IF i > 1 \/ k > 3 THEN 1 ELSE 0
      /\ f = IF Current(i) /\ k > 4 THEN 1 ELSE 0
      /\ v # 1
      /\ k > 2 => b = Doc[i].name
      /\ k \in 3..5 => v = 0
      /\ k \in {7, 9, 11, 13} /\ f = 1 => v = 0
      /\ c \in Asked /\ c \notin Keys
      /\ Frontier(n, IF f = 1 THEN Partly(Doc[i], k) ELSE Marked(Delimiter))
  BY <1>1, <1>2, ParseIs, EventParse
<1>4. f = 0 \/ v = 0
  BY ONLY <1>2, <1>3
<1>5. i \in DOMAIN Doc /\ Following(pos) = Place(2, i, m) /\ s = Definition(Doc[i])[k]
  <2>1. /\ i \in DOMAIN Doc /\ s = Definition(Doc[i])[k]
        /\ Following(pos) =
              IF k < 14 THEN Place(2, i, k + 1)
              ELSE IF i < Len(Doc) THEN Place(2, i + 1, 1) ELSE Place(3, 0, 1)
    BY EventPosition
  <2>2. k < 14
    BY <1>2
  <2> QED
    BY <2>1, <2>2
<1>6. /\ k = 1 => s = "event_name"
      /\ k = 3 => s = "event_category"
      /\ k = 5 => s = "event_ID"
      /\ k = 7 => s = "severity"
      /\ k = 9 => s = "keys"
      /\ k = 11 => s = "description"
      /\ k = 13 => s = "event_description_template"
  BY <1>5 DEF Definition
<1>7. s \in Keys /\ s # "event_definitions"
  BY <1>2, <1>6 DEF Keys
<1> SUFFICES ASSUME NEW w, w = NextVal(1, e, v, s),
                    NEW g, g = IF s = "event_category" THEN 1 ELSE e
             PROVE  TypeOK' /\ ParseInv' /\ TableInv'
  OBVIOUS
<1>8. table' = table /\ parse' = ParseRecord(c, Place(2, i, m), n, b, 1, g, w, f, a)
  <2>1. /\ table' = table
        /\ parse' = ParseRecord(c, Following(pos), n, b,
                       IF s = "event_definitions" THEN 1 ELSE 1,
                       IF s = "event_category" /\ 1 = 1 THEN 1 ELSE e,
                       NextVal(1, e, v, s), f, a)
    BY ONLY <1>3, <1>4, <1>7, Scalar, s = ScalarAt(pos), KeyStep
  <2> QED
    BY <2>1, <1>5, <1>7
<1>9. /\ k = 1 => w = 1
      /\ k = 3 => w = 0
      /\ k = 5 => w = 2
      /\ k = 7 => w = 3
      /\ k = 9 => w = 4
      /\ k = 11 => w = v
      /\ k = 13 => w = 5
  <2>1. k \in {7, 9, 13} => e = 1
    BY ONLY <1>3
  <2> QED
    BY ONLY <1>3, <1>6, <2>1, w = NextVal(1, e, v, s) DEF NextVal
<1>10. g = IF i > 1 \/ m > 3 THEN 1 ELSE 0
  <2>1. i \in Nat
    BY <1>5, DocFacts
  <2> QED
    BY ONLY <2>1, <1>2, <1>3, <1>6, m = k + 1,
            g = IF s = "event_category" THEN 1 ELSE e
<1>11. f = IF Current(i) /\ m > 4 THEN 1 ELSE 0
  <2>1. k > 4 <=> m > 4
    BY ONLY <1>2, m = k + 1
  <2> QED
    BY ONLY <1>3, <2>1
<1>12. v \in 0..5 /\ b \in {Doc[j].name : j \in DOMAIN Doc} \cup {Blank}
  BY DEF TypeOK
<1>13. /\ w \in 0..5
       /\ m = 2 <=> w = 1
       /\ m > 2 => b = Doc[i].name
       /\ m \in 3..5 => w = 0
       /\ m = 6 => w = 2
       /\ m = 8 => w = 3
       /\ m = 10 => w = 4
       /\ m = 14 => w = 5
       /\ m \in {7, 9, 11, 12, 13} /\ f = 1 => w = 0
  BY ONLY <1>2, <1>3, <1>9, <1>12, m = k + 1
<1>14. Frontier(n, IF f = 1 THEN Partly(Doc[i], m) ELSE Marked(Delimiter))'
  <2>1. f = 1 => Partly(Doc[i], m) = Partly(Doc[i], k)
    BY <1>2 DEF Partly
  <2>2. PICK t : t = IF f = 1 THEN Partly(Doc[i], k) ELSE Marked(Delimiter)
    OBVIOUS
  <2>3. Frontier(n, t)'
    BY <1>3, <1>8, <2>2 DEF Frontier
  <2>4. t = IF f = 1 THEN Partly(Doc[i], m) ELSE Marked(Delimiter)
    BY <2>1, <2>2
  <2> QED
    BY <2>3, <2>4 DEF Frontier
<1>15. k # 4 /\ k < 14 /\ a = IF k = 4 /\ Current(i) THEN 1 ELSE parse.any
  BY <1>2
<1>16. \A j \in 0..MaxEvents \ {n} : table'[j] = table[j]
  BY <1>8
<1> QED
  BY <1>1, <1>8, <1>10, <1>11, <1>12, <1>13, <1>14, <1>15, <1>16, WithinEvent

\* The texts of an event are no keys, and only its category is one asked for.
LEMMA TextOfEvent ==
  ASSUME TypeOK, ParseInv, TableInv, CategoriesInv, Scalar, InEvent,
         parse.pos.scalar \in {2, 4, 6, 8, 10, 12}
  PROVE  TypeOK' /\ ParseInv' /\ TableInv'
<1> SUFFICES ASSUME NEW i, i = parse.pos.item, NEW k, k = parse.pos.scalar,
                    NEW m, m = k + 1, NEW c, c = parse.category,
                    NEW n, n = parse.index, NEW b, b = parse.buf,
                    NEW e, e = parse.evt, NEW v, v = parse.val,
                    NEW f, f = parse.found, NEW a, a = parse.any,
                    NEW pos, pos = parse.pos, NEW s, s = ScalarAt(pos)
             PROVE  TypeOK' /\ ParseInv' /\ TableInv'
  OBVIOUS
<1>1. pc = "scan" /\ pc' = "scan" /\ UNCHANGED <<categories, call>>
  BY DEF Scalar
<1>2. k \in {2, 4, 6, 8, 10, 12}
  OBVIOUS
<1>3. /\ parse = ParseRecord(c, pos, n, b, 1, e, v, f, a)
      /\ e = IF i > 1 \/ k > 3 THEN 1 ELSE 0
      /\ f = IF Current(i) /\ k > 4 THEN 1 ELSE 0
      /\ k = 2 <=> v = 1
      /\ k > 2 => b = Doc[i].name
      /\ k = 4 => v = 0
      /\ k = 6 => v = 2
      /\ k = 8 => v = 3
      /\ k = 10 => v = 4
      /\ k = 12 /\ f = 1 => v = 0
      /\ c \in Asked /\ c \notin Keys
      /\ Frontier(n, IF f = 1 THEN Partly(Doc[i], k) ELSE Marked(Delimiter))
  BY <1>1, <1>2, ParseIs, EventParse
<1>4. i \in DOMAIN Doc /\ Following(pos) = Place(2, i, m) /\ s = Definition(Doc[i])[k]
  <2>1. /\ i \in DOMAIN Doc /\ s = Definition(Doc[i])[k]
        /\ Following(pos) =
              IF k < 14 THEN Place(2, i, k + 1)
              ELSE IF i < Len(Doc) THEN Place(2, i + 1, 1) ELSE Place(3, 0, 1)
    BY EventPosition
  <2>2. k < 14
    BY <1>2
  <2> QED
    BY <2>1, <2>2
<1>5. /\ k = 2 => s = Doc[i].name
      /\ k = 4 => s = Doc[i].category
      /\ k = 6 => s = Doc[i].id
      /\ k = 8 => s = Doc[i].severity
      /\ k = 10 => s = Doc[i].keys
      /\ k = 12 => s = Description
  BY <1>4 DEF Definition
<1>6. s \notin Keys /\ (k # 4 => s # c)
  <2>1. {Doc[i].name, Doc[i].id, Doc[i].severity, Doc[i].keys,
         Doc[i].template} \cap (Keys \cup Asked) = {}
    BY <1>4, DocTexts
  <2>2. Doc[i].category \notin Keys
    BY <1>4, DocTexts
  <2>3. Description \notin Keys /\ Description \notin Asked
    BY TextsAssumption DEF TextsAssumption, Description, Keys
  <2> QED
    BY ONLY <1>2, <1>3, <1>5, <2>1, <2>2, <2>3
<1>7. /\ n \in 0..MaxEvents - 1 /\ v \in 0..5
      /\ b \in {Doc[j].name : j \in DOMAIN Doc} \cup {Blank}
  BY DEF TypeOK
<1>8. e = IF i > 1 \/ m > 3 THEN 1 ELSE 0
  <2>1. k > 3 <=> m > 3
    BY ONLY <1>2, m = k + 1
  <2> QED
    BY ONLY <1>3, <2>1
<1>9. Marked(Delimiter) = SlotRecord(Delimiter, Blank, 0, Blank, 0, Blank)
  BY DEF Marked, Unwritten, SlotRecord
<1>10. k < 14
  BY <1>2
\* The name.
<1>11. CASE k = 2
  <2>1. f = 0 /\ v = 1 /\ m = 3
    BY ONLY <1>3, <1>11, m = k + 1
  <2>2. table' = table /\ parse' = ParseRecord(c, Place(2, i, m), n, s, 1, e, 0, 0, a)
    <3>1. parse = ParseRecord(c, pos, n, b, 1, e, 1, 0, a) /\ s # c
      BY ONLY <1>3, <1>6, <1>11, <2>1
    <3> QED
      BY <3>1, <1>4, <1>6, NameStep
  <2>3. s \in {Doc[j].name : j \in DOMAIN Doc} \cup {Blank} /\ s = Doc[i].name
    BY <1>4, <1>5, <1>11
  <2>4. 0 = IF Current(i) /\ m > 4 THEN 1 ELSE 0
    BY <2>1
  <2>5. Frontier(n, Marked(Delimiter))'
    <3>1. Frontier(n, Marked(Delimiter))
      BY ONLY <1>3, <2>1
    <3> QED
      BY <2>2, <3>1 DEF Frontier
  <2>6. a = IF k = 4 /\ Current(i) THEN 1 ELSE parse.any
    BY <1>11
  <2>7. /\ 0 \in 0..5 /\ (m = 2 <=> 0 = 1) /\ (m > 2 => s = Doc[i].name)
        /\ (m \in 3..5 => 0 = 0) /\ (m = 6 => 0 = 2) /\ (m = 8 => 0 = 3)
        /\ (m = 10 => 0 = 4) /\ (m = 14 => 0 = 5)
        /\ (m \in {7, 9, 11, 12, 13} /\ 0 = 1 => 0 = 0)
    BY <2>1, <2>3
  <2> QED
    BY <1>1, <1>8, <1>10, <2>2, <2>3, <2>4, <2>5, <2>6, <2>7, WithinEvent
\* The category, when it is the one asked for.
<1>12. CASE k = 4 /\ Current(i)
  <2>1. f = 0 /\ v = 0 /\ e = 1 /\ m = 5
    BY ONLY <1>3, <1>12, m = k + 1
  <2>2. s = c
    BY <1>5, <1>12 DEF Current
  <2>3. /\ table' = [table EXCEPT ![n].name = b, ![n].category = c]
        /\ parse' = ParseRecord(c, Place(2, i, m), n, b, 1, 1, 0, 1, 1)
    <3>1. parse = ParseRecord(c, pos, n, b, 1, 1, 0, 0, a)
      BY <1>3, <2>1
    <3> QED
      BY ONLY <3>1, <1>4, <1>6, <2>2, Scalar, s = ScalarAt(pos), CategoryStep
  <2>4. Frontier(n, SlotRecord(Delimiter, Blank, 0, Blank, 0, Blank))
    BY ONLY <1>3, <1>9, <2>1
  <2>5. /\ Frontier(n, SlotRecord(b, c, 0, Blank, 0, Blank))'
        /\ \A j \in 0..MaxEvents \ {n} : table'[j] = table[j]
    BY <2>3, <2>4, PutName
  <2>6. Partly(Doc[i], m) = SlotRecord(b, c, 0, Blank, 0, Blank)
    <3>1. b = Doc[i].name /\ c = Doc[i].category
      BY ONLY <1>3, <1>5, <1>12, <2>2
    <3> QED
      BY ONLY <3>1, <2>1 DEF Partly, SlotRecord
  <2>7. Frontier(n, Partly(Doc[i], m))'
    BY <2>5, <2>6 DEF Frontier
  <2>8. /\ 1 = IF Current(i) /\ m > 4 THEN 1 ELSE 0
        /\ 1 = IF i > 1 \/ m > 3 THEN 1 ELSE 0
        /\ 1 = IF k = 4 /\ Current(i) THEN 1 ELSE parse.any
    BY <1>12, <2>1
  <2>9. /\ 0 \in 0..5 /\ (m = 2 <=> 0 = 1) /\ (m > 2 => b = Doc[i].name)
        /\ (m \in 3..5 => 0 = 0) /\ (m = 6 => 0 = 2) /\ (m = 8 => 0 = 3)
        /\ (m = 10 => 0 = 4) /\ (m = 14 => 0 = 5)
        /\ (m \in {7, 9, 11, 12, 13} /\ 1 = 1 => 0 = 0)
    BY <1>3, <1>12, <2>1
  <2> QED
    <3> SUFFICES ASSUME NEW o, o = 1, NEW z, z = 0
                 PROVE  TypeOK' /\ ParseInv' /\ TableInv'
      OBVIOUS
    <3>1. /\ parse' = ParseRecord(c, Place(2, i, m), n, b, 1, o, z, o, o)
          /\ Frontier(n, IF o = 1 THEN Partly(Doc[i], m) ELSE Marked(Delimiter))'
      BY <2>3, <2>7 DEF Frontier
    <3>2. /\ o = IF i > 1 \/ m > 3 THEN 1 ELSE 0
          /\ o = IF Current(i) /\ m > 4 THEN 1 ELSE 0
          /\ o = IF k = 4 /\ Current(i) THEN 1 ELSE parse.any
      BY <2>8
    <3>3. /\ z \in 0..5 /\ (m = 2 <=> z = 1) /\ (m > 2 => b = Doc[i].name)
          /\ (m \in 3..5 => z = 0) /\ (m = 6 => z = 2) /\ (m = 8 => z = 3)
          /\ (m = 10 => z = 4) /\ (m = 14 => z = 5)
          /\ (m \in {7, 9, 11, 12, 13} /\ o = 1 => z = 0)
      BY <2>9
    <3> QED
      BY ONLY TypeOK, ParseInv, TableInv, CategoriesInv, InEvent, i = parse.pos.item,
              k = parse.pos.scalar, m = k + 1, c = parse.category, n = parse.index,
              <1>1, <1>7, <1>10, <2>5, <3>1, <3>2, <3>3, WithinEvent
\* A value of another event, and the description.
<1>13. CASE (k # 2 /\ f = 0 /\ ~(k = 4 /\ Current(i))) \/ k = 12
  <2>1. s # c
    <3>1. CASE k = 4
      <4>1. ~Current(i)
        BY ONLY <1>13, <3>1
      <4>2. s = Doc[i].category
        BY ONLY <1>5, <3>1
      <4> QED
        BY <1>1, <4>1, <4>2 DEF Current
    <3>2. CASE k # 4
      BY <1>6, <3>2
    <3> QED
      BY <3>1, <3>2
  <2>2. v # 1 /\ (f = 0 \/ v = 0)
    BY ONLY <1>3, <1>13
  <2>3. table' = table /\ parse' = ParseRecord(c, Place(2, i, m), n, b, 1, e, v, f, a)
    <3>1. parse = ParseRecord(c, pos, n, b, 1, e, v, f, a)
      BY ONLY <1>3
    <3> QED
      BY ONLY <3>1, <1>4, <1>6, <2>1, <2>2, Scalar, s = ScalarAt(pos), OtherStep
  <2>4. f = IF Current(i) /\ m > 4 THEN 1 ELSE 0
    <3>1. k # 2 /\ (k = 4 => ~Current(i))
      BY ONLY <1>13
    <3>2. k # 4 => (k > 4 <=> m > 4)
      BY ONLY <1>2, m = k + 1
    <3>3. k = 4 => ~(k > 4)
      OBVIOUS
    <3> QED
      BY ONLY <1>3, <3>1, <3>2, <3>3
  <2>5. Frontier(n, IF f = 1 THEN Partly(Doc[i], m) ELSE Marked(Delimiter))'
    <3>1. f = 1 => Partly(Doc[i], m) = Partly(Doc[i], k)
      BY <1>13 DEF Partly
    <3>2. PICK t : t = IF f = 1 THEN Partly(Doc[i], k) ELSE Marked(Delimiter)
      OBVIOUS
    <3>3. Frontier(n, t)'
      BY <1>3, <2>3, <3>2 DEF Frontier
    <3>4. t = IF f = 1 THEN Partly(Doc[i], m) ELSE Marked(Delimiter)
      BY <3>1, <3>2
    <3> QED
      BY <3>3, <3>4 DEF Frontier
  <2>6. a = IF k = 4 /\ Current(i) THEN 1 ELSE parse.any
    BY <1>13
  <2>7. /\ (m = 2 <=> v = 1) /\ (m > 2 => b = Doc[i].name)
        /\ (m \in 3..5 => v = 0) /\ (m = 6 => v = 2) /\ (m = 8 => v = 3)
        /\ (m = 10 => v = 4) /\ (m = 14 => v = 5)
        /\ (m \in {7, 9, 11, 12, 13} /\ f = 1 => v = 0)
    BY ONLY <1>2, <1>3, <1>13, <2>2, m = k + 1
  <2>8. \A j \in 0..MaxEvents \ {n} : table'[j] = table[j]
    BY <2>3
  <2> QED
    BY <1>1, <1>7, <1>8, <1>10, <2>3, <2>4, <2>5, <2>6, <2>7, <2>8, WithinEvent
\* A value of an event that is asked for.
<1>14. CASE k \in {6, 8, 10} /\ f = 1
  <2>1. /\ v = (IF k = 6 THEN 2 ELSE IF k = 8 THEN 3 ELSE 4) /\ Current(i) /\ s # c
        /\ m \in {7, 9, 11}
    BY ONLY <1>3, <1>6, <1>14, m = k + 1
  <2>2. /\ table' = WithValue(table, [index |-> n, val |-> v], s)
        /\ parse' = ParseRecord(c, Place(2, i, m), n, b, 1, e, 0, 1, a)
    <3>1. parse = ParseRecord(c, pos, n, b, 1, e, v, 1, a) /\ v \in 2..5 /\ v # 5
      BY ONLY <1>3, <1>14, <2>1
    <3>2. /\ table' = WithValue(table, [index |-> n, val |-> v], s)
          /\ parse' = IF v = 5
               THEN ParseRecord(c, Following(pos), n + 1, b, 1, e, 0, 0, a)
               ELSE ParseRecord(c, Following(pos), n, b, 1, e, 0, 1, a)
      BY ONLY <3>1, <1>6, <2>1, Scalar, s = ScalarAt(pos), ValueStep
    <3> QED
      BY <3>1, <3>2, <1>4
  <2>3. /\ Frontier(n, Partly(Doc[i], m))'
        /\ \A j \in 0..MaxEvents \ {n} : table'[j] = table[j]
    <3>1. Frontier(n, Partly(Doc[i], k))
      BY <1>3, <1>14
    <3> SUFFICES ASSUME NEW d, d = Doc[i],
                        NEW y, y = IdOf[d.id], NEW z, z = Len(KeysOf[d.keys])
                 PROVE  /\ Frontier(n, Partly(d, m))'
                        /\ \A j \in 0..MaxEvents \ {n} : table'[j] = table[j]
      BY <3>1 DEF Frontier
    <3>2. CASE k = 6
      <4>1. Partly(d, k) = SlotRecord(d.name, d.category, 0, Blank, 0, Blank)
        BY <3>2 DEF Partly, SlotRecord
      <4>2. table' = [table EXCEPT ![n].id = y]
        <5>1. PICK q : q = [index |-> n, val |-> v]
          OBVIOUS
        <5>2. q.index = n /\ q.val = 2 /\ s = d.id
          BY <1>5, <2>1, <5>1, <3>2
        <5>3. table' = WithValue(table, q, s)
          BY <2>2, <5>1
        <5> QED
          BY <5>2, <5>3 DEF WithValue
      <4>3. /\ Frontier(n, SlotRecord(d.name, d.category, y, Blank, 0, Blank))'
            /\ \A j \in 0..MaxEvents \ {n} : table'[j] = table[j]
        <5>1. Frontier(n, SlotRecord(d.name, d.category, 0, Blank, 0, Blank))
          BY ONLY <3>1, <4>1, d = Doc[i]
        <5> QED
          BY ONLY <4>2, <5>1, PutId
      <4>4. Partly(d, m) = SlotRecord(d.name, d.category, y, Blank, 0, Blank)
        BY <3>2 DEF Partly, SlotRecord
      <4> QED
        BY <4>3, <4>4 DEF Frontier
    <3>3. CASE k = 8
      <4>1. Partly(d, k) = SlotRecord(d.name, d.category, y, Blank, 0, Blank)
        BY <3>3 DEF Partly, SlotRecord
      <4>2. table' = [table EXCEPT ![n].severity = d.severity]
        <5>1. PICK q : q = [index |-> n, val |-> v]
          OBVIOUS
        <5>2. q.index = n /\ q.val = 3 /\ s = d.severity
          BY <1>5, <2>1, <5>1, <3>3
        <5>3. table' = WithValue(table, q, s)
          BY <2>2, <5>1
        <5> QED
          BY <5>2, <5>3 DEF WithValue
      <4>3. /\ Frontier(n, SlotRecord(d.name, d.category, y, d.severity, 0, Blank))'
            /\ \A j \in 0..MaxEvents \ {n} : table'[j] = table[j]
        <5>1. Frontier(n, SlotRecord(d.name, d.category, y, Blank, 0, Blank))
          BY ONLY <3>1, <4>1, d = Doc[i]
        <5> QED
          BY ONLY <4>2, <5>1, PutSeverity
      <4>4. Partly(d, m) = SlotRecord(d.name, d.category, y, d.severity, 0, Blank)
        BY <3>3 DEF Partly, SlotRecord
      <4> QED
        BY <4>3, <4>4 DEF Frontier
    <3>4. CASE k = 10
      <4>1. Partly(d, k) = SlotRecord(d.name, d.category, y, d.severity, 0, Blank)
        BY <3>4 DEF Partly, SlotRecord
      <4>2. table' = [table EXCEPT ![n].keys = z]
        <5>1. PICK q : q = [index |-> n, val |-> v]
          OBVIOUS
        <5>2. q.index = n /\ q.val = 4 /\ s = d.keys
          BY <1>5, <2>1, <5>1, <3>4
        <5>3. table' = WithValue(table, q, s)
          BY <2>2, <5>1
        <5> QED
          BY <5>2, <5>3 DEF WithValue
      <4>3. /\ Frontier(n, SlotRecord(d.name, d.category, y, d.severity, z, Blank))'
            /\ \A j \in 0..MaxEvents \ {n} : table'[j] = table[j]
        <5>1. Frontier(n, SlotRecord(d.name, d.category, y, d.severity, 0, Blank))
          BY ONLY <3>1, <4>1, d = Doc[i]
        <5> QED
          BY ONLY <4>2, <5>1, PutKeys
      <4>4. Partly(d, m) = SlotRecord(d.name, d.category, y, d.severity, z, Blank)
        BY <3>4 DEF Partly, SlotRecord
      <4> QED
        BY <4>3, <4>4 DEF Frontier
    <3> QED
      BY <1>14, <3>2, <3>3, <3>4
  <2>4. /\ 1 = IF Current(i) /\ m > 4 THEN 1 ELSE 0
        /\ a = IF k = 4 /\ Current(i) THEN 1 ELSE parse.any
    BY <1>14, <2>1
  <2>5. /\ 0 \in 0..5 /\ (m = 2 <=> 0 = 1) /\ (m > 2 => b = Doc[i].name)
        /\ (m \in 3..5 => 0 = 0) /\ (m = 6 => 0 = 2) /\ (m = 8 => 0 = 3)
        /\ (m = 10 => 0 = 4) /\ (m = 14 => 0 = 5)
        /\ (m \in {7, 9, 11, 12, 13} /\ 1 = 1 => 0 = 0)
    BY ONLY <1>3, <1>14, <2>1
  <2> QED
    BY <1>1, <1>7, <1>8, <1>10, <2>2, <2>3, <2>4, <2>5, WithinEvent
<1> QED
  <2>1. f = 0 \/ f = 1
    BY <1>3
  <2>2. k = 2 \/ (k = 4 /\ Current(i)) \/ k = 12 \/ (k \in {6, 8, 10} /\ f = 1)
          \/ (k # 2 /\ f = 0 /\ ~(k = 4 /\ Current(i)))
    <3>1. k = 4 => f = 0
      BY ONLY <1>3
    <3> QED
      BY ONLY <1>2, <2>1, <3>1
  <2> QED
    BY <2>2, <1>11, <1>12, <1>13, <1>14

\* What holds after the last scalar of an event, if its table and the events
\* that the table holds are known.
LEMMA AfterEvent ==
  ASSUME TypeOK, ParseInv, pc = "scan", InEvent,
         pc' = "scan", UNCHANGED <<categories, call>>,
         NEW i, i = parse.pos.item, parse.pos.scalar = 14,
         NEW c, c = parse.category,
         NEW next, next = IF i < Len(Doc) THEN Place(2, i + 1, 1) ELSE Place(3, 0, 1),
         NEW n \in 0..MaxEvents - 1, NEW b, b = parse.buf, NEW a, a = parse.any,
         NEW v \in {0, 5},
         parse' = ParseRecord(c, next, n, b, 1, 1, v, 0, a),
         Current(i) => a = 1,
         TableInv', Cardinality(Held)' = n
  PROVE  TypeOK' /\ ParseInv'
<1>0. i \in DOMAIN Doc /\ i \in Nat /\ i > 0 /\ i <= Len(Doc) /\ Len(Doc) \in Nat
  <2>1. i \in DOMAIN Doc
    BY PositionFacts
  <2> QED
    BY <2>1, DocFacts
<1>1. /\ parse'.category = c /\ parse'.pos = next /\ parse'.index = n
      /\ parse'.buf = b /\ parse'.def = 1 /\ parse'.evt = 1 /\ parse'.val = v
      /\ parse'.found = 0 /\ parse'.any = a
  BY RecordGet
<1>2. \/ /\ i < Len(Doc) /\ next.part = 2 /\ next.item = i + 1 /\ next.scalar = 1
      \/ /\ i = Len(Doc) /\ next.part = 3 /\ next.item = 0 /\ next.scalar = 1
  BY <1>0 DEF Place
<1>3. parse.pos.part = 2
  BY DEF InEvent
<1>4. \A j \in DOMAIN Doc : Seen(j)' <=> Seen(j) \/ j = i
  <2> TAKE j \in DOMAIN Doc
  <2>1. Seen(j) <=> j < i
    BY <1>3 DEF Seen
  <2>2. j \in Nat /\ j <= Len(Doc)
    BY DocFacts
  <2>3. Seen(j)' <=> j < i \/ j = i
    BY <1>0, <1>1, <1>2, <2>2 DEF Seen
  <2> QED
    BY <2>1, <2>3
<1>5. \A j : Current(j)' <=> Current(j)
  BY <1>1 DEF Current
<1>6. /\ InEvent' \/ AtEnd'
      /\ InEvent' => parse'.pos.item > 1 /\ parse'.pos.scalar = 1
      /\ ~InEvent' => AtEnd'
  BY <1>0, <1>1, <1>2 DEF InEvent, AtEnd
<1>7. TypeOK'
  <2>1. /\ parse.any \in {0, 1}
        /\ parse.buf \in {Doc[j].name : j \in DOMAIN Doc} \cup {Blank}
    BY DEF TypeOK
  <2>2. next \in [part : 1..3, item : Nat, scalar : 1..14]
    BY <1>0 DEF Place
  <2>3. /\ next.item <= (IF next.part = 3 THEN 0 ELSE Len(Items(next.part)))
        /\ next.item = 0 => next.scalar = 1
        /\ next.part = 1 => next.scalar <= 4
    BY <1>0, <1>2 DEF Items
  <2>4. /\ 1 \in {0, 1} /\ 0 \in {0, 1} /\ a \in {0, 1} /\ c \in Asked /\ v \in 0..5
        /\ b \in {Doc[j].name : j \in DOMAIN Doc} \cup {Blank}
    BY <2>1 DEF ParseInv
  <2>5. parse'.found = 1 => InEvent'
    BY <1>1
  <2>6. /\ UNCHANGED <<categories, call>> /\ pc' = "scan" /\ n \in 0..MaxEvents - 1
        /\ parse' = ParseRecord(c, next, n, b, 1, 1, v, 0, a) /\ TableInv'
    OBVIOUS
  <2> HIDE DEF Items
  <2> QED
    BY ONLY TypeOK, <2>2, <2>3, <2>4, <2>5, <2>6, ScanType
<1>8. ParseInv'
  <2>1. (parse.category \in Asked \ ToSet(categories))'
    BY <1>1 DEF ParseInv
  <2>2. (parse.index = Cardinality(Held))'
    BY <1>1
  <2>3. (parse.def = Flag(InEvent \/ AtEnd))'
    BY <1>1, <1>6 DEF Flag
  <2>4. (parse.evt = Flag(AfterCategory))'
    <3>1. Doc # <<>>
      BY <1>0
    <3>2. AfterCategory'
      BY <1>6, <3>1 DEF AfterCategory
    <3> QED
      BY <1>1, <3>2 DEF Flag
  <2>5. ~Hit'
    BY <1>6 DEF Hit
  <2>6. (parse.found = Flag(Hit))'
    BY <1>1, <2>5 DEF Flag
  <2>7. (parse.any = Flag(Hit \/ \E j \in DOMAIN Doc : Current(j) /\ Seen(j)))'
    <3>1. a = Flag(Hit \/ \E j \in DOMAIN Doc : Current(j) /\ Seen(j))
      BY DEF ParseInv
    <3>2. Hit <=> Current(i)
      BY DEF Hit
    <3>3. (\E j \in DOMAIN Doc : Current(j) /\ Seen(j))'
            <=> Current(i) \/ \E j \in DOMAIN Doc : Current(j) /\ Seen(j)
      BY <1>0, <1>4, <1>5
    <3> QED
      BY <1>1, <2>5, <3>1, <3>2, <3>3 DEF Flag
  <2>8. ValueOK'
    <3>1. InEvent' => parse'.pos.scalar = 1
      BY <1>6
    <3>2. parse'.val # 1
      BY <1>1
    <3> QED
      BY <1>6, <3>1, <3>2 DEF ValueOK
  <2> QED
    BY <2>1, <2>2, <2>3, <2>4, <2>6, <2>7, <2>8 DEF ParseInv
<1> QED
  BY <1>7, <1>8

\* The template, the last value of an event.
LEMMA LastOfEvent ==
  ASSUME TypeOK, ParseInv, TableInv, CategoriesInv, Scalar, InEvent,
         parse.pos.scalar = 14
  PROVE  TypeOK' /\ ParseInv' /\ TableInv'
<1> SUFFICES ASSUME NEW i, i = parse.pos.item, NEW c, c = parse.category,
                    NEW n, n = parse.index, NEW b, b = parse.buf,
                    NEW f, f = parse.found, NEW a, a = parse.any,
                    NEW pos, pos = parse.pos, NEW s, s = ScalarAt(pos),
                    NEW next, next = Following(pos)
             PROVE  TypeOK' /\ ParseInv' /\ TableInv'
  OBVIOUS
<1>1. pc = "scan" /\ pc' = "scan" /\ UNCHANGED <<categories, call>>
  BY DEF Scalar
<1>2. /\ i \in DOMAIN Doc /\ s = Doc[i].template
      /\ next = IF i < Len(Doc) THEN Place(2, i + 1, 1) ELSE Place(3, 0, 1)
  <2>1. PICK k : k = parse.pos.scalar
    OBVIOUS
  <2>2. /\ i \in DOMAIN Doc /\ s = Definition(Doc[i])[k]
        /\ next = IF k < 14 THEN Place(2, i, k + 1)
              ELSE IF i < Len(Doc) THEN Place(2, i + 1, 1) ELSE Place(3, 0, 1)
    BY <2>1, EventPosition
  <2>3. k = 14
    BY <2>1
  <2> QED
    BY <2>2, <2>3 DEF Definition
<1>3. /\ parse = ParseRecord(c, pos, n, b, 1, 1, 5, f, a)
      /\ f = IF Current(i) THEN 1 ELSE 0
      /\ c \in Asked /\ c \notin Keys
      /\ Frontier(n, IF f = 1 THEN Partly(Doc[i], 14) ELSE Marked(Delimiter))
  <2>1. PICK k : k = parse.pos.scalar
    OBVIOUS
  <2>2. /\ parse.def = 1
        /\ parse.evt = IF i > 1 \/ k > 3 THEN 1 ELSE 0
        /\ parse.found = IF Current(i) /\ k > 4 THEN 1 ELSE 0
        /\ k = 14 => parse.val = 5
        /\ c \in Asked /\ c \notin Keys
        /\ Frontier(n, IF parse.found = 1 THEN Partly(Doc[i], k) ELSE Marked(Delimiter))
    BY <1>1, <2>1, EventParse
  <2>3. k = 14
    BY <2>1
  <2>4. parse.def = 1 /\ parse.evt = 1 /\ parse.val = 5
    BY ONLY <2>2, <2>3
  <2>5. parse = ParseRecord(c, pos, n, b, 1, 1, 5, f, a)
    BY <2>4, ParseIs
  <2>6. /\ f = IF Current(i) THEN 1 ELSE 0
        /\ Frontier(n, IF f = 1 THEN Partly(Doc[i], 14) ELSE Marked(Delimiter))
    BY ONLY <2>2, <2>3, f = parse.found
  <2> QED
    BY <2>2, <2>5, <2>6
<1>4. s \notin Keys /\ s # c
  <2>1. {Doc[i].name, Doc[i].id, Doc[i].severity, Doc[i].keys,
         Doc[i].template} \cap (Keys \cup Asked) = {}
    BY <1>2, DocTexts
  <2> QED
    BY ONLY <1>2, <1>3, <2>1
<1>5. n \in 0..MaxEvents - 1
  BY DEF TypeOK
<1>6. Current(i) => a = 1
  <2>1. Current(i) => Hit
    BY DEF Hit
  <2> QED
    BY <1>1, <2>1 DEF ParseInv, Flag
<1>7. parse'.category = c => \A j \in DOMAIN Doc : Current(j)' <=> Current(j)
  BY <1>1 DEF Current
<1>8. ASSUME parse'.pos = next
      PROVE  \A j \in DOMAIN Doc : Seen(j)' <=> Seen(j) \/ j = i
  <2> TAKE j \in DOMAIN Doc
  <2>1. Seen(j) <=> j < i
    BY DEF Seen, InEvent
  <2>2. j \in Nat /\ j <= Len(Doc) /\ i \in Nat /\ i <= Len(Doc) /\ Len(Doc) \in Nat
    BY <1>2, DocFacts
  <2>3. Seen(j)' <=> j < i \/ j = i
    <3>1. CASE i < Len(Doc)
      <4>1. parse'.pos.part = 2 /\ parse'.pos.item = i + 1
        BY <1>2, <1>8, <3>1 DEF Place
      <4> QED
        BY <2>2, <4>1 DEF Seen
    <3>2. CASE i = Len(Doc)
      <4>1. parse'.pos.part = 3
        BY <1>2, <1>8, <2>2, <3>2 DEF Place
      <4> QED
        BY <2>2, <3>2, <4>1 DEF Seen
    <3> QED
      BY <2>2, <3>1, <3>2
  <2> QED
    BY <2>1, <2>3
\* Of another event.
<1>9. CASE ~Current(i)
  <2>1. f = 0
    BY ONLY <1>3, <1>9
  <2>2. table' = table /\ parse' = ParseRecord(c, next, n, b, 1, 1, 5, 0, a)
    <3>1. parse = ParseRecord(c, pos, n, b, 1, 1, 5, 0, a)
      BY ONLY <1>3, <2>1
    <3> QED
      BY <3>1, <1>4, OtherStep
  <2>3. parse'.category = c /\ parse'.pos = next /\ parse'.index = n /\ parse'.found = 0
    BY <2>2, RecordGet
  <2>4. \A j \in DOMAIN Doc : Current(j) => (Seen(j)' <=> Seen(j))
    BY <1>8, <1>9, <2>3
  <2>5. Frontier(n, Marked(Delimiter))'
    <3>1. Frontier(n, Marked(Delimiter))
      BY ONLY <1>3, <2>1
    <3> QED
      BY <2>2, <3>1 DEF Frontier
  <2>6. TableInv' /\ Held' = Held
    BY <1>1, <2>2, <2>3, <2>4, <2>5, TableKept
  <2>7. Cardinality(Held)' = n
    BY <1>1, <2>6 DEF ParseInv
  <2>8. PICK v \in {0, 5} : v = 5
    OBVIOUS
  <2>9. parse' = ParseRecord(c, next, n, b, 1, 1, v, 0, a)
    BY <2>2, <2>8
  <2> QED
    BY ONLY TypeOK, ParseInv, InEvent, i = parse.pos.item, parse.pos.scalar = 14,
            c = parse.category, b = parse.buf, a = parse.any,
            <1>1, <1>2, <1>5, <1>6, <2>6, <2>7, <2>9, AfterEvent
\* Of an event that is asked for.
<1>10. CASE Current(i)
  <2>1. f = 1
    BY ONLY <1>3, <1>10
  <2>2. /\ table' = WithValue(table, [index |-> n, val |-> 5], s)
        /\ parse' = ParseRecord(c, next, n + 1, b, 1, 1, 0, 0, a)
    <3>1. parse = ParseRecord(c, pos, n, b, 1, 1, 5, 1, a) /\ 5 \in 2..5
      BY ONLY <1>3, <2>1
    <3>2. PICK v \in 2..5 : v = 5
      BY <3>1
    <3>3. parse = ParseRecord(c, pos, n, b, 1, 1, v, 1, a)
      BY <3>1, <3>2
    <3>4. /\ table' = WithValue(table, [index |-> n, val |-> v], s)
          /\ parse' = IF v = 5
               THEN ParseRecord(c, Following(pos), n + 1, b, 1, 1, 0, 0, a)
               ELSE ParseRecord(c, Following(pos), n, b, 1, 1, 0, 1, a)
      BY ONLY <3>3, <1>4, Scalar, s = ScalarAt(pos), ValueStep
    <3> QED
      BY <3>2, <3>4
  <2> SUFFICES ASSUME NEW m, m = n + 1
               PROVE  TypeOK' /\ ParseInv' /\ TableInv'
    OBVIOUS
  <2>3. parse' = ParseRecord(c, next, m, b, 1, 1, 0, 0, a)
    BY <2>2
  <2>4. parse'.category = c /\ parse'.pos = next /\ parse'.index = m /\ parse'.found = 0
    BY <2>3, RecordGet
  <2>5. PICK q : q = [index |-> n, val |-> 5]
    OBVIOUS
  <2>6. m \in 0..MaxEvents - 1
    <3>1. i \notin Held
      <4>1. i \notin Loaded
        BY <1>1, <1>10 DEF ParseInv, Loaded, Current
      <4>2. i \in Nat /\ ~(i < i)
        BY <1>2, DocFacts
      <4>3. ~Seen(i)
        BY <4>2 DEF Seen, InEvent
      <4> QED
        BY <4>1, <4>3 DEF Held
    <3>2. Held \in SUBSET DOMAIN Doc
      BY DEF Held, Loaded
    <3>3. Cardinality(Held) < Len(Doc)
      BY <1>2, <3>1, <3>2, NextEvent
    <3>4. n = Cardinality(Held)
      BY <1>1 DEF ParseInv
    <3> QED
      BY ONLY <1>5, <3>3, <3>4, m = n + 1, DocFacts
  <2>7. /\ Frontier(m, Marked(Delimiter))'
        /\ table'[n] = EntryOf(Doc[i])
        /\ \A j \in 0..n - 1 : table'[j] = table[j]
    <3> SUFFICES ASSUME NEW d, d = Doc[i], NEW y, y = IdOf[d.id],
                        NEW z, z = Len(KeysOf[d.keys])
                 PROVE  /\ Frontier(m, Marked(Delimiter))'
                        /\ table'[n] = EntryOf(Doc[i])
                        /\ \A j \in 0..n - 1 : table'[j] = table[j]
      OBVIOUS
    <3>1. Partly(d, 14) = SlotRecord(d.name, d.category, y, d.severity, z, Blank)
      BY DEF Partly, SlotRecord
    <3>2. Frontier(n, SlotRecord(d.name, d.category, y, d.severity, z, Blank))
      BY ONLY <1>3, <2>1, <3>1, d = Doc[i]
    <3>3. EntryOf(Doc[i]) = SlotRecord(d.name, d.category, y, d.severity, z, s)
      BY <1>2 DEF EntryOf, SlotRecord
    <3>4. i \in DOMAIN Doc
      BY <1>2
    <3>5. q.index = n /\ q.val = 5 /\ table' = WithValue(table, q, s)
      BY <2>2, <2>5
    <3> QED
      BY ONLY <2>6, <3>2, <3>3, <3>4, <3>5, m = n + 1, PutTemplate
  <2>8. TableInv' /\ Cardinality(Held)' = m
    <3>1. \A j \in DOMAIN Doc : Current(j) => (Seen(j)' <=> Seen(j) \/ j = i)
      BY <1>8, <2>4
    <3>2. Frontier(n + 1, Marked(Delimiter))' /\ parse'.index = n + 1
      BY <2>4, <2>7
    <3>3. TableInv' /\ Cardinality(Held)' = n + 1
      BY <1>1, <1>10, <2>4, <2>7, <3>1, <3>2, TableGrown
    <3> QED
      BY <3>3
  <2>9. PICK v \in {0, 5} : v = 0
    OBVIOUS
  <2>10. parse' = ParseRecord(c, next, m, b, 1, 1, v, 0, a)
    BY <2>3, <2>9
  <2> QED
    BY ONLY TypeOK, ParseInv, InEvent, i = parse.pos.item, parse.pos.scalar = 14,
            c = parse.category, b = parse.buf, a = parse.any,
            <1>1, <1>2, <1>6, <2>6, <2>8, <2>10, AfterEvent
<1> QED
  BY <1>9, <1>10

LEMMA ScalarKeeps ==
  ASSUME TypeOK, ParseInv, TableInv, CategoriesInv, Scalar
  PROVE  TypeOK' /\ ParseInv' /\ TableInv'
<1>1. CASE ~InEvent
  BY <1>1, HeadScalar
<1>2. CASE InEvent /\ parse.pos.scalar \in {1, 3, 5, 7, 9, 11, 13}
  BY <1>2, KeyOfEvent
<1>3. CASE InEvent /\ parse.pos.scalar \in {2, 4, 6, 8, 10, 12}
  BY <1>3, TextOfEvent
<1>4. CASE InEvent /\ parse.pos.scalar = 14
  BY <1>4, LastOfEvent
<1> QED
  BY <1>1, <1>2, <1>3, <1>4, PositionFacts

-----------------------------------------------------------------------------
(* The scanner stops.                                                      *)

\* Each category that is recorded is one of the file.
LEMMA FewCategories ==
  ASSUME NEW list \in Seq(Asked \cap CategoriesOf(Doc)),
         \A a, b \in DOMAIN list : list[a] = list[b] => a = b
  PROVE  Len(list) \in Nat /\ Len(list) <= MaxCategories
<1> DEFINE C == CategoriesOf(Doc)
<1>1. IsFiniteSet(C)
  <2>1. [i \in DOMAIN Doc |-> Doc[i].category] \in Surjection(DOMAIN Doc, C)
    BY DEF Surjection, CategoriesOf
  <2> QED
    BY <2>1, DocFacts, FS_Surjection
<1>3. /\ Len(list) \in Nat /\ DOMAIN list = 1..Len(list)
      /\ list \in [1..Len(list) -> C]
  OBVIOUS
<1>4. list \in Injection(1..Len(list), C)
  BY <1>3 DEF Injection, IsInjective
<1>5. Cardinality(1..Len(list)) <= Cardinality(C)
  BY <1>1, <1>4, FS_Injection
<1>6. Cardinality(1..Len(list)) = Len(list)
  <2>1. 1 \in Int /\ Len(list) \in Int
    BY <1>3
  <2>2. Cardinality(1..Len(list))
          = IF 1 > Len(list) THEN 0 ELSE Len(list) - 1 + 1
    BY <2>1, FS_Interval
  <2> QED
    BY <2>2, <1>3
<1>7. Cardinality(C) \in Nat /\ Cardinality(C) <= MaxCategories
  BY <1>1, FS_CardinalityType, FileFits DEF FileFits
<1> QED
  BY <1>3, <1>5, <1>6, <1>7, DocFacts

\* The types outside the scan.
LEMMA RestType ==
  ASSUME pc' \in {"idle", "log"}, parse' = NoParse, TableInv', CategoriesInv',
         call'.index \in 0..MaxEvents, call'.null \in BOOLEAN
  PROVE  TypeOK' /\ ParseInv'
<1>1. ParseInv'
  BY DEF ParseInv
<1>2. parse' \in
       [category : Asked \cup {Blank},
        pos : [part : 1..3, item : Nat, scalar : 1..14],
        index : 0..MaxEvents - 1,
        buf : {Doc[i].name : i \in DOMAIN Doc} \cup {Blank},
        def : {0, 1}, evt : {0, 1}, val : 0..5, found : {0, 1}, any : {0, 1}]
  <2>1. 0 \in 0..MaxEvents - 1
    BY DocFacts
  <2>2. Place(1, 0, 1) \in [part : 1..3, item : Nat, scalar : 1..14]
    BY DEF Place
  <2> QED
    BY <2>1, <2>2 DEF NoParse
<1>3. PositionOK'
  <2>1. parse'.pos.part = 1 /\ parse'.pos.item = 0 /\ parse'.pos.scalar = 1
    BY DEF NoParse, Place
  <2> QED
    BY <2>1, DocFacts DEF PositionOK, Items
<1>4. table' # NoTable =>
           /\ DOMAIN table' = 0..MaxEvents
           /\ \A j \in DOMAIN table' : table'[j].keys \in Nat
  <2>1. ~InEvent'
    BY DEF InEvent, NoParse, Place
  <2>2. (pc' = "scan" /\ parse'.found = 1) => InEvent'
    OBVIOUS
  <2> QED
    BY <2>1, <2>2, TableType
<1>5. ToSet(categories') \subseteq Asked
  BY DEF CategoriesInv, ToSet
<1>6. Len(categories') <= MaxCategories
  BY FewCategories DEF CategoriesInv
<1> QED
  BY <1>1, <1>2, <1>3, <1>4, <1>5, <1>6 DEF TypeOK

\* Memory ran out: the name of the event has replaced the delimiter.
LEMMA ScalarFailsKeeps ==
  ASSUME TypeOK, ParseInv, TableInv, CategoriesInv, ScalarFails
  PROVE  ParseInv' /\ TableInv'
<1> SUFFICES ASSUME NEW i, i = parse.pos.item, NEW n, n = parse.index,
                    NEW b, b = parse.buf, NEW s, s = ScalarAt(parse.pos),
                    NEW p, p = Named(parse, s)
             PROVE  ParseInv' /\ TableInv'
  OBVIOUS
<1>1. /\ pc = "scan" /\ ~AtEnd /\ pc' = "idle" /\ parse' = NoParse
      /\ categories' = categories
      /\ IsMatch(p, s) /\ table' = [table EXCEPT ![p.index].name = p.buf]
  BY DEF ScalarFails
<1>2. parse.evt = 1 /\ s = parse.category
  <2>1. p.evt = parse.evt /\ p.category = parse.category
    <3>1. parse = ParseRecord(parse.category, parse.pos, parse.index, parse.buf,
                    parse.def, parse.evt, parse.val, parse.found, parse.any)
      BY ParseIs
    <3>2. PICK q : q = [parse EXCEPT !.buf = s, !.val = 0]
      OBVIOUS
    <3>3. q.evt = parse.evt /\ q.category = parse.category
      BY <3>1, <3>2 DEF ParseRecord
    <3> QED
      BY <3>2, <3>3 DEF Named
  <2> QED
    BY <1>1, <2>1 DEF IsMatch
<1>3. InEvent
  BY <1>1, <1>2 DEF ParseInv, AfterCategory, Flag
<1>4. i \in DOMAIN Doc /\ parse.pos.scalar = 4 /\ parse.val = 0
      /\ b = Doc[i].name /\ parse.found = 0
  <2>1. PICK k : k = parse.pos.scalar
    OBVIOUS
  <2>2. i \in DOMAIN Doc /\ k \in 1..14 /\ s = Definition(Doc[i])[k]
    BY <1>3, <2>1, EventPosition
  <2>3. s \notin Keys /\ s \in Asked
    BY <1>1, <1>2, TextsAssumption DEF ParseInv, TextsAssumption
  <2>4. k = 4
    <3>1. {Doc[i].name, Doc[i].id, Doc[i].severity, Doc[i].keys,
           Doc[i].template} \cap (Keys \cup Asked) = {}
      BY <2>2, DocTexts
    <3>2. Description \notin Asked
      BY TextsAssumption DEF TextsAssumption
    <3>3. /\ k \in {1, 3, 5, 7, 9, 11, 13} => s \in Keys
          /\ k = 2 => s = Doc[i].name
          /\ k = 6 => s = Doc[i].id
          /\ k = 8 => s = Doc[i].severity
          /\ k = 10 => s = Doc[i].keys
          /\ k = 12 => s = Description
          /\ k = 14 => s = Doc[i].template
      BY <2>2 DEF Definition, Keys
    <3> QED
      BY ONLY <2>2, <2>3, <3>1, <3>2, <3>3
  <2>5. /\ k \in 3..5 => parse.val = 0
        /\ k > 2 => b = Doc[i].name
        /\ parse.found = IF Current(i) /\ k > 4 THEN 1 ELSE 0
    BY <1>1, <1>3, <2>1, EventParse
  <2> QED
    BY ONLY <2>1, <2>2, <2>4, <2>5
<1>5. p = parse
  BY <1>4 DEF Named
<1>6. table' = [table EXCEPT ![n].name = b]
  BY <1>1, <1>5
<1>7. Frontier(n, Marked(Delimiter))
  BY <1>1, <1>4 DEF TableInv
<1>8. /\ Frontier(n, Marked(Doc[i].name))'
      /\ \A j \in 0..MaxEvents \ {n} : table'[j] = table[j]
  <2>1. PICK old : old = table[n]
    OBVIOUS
  <2>2. old = SlotRecord(Delimiter, Blank, 0, Blank, 0, Blank)
    BY <1>7, <2>1 DEF Frontier, Marked, Unwritten, SlotRecord
  <2>3. [old EXCEPT !.name = b] = SlotRecord(b, Blank, 0, Blank, 0, Blank)
    BY <2>2 DEF SlotRecord
  <2>4. Marked(Doc[i].name) = SlotRecord(b, Blank, 0, Blank, 0, Blank)
    BY <1>4 DEF Marked, Unwritten, SlotRecord
  <2>5. table' = [table EXCEPT ![n] = Marked(Doc[i].name)]
    BY <1>6, <2>1, <2>3, <2>4
  <2> QED
    BY <1>7, <2>5, PutSlot
<1>9. ASSUME NEW a \in DOMAIN categories, NEW j \in DOMAIN Doc,
             Doc[j].category = categories[a]
      PROVE  table'[Slot(a, j)'] = EntryOf(Doc[j])
  <2>1. Slot(a, j)' = Slot(a, j)
    BY <1>1 DEF Slot, InFrontOf
  <2>2. Slot(a, j) \in Nat /\ Slot(a, j) < Cardinality(Loaded)
    BY <1>9, RecordedBelow
  <2>3. /\ Cardinality(Loaded) <= Cardinality(Held) /\ Cardinality(Loaded) \in Nat
        /\ Cardinality(Held) \in 0..Len(Doc)
    <3>1. Loaded \subseteq Held /\ Held \subseteq DOMAIN Doc
      BY DEF Held, Loaded
    <3> QED
      BY <3>1, EventsCount, FS_Subset
  <2>4. n = Cardinality(Held)
    BY <1>1 DEF ParseInv
  <2>5. Slot(a, j) \in 0..MaxEvents \ {n}
    BY ONLY <2>2, <2>3, <2>4, DocFacts
  <2>6. table[Slot(a, j)] = EntryOf(Doc[j])
    BY <1>9 DEF TableInv
  <2> QED
    BY <1>8, <2>1, <2>5, <2>6
<1>10. TableInv'
  <2>1. n \in 0..MaxEvents - 1
    BY <1>7 DEF Frontier
  <2>2. table' # NoTable
    <3>1. 0 \in DOMAIN table'
      BY <1>8, DocFacts DEF Frontier
    <3>2. 0 \notin DOMAIN NoTable
      BY DEF NoTable
    <3> QED
      BY <3>1, <3>2
  <2>3. (\E m \in 0..MaxEvents - 1, j \in DOMAIN Doc :
                 Frontier(m, Marked(Doc[j].name)))'
    BY <1>4, <1>8, <2>1
  <2>4. (\A a \in DOMAIN categories, j \in DOMAIN Doc :
          Doc[j].category = categories[a] => table[Slot(a, j)] = EntryOf(Doc[j]))'
    BY <1>1, <1>9
  <2>5. \A j : ~Current(j)'
    BY <1>1 DEF Current
  <2> QED
    BY <1>1, <2>2, <2>3, <2>4, <2>5 DEF TableInv
<1>11. ParseInv'
  BY <1>1 DEF ParseInv
<1> QED
  BY <1>10, <1>11

\* The category is complete in the table.
LEMMA ScanEndKeeps ==
  ASSUME TypeOK, ParseInv, TableInv, CategoriesInv, ScanEnd
  PROVE  ParseInv' /\ TableInv' /\ CategoriesInv'
<1> SUFFICES ASSUME NEW c, c = parse.category, NEW n, n = parse.index,
                    NEW m, m = Len(categories)
             PROVE  ParseInv' /\ TableInv' /\ CategoriesInv'
  OBVIOUS
<1>1. /\ pc = "scan" /\ AtEnd /\ pc' = "idle" /\ parse' = NoParse /\ table' = table
      /\ categories' = IF parse.any = 1 THEN Append(categories, c) ELSE categories
  BY DEF ScanEnd, Registered
<1>2. ~Hit /\ \A i : Seen(i)
  BY <1>1 DEF AtEnd, Hit, InEvent, Seen
<1>3. parse.any = 1 <=> \E i \in DOMAIN Doc : Doc[i].category = c
  BY <1>1, <1>2 DEF ParseInv, Flag, Current
<1>4. Held = Loaded \cup {i \in DOMAIN Doc : Doc[i].category = c}
  BY <1>1, <1>2 DEF Held, Current
<1>5. n = Cardinality(Held) /\ Frontier(n, Marked(Delimiter))
  BY <1>1, <1>2 DEF ParseInv, TableInv, Flag
<1>6. /\ m \in Nat /\ DOMAIN categories = 1..m
      /\ categories \in Seq(Asked \cap CategoriesOf(Doc))
      /\ \A a, b \in 1..m : categories[a] = categories[b] => a = b
      /\ \A a \in 1..m : categories[a] # c
  <2>1. c \notin ToSet(categories)
    BY <1>1 DEF ParseInv
  <2> QED
    BY <2>1 DEF CategoriesInv, ToSet
<1>7. CASE parse.any = 0
  <2>1. categories' = categories
    BY <1>1, <1>7
  <2>2. Loaded' = Loaded /\ Held = Loaded
    BY <1>3, <1>4, <1>7, <2>1 DEF Loaded
  <2>3. CategoriesInv'
    BY <2>1 DEF CategoriesInv
  <2>4. Frontier(Cardinality(Loaded), Marked(Delimiter))'
    BY <1>1, <1>5, <2>2 DEF Frontier
  <2>5. (\A a \in DOMAIN categories, j \in DOMAIN Doc :
          Doc[j].category = categories[a] => table[Slot(a, j)] = EntryOf(Doc[j]))'
    BY <1>1, <2>1 DEF TableInv, Slot, InFrontOf
  <2>6. table' # NoTable
    <3>1. 0 \in DOMAIN table'
      BY <2>4, DocFacts DEF Frontier
    <3>2. 0 \notin DOMAIN NoTable
      BY DEF NoTable
    <3> QED
      BY <3>1, <3>2
  <2>7. \A j : ~Current(j)'
    BY <1>1 DEF Current
  <2>8. TableInv'
    BY <1>1, <2>4, <2>5, <2>6, <2>7 DEF TableInv
  <2> QED
    BY <1>1, <2>3, <2>8 DEF ParseInv
<1>8. CASE parse.any = 1
  <2>1. c \in Asked \cap CategoriesOf(Doc)
    BY <1>1, <1>3, <1>8 DEF ParseInv, CategoriesOf
  <2>2. /\ categories' \in Seq(Asked \cap CategoriesOf(Doc)) /\ Len(categories') = m + 1
        /\ \A a \in 1..m : categories'[a] = categories[a]
        /\ categories'[m + 1] = c
        /\ DOMAIN categories' = 1..m + 1
    <3>1. categories' = Append(categories, c)
      BY <1>1, <1>8
    <3> QED
      BY <1>6, <2>1, <3>1, AppendProperties, LenProperties
  <2>3. CategoriesInv'
    <3>1. ASSUME NEW a \in 1..m + 1, NEW b \in 1..m + 1, categories'[a] = categories'[b]
          PROVE  a = b
      <4>1. /\ a \in 1..m \/ a = m + 1
            /\ b \in 1..m \/ b = m + 1
        BY <1>6
      <4> QED
        BY <1>6, <2>2, <3>1, <4>1
    <3> QED
      BY <2>2, <3>1 DEF CategoriesInv
  <2>4. Loaded' = Held
    <3>1. \A x : x \in ToSet(categories') <=> x \in ToSet(categories) \/ x = c
      <4> TAKE x
      <4>1. x \in ToSet(categories') <=> \E a \in 1..m + 1 : categories'[a] = x
        BY <2>2 DEF ToSet
      <4>2. x \in ToSet(categories) <=> \E a \in 1..m : categories[a] = x
        BY <1>6 DEF ToSet
      <4>3. \A a : a \in 1..m + 1 <=> a \in 1..m \/ a = m + 1
        BY <1>6
      <4> QED
        BY <2>2, <4>1, <4>2, <4>3
    <3> QED
      BY <1>4, <3>1 DEF Loaded
  <2>5. Frontier(Cardinality(Loaded), Marked(Delimiter))'
    BY <1>1, <1>5, <2>4 DEF Frontier
  <2>6. ASSUME NEW a \in DOMAIN categories', NEW j \in DOMAIN Doc,
               Doc[j].category = categories'[a]
        PROVE  table'[Slot(a, j)'] = EntryOf(Doc[j])
    <3>1. CASE a \in 1..m
      <4>1. Slot(a, j)' = Slot(a, j)
        <5>1. \A b \in 1..a - 1 : b \in 1..m
          BY <1>6, <3>1
        <5> QED
          BY <2>2, <3>1, <5>1 DEF Slot, InFrontOf
      <4>2. Doc[j].category = categories[a] /\ a \in DOMAIN categories
        BY <1>6, <2>2, <2>6, <3>1
      <4> QED
        BY <1>1, <4>1, <4>2 DEF TableInv
    <3>2. CASE a = m + 1
      <4>1. Doc[j].category = c
        BY <2>2, <2>6, <3>2
      <4>2. InFrontOf(a, j)' = Loaded \cup {i \in DOMAIN Doc : Current(i) /\ i < j}
        <5>1. a - 1 = m
          BY <1>6, <3>2
        <5>2. \A i \in DOMAIN Doc : (\E b \in 1..m : Doc[i].category = categories'[b])
                                      <=> Doc[i].category \in ToSet(categories)
          BY <1>6, <2>2 DEF ToSet
        <5>3. \A i : Current(i) <=> Doc[i].category = c
          BY <1>1 DEF Current
        <5>4. categories'[a] = c
          BY <2>2, <3>2
        <5> QED
          BY <5>1, <5>2, <5>3, <5>4 DEF InFrontOf, Loaded
      <4>3. Slot(a, j)' = NextSlot(j)
        BY <4>2 DEF Slot, NextSlot
      <4>4. table[NextSlot(j)] = EntryOf(Doc[j])
        BY <1>1, <1>2, <4>1 DEF TableInv, Current
      <4> QED
        BY <1>1, <4>3, <4>4
    <3>3. a \in 1..m \/ a = m + 1
      BY <1>6, <2>2
    <3> QED
      BY <3>1, <3>2, <3>3
  <2>7. table' # NoTable
    <3>1. 0 \in DOMAIN table'
      BY <2>5, DocFacts DEF Frontier
    <3>2. 0 \notin DOMAIN NoTable
      BY DEF NoTable
    <3> QED
      BY <3>1, <3>2
  <2>8. \A j : ~Current(j)'
    BY <1>1 DEF Current
  <2>9. (\A a \in DOMAIN categories, j \in DOMAIN Doc :
          Doc[j].category = categories[a] => table[Slot(a, j)] = EntryOf(Doc[j]))'
    BY <2>6
  <2>10. TableInv'
    BY <1>1, <2>5, <2>7, <2>8, <2>9 DEF TableInv
  <2> QED
    BY <1>1, <2>3, <2>10 DEF ParseInv
<1> QED
  <2>1. parse.any \in {0, 1}
    BY DEF TypeOK
  <2> QED
    BY <2>1, <1>7, <1>8

-----------------------------------------------------------------------------
(* The scanner starts.                                                     *)

LEMMA LastIs ==
  ASSUME NEW t, NEW n \in 0..MaxEvents - 1, t[n].name = Delimiter,
         \A s \in 0..MaxEvents - 1 : s # n => t[s].name # Delimiter
  PROVE  LastIndex(t) = n
<1> DEFINE ends == {i \in 0..MaxEvents - 1 : t[i].name = Delimiter}
<1>1. ends = {n}
  OBVIOUS
<1>2. (CHOOSE i \in ends : \A j \in ends : i <= j) = n
  <2>1. n <= n
    BY DocFacts
  <2> QED
    BY <1>1, <2>1
<1> QED
  BY <1>1, <1>2 DEF LastIndex

\* The names in the table up to its end are those of events; behind, nothing
\* is written.
LEMMA TableNames ==
  ASSUME NEW n, NEW slot, Frontier(n, slot), NEW s \in 0..MaxEvents
  PROVE  /\ s < n => \E i \in DOMAIN Doc : table[s] = EntryOf(Doc[i])
         /\ s > n => table[s] = Unwritten
         /\ s # n => table[s].name # Delimiter
<1>1. n \in 0..MaxEvents - 1 /\ MaxEvents \in Nat
  BY DocFacts DEF Frontier
<1>2. ASSUME s < n
      PROVE  \E i \in DOMAIN Doc : table[s] = EntryOf(Doc[i])
  <2>1. s \in 0..n - 1
    BY <1>1, <1>2
  <2> QED
    BY <2>1 DEF Frontier
<1>3. ASSUME s > n
      PROVE  table[s] = Unwritten
  <2>1. s \in n + 1..MaxEvents
    BY <1>1, <1>3
  <2> QED
    BY <2>1 DEF Frontier
<1>4. ASSUME s < n
      PROVE  table[s].name # Delimiter
  <2>1. PICK i \in DOMAIN Doc : table[s] = EntryOf(Doc[i])
    BY <1>2, <1>4
  <2>2. table[s].name = Doc[i].name
    BY <2>1 DEF EntryOf
  <2> QED
    BY <2>2, DocTexts
<1>5. s > n => table[s].name # Delimiter
  <2>1. Blank # Delimiter
    BY TextsAssumption DEF TextsAssumption
  <2> QED
    BY <1>3, <2>1 DEF Unwritten
<1>6. s # n => s < n \/ s > n
  BY <1>1
<1> QED
  BY <1>2, <1>3, <1>4, <1>5, <1>6

LEMMA FirstTable ==
  ASSUME table = NoTable, table' = Created
  PROVE  Frontier(0, Marked(Delimiter))' /\ LastIndex(Created) = 0
<1>1. Created = [i \in 0..MaxEvents |-> IF i = 0 THEN Marked(Delimiter) ELSE Unwritten]
  BY DEF Created, Marked
<1>2. MaxEvents \in Nat /\ 0 \in 0..MaxEvents - 1 /\ 0 \in 0..MaxEvents
  BY DocFacts
<1>3. /\ Created = [s \in 0..MaxEvents |-> Created[s]]
      /\ Created[0] = Marked(Delimiter)
      /\ \A s \in 0..MaxEvents : s # 0 => Created[s] = Unwritten
  BY <1>1, <1>2
<1>4. \A s \in 0 + 1..MaxEvents : Created[s] = Unwritten
  BY <1>2, <1>3
<1>5. Frontier(0, Marked(Delimiter))'
  BY <1>2, <1>3, <1>4 DEF Frontier
<1>6. LastIndex(Created) = 0
  <2>1. Created[0].name = Delimiter
    BY <1>3 DEF Marked, Unwritten
  <2>2. \A s \in 0..MaxEvents - 1 : s # 0 => Created[s].name # Delimiter
    <3>1. \A s \in 0..MaxEvents - 1 : s \in 0..MaxEvents
      BY <1>2
    <3>2. Blank # Delimiter
      BY TextsAssumption DEF TextsAssumption
    <3> QED
      BY <1>3, <3>1, <3>2 DEF Unwritten
  <2> QED
    BY <1>2, <2>1, <2>2, LastIs
<1> QED
  BY <1>5, <1>6

\* Between calls, the delimiter is behind the events, unless an allocation has
\* failed.
LEMMA NextFree ==
  ASSUME TypeOK, TableInv, pc = "idle", table # NoTable
  PROVE  \/ /\ Frontier(Cardinality(Loaded), Marked(Delimiter))
            /\ LastIndex(table) = Cardinality(Loaded)
         \/ LastIndex(table) = -1 /\ \E n \in 0..MaxEvents - 1, i \in DOMAIN Doc :
                 Frontier(n, Marked(Doc[i].name))
<1>1. \A s \in 0..MaxEvents - 1 : s \in 0..MaxEvents
  BY DocFacts
<1>2. ASSUME Frontier(Cardinality(Loaded), Marked(Delimiter))
      PROVE  LastIndex(table) = Cardinality(Loaded)
  <2>1. Cardinality(Loaded) \in 0..MaxEvents - 1
        /\ table[Cardinality(Loaded)].name = Delimiter
    BY <1>2 DEF Frontier, Marked, Unwritten
  <2>2. \A s \in 0..MaxEvents - 1 : s # Cardinality(Loaded) => table[s].name # Delimiter
    BY <1>1, <1>2, TableNames
  <2> QED
    BY <2>1, <2>2, LastIs
<1>3. ASSUME NEW n \in 0..MaxEvents - 1, NEW i \in DOMAIN Doc,
             Frontier(n, Marked(Doc[i].name))
      PROVE  LastIndex(table) = -1
  <2>1. table[n].name # Delimiter
    BY <1>3, DocTexts DEF Frontier, Marked, Unwritten
  <2>2. {s \in 0..MaxEvents - 1 : table[s].name = Delimiter} = {}
    BY <1>1, <1>3, <2>1, TableNames
  <2> QED
    BY <2>2 DEF LastIndex
<1>4. \/ Frontier(Cardinality(Loaded), Marked(Delimiter))
      \/ \E n \in 0..MaxEvents - 1, i \in DOMAIN Doc :
                 Frontier(n, Marked(Doc[i].name))
  BY DEF TableInv
<1> QED
  BY <1>2, <1>3, <1>4

LEMMA InitNoScanKeeps ==
  ASSUME TypeOK, ParseInv, TableInv, CategoriesInv, NEW c, InitNoScan(c)
  PROVE  ParseInv' /\ TableInv' /\ CategoriesInv'
<1>1. /\ pc = "idle" /\ pc' = "idle" /\ table' = Created
      /\ UNCHANGED <<categories, parse>>
  BY DEF InitNoScan
<1>2. ParseInv' /\ CategoriesInv'
  BY <1>1 DEF ParseInv, CategoriesInv
<1>3. Loaded' = Loaded /\ \A i : ~Current(i)'
  BY <1>1 DEF Loaded, Current
<1>4. CASE table # NoTable
  <2>1. table' = table
    BY <1>1, <1>4 DEF Created
  <2>2. (\A a \in DOMAIN categories, j \in DOMAIN Doc :
          Doc[j].category = categories[a] => table[Slot(a, j)] = EntryOf(Doc[j]))'
    BY <1>1, <2>1 DEF TableInv, Slot, InFrontOf
  <2>3. (\/ Frontier(Cardinality(Loaded), Marked(Delimiter))
         \/ \E n \in 0..MaxEvents - 1, i \in DOMAIN Doc :
                 Frontier(n, Marked(Doc[i].name)))'
    <3>1. \/ Frontier(Cardinality(Loaded), Marked(Delimiter))
          \/ \E n \in 0..MaxEvents - 1, i \in DOMAIN Doc :
                 Frontier(n, Marked(Doc[i].name))
      BY <1>1, <1>4 DEF TableInv
    <3> QED
      BY <1>3, <2>1, <3>1 DEF Frontier
  <2> QED
    BY <1>1, <1>2, <1>3, <1>4, <2>1, <2>2, <2>3 DEF TableInv
<1>5. CASE table = NoTable
  <2>1. Frontier(0, Marked(Delimiter))'
    BY <1>1, <1>5, FirstTable
  <2>2. categories' = <<>>
    BY <1>1, <1>5 DEF TableInv
  <2>3. Cardinality(Loaded)' = 0
    <3>1. Loaded' = {}
      BY <2>2 DEF Loaded, ToSet
    <3> QED
      BY <3>1, FS_EmptySet
  <2> QED
    BY <1>1, <1>2, <1>3, <2>1, <2>2, <2>3 DEF TableInv, Frontier
<1> QED
  BY <1>4, <1>5

LEMMA InitScanKeeps ==
  ASSUME TypeOK, ParseInv, TableInv, CategoriesInv, NEW c \in Asked, InitScan(c)
  PROVE  TypeOK' /\ ParseInv' /\ TableInv' /\ CategoriesInv'
<1> SUFFICES ASSUME NEW n, n = LastIndex(Created)
             PROVE  TypeOK' /\ ParseInv' /\ TableInv' /\ CategoriesInv'
  OBVIOUS
<1>1. /\ pc = "idle" /\ pc' = "scan" /\ table' = Created /\ n # -1
      /\ UNCHANGED <<categories, call>> /\ c \notin ToSet(categories)
      /\ parse' = [NoParse EXCEPT !.category = c, !.index = n]
  BY DEF InitScan, Refused, ToSet
<1>2. parse' = ParseRecord(c, Place(1, 0, 1), n, Blank, 0, 0, 0, 0, 0)
  <2>1. PICK p : p = NoParse
    OBVIOUS
  <2>2. PICK pos : pos = Place(1, 0, 1)
    OBVIOUS
  <2>3. p = ParseRecord(Blank, pos, 0, Blank, 0, 0, 0, 0, 0)
    BY <2>1, <2>2 DEF NoParse, ParseRecord
  <2>4. PICK q : q = [p EXCEPT !.category = c]
    OBVIOUS
  <2>5. q = ParseRecord(c, pos, 0, Blank, 0, 0, 0, 0, 0)
    BY <2>3, <2>4 DEF ParseRecord
  <2>6. [q EXCEPT !.index = n] = ParseRecord(c, pos, n, Blank, 0, 0, 0, 0, 0)
    BY <2>5 DEF ParseRecord
  <2> QED
    BY <1>1, <2>1, <2>2, <2>4, <2>6
<1>3. /\ parse'.category = c /\ parse'.index = n /\ parse'.buf = Blank
      /\ parse'.def = 0 /\ parse'.evt = 0 /\ parse'.val = 0 /\ parse'.found = 0
      /\ parse'.any = 0 /\ parse'.pos = Place(1, 0, 1)
  <2>1. PICK pos : pos = Place(1, 0, 1)
    OBVIOUS
  <2>2. parse' = ParseRecord(c, pos, n, Blank, 0, 0, 0, 0, 0)
    BY <1>2, <2>1
  <2> QED
    BY <2>1, <2>2, RecordGet
<1>4. /\ parse'.pos.part = 1 /\ parse'.pos.item = 0 /\ parse'.pos.scalar = 1
  BY <1>3 DEF Place
<1>5. ~InEvent' /\ ~AtEnd' /\ \A i : ~Seen(i)'
  BY <1>4 DEF InEvent, AtEnd, Seen
<1>6. Loaded' = Loaded /\ Held' = Loaded
  BY <1>1, <1>5 DEF Loaded, Held
<1>7. n = Cardinality(Loaded) /\ Frontier(n, Marked(Delimiter))'
  <2>1. CASE table = NoTable
    <3>1. categories = <<>>
      BY <1>1, <2>1 DEF TableInv
    <3>2. Cardinality(Loaded) = 0
      <4>1. Loaded = {}
        BY <3>1 DEF Loaded, ToSet
      <4> QED
        BY <4>1, FS_EmptySet
    <3>3. Frontier(0, Marked(Delimiter))' /\ n = 0
      BY <1>1, <2>1, FirstTable
    <3> QED
      BY <3>2, <3>3
  <2>2. CASE table # NoTable
    <3>1. table' = table /\ Created = table
      BY <1>1, <2>2 DEF Created
    <3>2. n = Cardinality(Loaded) /\ Frontier(Cardinality(Loaded), Marked(Delimiter))
      BY <1>1, <2>2, <3>1, NextFree
    <3> QED
      BY <3>1, <3>2 DEF Frontier
  <2> QED
    BY <2>1, <2>2
<1>8. CategoriesInv'
  BY <1>1 DEF CategoriesInv
<1>9. TableInv'
  <2>1. ASSUME NEW a \in DOMAIN categories, NEW j \in DOMAIN Doc,
               Doc[j].category = categories[a]
        PROVE  table'[Slot(a, j)'] = EntryOf(Doc[j])
    <3>1. table # NoTable
      BY <1>1, <2>1 DEF TableInv
    <3>2. table' = table
      BY <1>1, <3>1 DEF Created
    <3> QED
      BY <1>1, <2>1, <3>2 DEF TableInv, Slot, InFrontOf
  <2>2. (\A a \in DOMAIN categories, j \in DOMAIN Doc :
          Doc[j].category = categories[a] => table[Slot(a, j)] = EntryOf(Doc[j]))'
    BY <1>1, <2>1
  <2>3. Frontier(parse.index,
              IF parse.found = 1
                THEN Partly(Doc[parse.pos.item], parse.pos.scalar)
                ELSE Marked(Delimiter))'
    BY <1>3, <1>7 DEF Frontier
  <2> QED
    BY <1>1, <1>5, <2>2, <2>3 DEF TableInv
<1>10. TypeOK'
  <2>1. PICK pos : pos = Place(1, 0, 1)
    OBVIOUS
  <2>2. /\ pos \in [part : 1..3, item : Nat, scalar : 1..14]
        /\ pos.item <= (IF pos.part = 3 THEN 0 ELSE Len(Items(pos.part)))
        /\ pos.item = 0 => pos.scalar = 1
        /\ pos.part = 1 => pos.scalar <= 4
    BY <2>1, DocFacts DEF Place, Items
  <2>3. n \in 0..MaxEvents - 1
    BY <1>7 DEF Frontier
  <2>4. /\ Blank \in {Doc[i].name : i \in DOMAIN Doc} \cup {Blank}
        /\ 0 \in {0, 1} /\ 0 \in 0..5 /\ c \in Asked
    OBVIOUS
  <2>5. parse' = ParseRecord(c, pos, n, Blank, 0, 0, 0, 0, 0)
    BY <1>2, <2>1
  <2>6. parse'.found = 1 => InEvent'
    BY <1>3
  <2> HIDE DEF Items
  <2> QED
    BY ONLY TypeOK, <1>1, <1>9, <2>2, <2>3, <2>4, <2>5, <2>6, ScanType
<1>11. ParseInv'
  <2>1. (parse.category \in Asked \ ToSet(categories))'
    BY <1>1, <1>3
  <2>2. (parse.index = Cardinality(Held))'
    BY <1>3, <1>6, <1>7
  <2>3. (parse.def = Flag(InEvent \/ AtEnd))'
    BY <1>3, <1>5 DEF Flag
  <2>4. (parse.evt = Flag(AfterCategory))'
    BY <1>3, <1>5 DEF Flag, AfterCategory
  <2>5. ~Hit'
    BY <1>5 DEF Hit
  <2>6. (parse.found = Flag(Hit))'
    BY <1>3, <2>5 DEF Flag
  <2>7. (parse.any = Flag(Hit \/ \E i \in DOMAIN Doc : Current(i) /\ Seen(i)))'
    BY <1>3, <1>5, <2>5 DEF Flag
  <2>8. ValueOK'
    BY <1>3, <1>5 DEF ValueOK
  <2> QED
    BY <1>1, <2>1, <2>2, <2>3, <2>4, <2>6, <2>7, <2>8 DEF ParseInv
<1> QED
  BY <1>8, <1>9, <1>10, <1>11

-----------------------------------------------------------------------------
(* log_event.                                                              *)

LEMMA NatMin ==
  ASSUME NEW S \in SUBSET Nat, S # {}
  PROVE  \E i \in S : \A j \in S : i <= j
<1> DEFINE R == {ss \in Nat \X Nat : ss[1] < ss[2]}
<1>1. IsWellFoundedOn(R, Nat)
  BY NatLessThanWellFounded DEF OpToRel
<1> HIDE DEF R
<1>2. \E i \in S : \A j \in S : ~ (<<j, i>> \in R)
  BY <1>1, WFMin
<1>3. \A i, j \in Nat : ~ (<<j, i>> \in R) => i <= j
  BY DEF R
<1> QED
  BY <1>2, <1>3

\* What a search finds has the name; if nothing has, it is the slot behind.
LEMMA SearchFinds ==
  ASSUME table # NoTable, NEW name
  PROVE  \/ Search(name) = MaxEvents
         \/ Search(name) \in 0..MaxEvents - 1 /\ table[Search(name)].name = name
<1> DEFINE hits == {i \in 0..MaxEvents - 1 : table[i].name = name}
<1>1. hits \in SUBSET Nat
  BY DocFacts
<1>2. hits # {} => \E i \in hits : \A j \in hits : i <= j
  BY <1>1, NatMin
<1>3. Search(name) = IF hits = {} THEN MaxEvents
                     ELSE CHOOSE i \in hits : \A j \in hits : i <= j
  BY DEF Search
<1>4. hits # {} => Search(name) \in hits
  BY <1>2, <1>3
<1> QED
  BY <1>3, <1>4

\* An entry that is found is complete, or an allocation failed and it neither
\* has a severity nor keys.
LEMMA Found ==
  ASSUME TypeOK, TableInv, pc = "idle", NEW name, ~IsUnknown(Search(name))
  PROVE  /\ table # NoTable /\ Search(name) \in 0..MaxEvents
         /\ \/ /\ table[Search(name)].severity = Blank
               /\ table[Search(name)].keys = 0
            \/ \E i \in DOMAIN Doc : /\ table[Search(name)] = EntryOf(Doc[i])
                                    /\ name = Doc[i].name
<1> SUFFICES ASSUME NEW s, s = Search(name)
             PROVE  /\ table # NoTable /\ s \in 0..MaxEvents
                    /\ \/ table[s].severity = Blank /\ table[s].keys = 0
                       \/ \E i \in DOMAIN Doc : /\ table[s] = EntryOf(Doc[i])
                                               /\ name = Doc[i].name
  OBVIOUS
<1>1. table # NoTable
  BY DEF IsUnknown, Search
<1>2. /\ s \in 0..MaxEvents
      /\ s = MaxEvents \/ table[s].name = name
  BY <1>1, SearchFinds, DocFacts
<1>3. ASSUME NEW n, NEW mark, Frontier(n, Marked(mark))
      PROVE  \/ table[s].severity = Blank /\ table[s].keys = 0
             \/ \E i \in DOMAIN Doc : table[s] = EntryOf(Doc[i]) /\ name = Doc[i].name
  <2>0. n \in 0..MaxEvents - 1
    BY <1>3 DEF Frontier
  <2>1. CASE s < n
    <3>1. PICK i \in DOMAIN Doc : table[s] = EntryOf(Doc[i])
      BY <1>2, <1>3, <2>1, TableNames
    <3>2. s # MaxEvents
      BY <1>2, <2>0, <2>1, DocFacts
    <3>3. table[s].name = Doc[i].name
      BY <3>1 DEF EntryOf
    <3> QED
      BY <1>2, <3>1, <3>2, <3>3
  <2>2. CASE s = n
    BY <1>3, <2>2 DEF Frontier, Marked, Unwritten
  <2>3. CASE s > n
    <3>1. table[s] = Unwritten
      BY <1>2, <1>3, <2>3, TableNames
    <3> QED
      BY <3>1 DEF Unwritten
  <2>4. s < n \/ s = n \/ s > n
    BY <1>2, <2>0, DocFacts
  <2> QED
    BY <2>1, <2>2, <2>3, <2>4
<1>4. \/ Frontier(Cardinality(Loaded), Marked(Delimiter))
      \/ \E n \in 0..MaxEvents - 1, i \in DOMAIN Doc :
                 Frontier(n, Marked(Doc[i].name))
  BY <1>1 DEF TableInv
<1> QED
  BY <1>1, <1>2, <1>3, <1>4

CallRecord(name, index, message, given, null) ==
  [name |-> name, index |-> index, message |-> message, given |-> given,
   null |-> null]

LEMMA CallGet ==
  ASSUME NEW name, NEW index, NEW message, NEW given, NEW null,
         NEW p, p = CallRecord(name, index, message, given, null)
  PROVE  /\ p.name = name /\ p.index = index /\ p.message = message
         /\ p.given = given /\ p.null = null
BY DEF CallRecord

\* The record of a call in progress, and what is known of its message.
OfEvent(name, index, message, given) ==
  \E i \in DOMAIN Doc :
    /\ table[index] = EntryOf(Doc[i]) /\ name = Doc[i].name
    /\ \/ FirstIsForeign(Doc[i].template, given)
       \/ /\ IsMessage(message, Doc[i].template, given)
          /\ given = <<>> \/ buffer = message
NoKeys(index) == table[index].severity = Blank /\ table[index].keys = 0

LEMMA CallIs ==
  ASSUME CallInv, pc = "log", NEW name, name = call.name, NEW index, index = call.index,
         NEW message, message = call.message, NEW given, given = call.given,
         NEW null, null = call.null
  PROVE  /\ call = CallRecord(name, index, message, given, null)
         /\ name \in Names /\ index \in 0..MaxEvents /\ null \in BOOLEAN
         /\ given \in Seq(ToSet(given)) /\ Len(given) \in Nat
         /\ NoKeys(index) \/ OfEvent(name, index, message, given)
<1>1. call \in [name : Names, index : 0..MaxEvents, message : {message},
                given : Seq(ToSet(given)), null : BOOLEAN]
  BY DEF CallInv
<1>2. /\ call = CallRecord(name, index, message, given, null)
      /\ name \in Names /\ index \in 0..MaxEvents /\ null \in BOOLEAN
      /\ given \in Seq(ToSet(given))
  BY <1>1 DEF CallRecord
<1>3. Len(given) \in Nat
  BY <1>2, LenProperties
<1>4. NoKeys(index) \/ OfEvent(name, index, message, given)
  BY DEF CallInv, NoKeys, OfEvent
<1> QED
  BY <1>2, <1>3, <1>4

LEMMA CallMade ==
  ASSUME NEW name \in Names, NEW index \in 0..MaxEvents, NEW message, NEW given,
         NEW null \in BOOLEAN, given \in Seq(ToSet(given)), pc' = "log",
         call' = CallRecord(name, index, message, given, null),
         NoKeys(index)' \/ OfEvent(name, index, message, given)'
  PROVE  CallInv'
<1>1. /\ call'.name = name /\ call'.index = index /\ call'.message = message
      /\ call'.given = given /\ call'.null = null
  BY CallGet
<1>2. call' \in [name : Names, index : 0..MaxEvents, message : {message},
                 given : Seq(ToSet(given)), null : BOOLEAN]
  BY DEF CallRecord
<1>3. CASE NoKeys(index)'
  BY <1>1, <1>2, <1>3 DEF CallInv, NoKeys
<1>4. CASE OfEvent(name, index, message, given)'
  <2>1. PICK i \in DOMAIN Doc :
          /\ table'[index] = EntryOf(Doc[i]) /\ name = Doc[i].name
          /\ \/ FirstIsForeign(Doc[i].template, given)
             \/ /\ IsMessage(message, Doc[i].template, given)
                /\ given = <<>> \/ buffer' = message
    BY <1>4 DEF OfEvent
  <2> QED
    BY <1>1, <1>2, <2>1 DEF CallInv
<1> QED
  BY <1>3, <1>4

\* Outside event_log_init the table stays.
LEMMA TableStays ==
  ASSUME ParseInv, TableInv, CategoriesInv, pc \in {"idle", "log"},
         pc' \in {"idle", "log"}, UNCHANGED <<table, categories, parse>>,
         pc = "log" \/ pc' = "log" => table # NoTable
  PROVE  ParseInv' /\ TableInv' /\ CategoriesInv' /\ parse' = NoParse
<1>1. ParseInv' /\ CategoriesInv' /\ parse' = NoParse
  BY DEF ParseInv, CategoriesInv
<1>2. \A i : ~Current(i)'
  BY DEF Current
<1>3. (\A a \in DOMAIN categories, j \in DOMAIN Doc :
        Doc[j].category = categories[a] => table[Slot(a, j)] = EntryOf(Doc[j]))'
  BY DEF TableInv, Slot, InFrontOf
<1>4. Loaded' = Loaded
  BY DEF Loaded
<1>5. table' # NoTable =>
        (\/ Frontier(Cardinality(Loaded), Marked(Delimiter))
         \/ \E n \in 0..MaxEvents - 1, i \in DOMAIN Doc :
              Frontier(n, Marked(Doc[i].name)))'
  <2> SUFFICES ASSUME table # NoTable
               PROVE  (\/ Frontier(Cardinality(Loaded), Marked(Delimiter))
                       \/ \E n \in 0..MaxEvents - 1, i \in DOMAIN Doc :
                            Frontier(n, Marked(Doc[i].name)))'
    OBVIOUS
  <2>1. \/ Frontier(Cardinality(Loaded), Marked(Delimiter))
        \/ \E n \in 0..MaxEvents - 1, i \in DOMAIN Doc :
             Frontier(n, Marked(Doc[i].name))
    BY DEF TableInv
  <2> QED
    BY <1>4, <2>1 DEF Frontier
<1>6. table = NoTable => pc' = "idle" /\ categories = <<>>
  BY DEF TableInv
<1>7. TableInv'
  BY <1>2, <1>3, <1>5, <1>6 DEF TableInv
<1> QED
  BY <1>1, <1>7

\* A call in progress has a table.
LEMMA CallHasTable ==
  ASSUME TableInv, pc = "log"
  PROVE  table # NoTable
<1>1. \E n, slot : Frontier(n, slot)
  BY DEF TableInv
<1>2. 0 \in DOMAIN table
  BY <1>1, DocFacts DEF Frontier
<1>3. 0 \notin DOMAIN NoTable
  BY DEF NoTable
<1> QED
  BY <1>2, <1>3

LEMMA LogStartKeeps ==
  ASSUME TypeOK, TableInv, NEW name \in Names, LogStart(name)
  PROVE  CallInv' /\ table # NoTable /\ call'.index \in 0..MaxEvents
         /\ call'.null \in BOOLEAN
<1> SUFFICES ASSUME NEW s, s = Search(name),
                    NEW m, m = [template |-> table[s].template, filled |-> {}]
             PROVE  CallInv' /\ table # NoTable /\ call'.index \in 0..MaxEvents
                    /\ call'.null \in BOOLEAN
  OBVIOUS
<1>1. /\ pc = "idle" /\ pc' = "log" /\ ~IsUnknown(s) /\ table' = table
      /\ call' = [NoCall EXCEPT !.name = name, !.index = s, !.message = m]
  BY DEF LogStart
<1> SUFFICES ASSUME NEW false, false = FALSE, NEW none, none = <<>>
             PROVE  CallInv' /\ table # NoTable /\ call'.index \in 0..MaxEvents
                    /\ call'.null \in BOOLEAN
  OBVIOUS
<1>2. call' = CallRecord(name, s, m, none, false)
  <2>1. PICK p : p = NoCall
    OBVIOUS
  <2>2. p = CallRecord(Blank, 0, NoMessage, none, false)
    BY <2>1 DEF NoCall, CallRecord
  <2>3. PICK q : q = [p EXCEPT !.name = name]
    OBVIOUS
  <2>4. q = CallRecord(name, 0, NoMessage, none, false)
    BY <2>2, <2>3 DEF CallRecord
  <2>5. PICK r : r = [q EXCEPT !.index = s]
    OBVIOUS
  <2>6. r = CallRecord(name, s, NoMessage, none, false)
    BY <2>4, <2>5 DEF CallRecord
  <2>7. [r EXCEPT !.message = m] = CallRecord(name, s, m, none, false)
    BY ONLY <2>6 DEF CallRecord
  <2> QED
    BY <1>1, <2>1, <2>3, <2>5, <2>7
<1>3. /\ table # NoTable /\ s \in 0..MaxEvents
      /\ \/ NoKeys(s)
         \/ \E i \in DOMAIN Doc : table[s] = EntryOf(Doc[i]) /\ name = Doc[i].name
  BY <1>1, Found DEF NoKeys
<1>4. NoKeys(s)' \/ OfEvent(name, s, m, none)'
  <2>1. CASE NoKeys(s)
    BY <1>1, <2>1 DEF NoKeys
  <2>2. ASSUME NEW i \in DOMAIN Doc, table[s] = EntryOf(Doc[i]), name = Doc[i].name
        PROVE  OfEvent(name, s, m, none)'
    <3>1. table[s].template = Doc[i].template
      BY <2>2 DEF EntryOf
    <3>2. UsesOf[Doc[i].template] \cap ToSet(none) = {}
      BY DEF ToSet
    <3>3. IsMessage(m, Doc[i].template, none)
      BY <3>1, <3>2 DEF IsMessage
    <3> QED
      BY <1>1, <2>2, <3>3 DEF OfEvent
  <2> QED
    BY <1>3, <2>1, <2>2
<1>5. none \in Seq(ToSet(none)) /\ false \in BOOLEAN
  BY EmptySeq
<1>6. CallInv'
  BY <1>1, <1>2, <1>3, <1>4, <1>5, CallMade
<1>7. call'.index = s /\ call'.null = false
  BY <1>2, CallGet
<1> QED
  BY <1>3, <1>5, <1>6, <1>7

LEMMA GivenGrows ==
  ASSUME NEW given, given \in Seq(ToSet(given)), NEW key, NEW more, more = Append(given, key)
  PROVE  /\ more \in Seq(ToSet(more)) /\ more # <<>>
         /\ ToSet(more) = ToSet(given) \cup {key}
         /\ more[1] = IF given = <<>> THEN key ELSE given[1]
<1> DEFINE S == ToSet(given) \cup {key}
<1>1. given \in Seq(S) /\ key \in S /\ Len(given) \in Nat /\ DOMAIN given = 1..Len(given)
      /\ \A j \in DOMAIN given : given[j] \in ToSet(given)
  BY LenProperties DEF ToSet
<1>2. /\ more \in Seq(S) /\ more # <<>> /\ Len(more) = Len(given) + 1
      /\ \A j \in 1..Len(given) : more[j] = given[j]
      /\ more[Len(given) + 1] = key
  BY <1>1, AppendProperties
<1>3. DOMAIN more = 1..Len(given) + 1
  BY <1>2, LenProperties
<1>4. ToSet(more) = S
  <2>1. ASSUME NEW x \in S
        PROVE  x \in ToSet(more)
    <3>1. CASE x = key
      <4>1. Len(given) + 1 \in DOMAIN more
        BY <1>1, <1>3
      <4> QED
        BY <1>2, <3>1, <4>1 DEF ToSet
    <3>2. CASE x \in ToSet(given)
      <4>1. PICK j \in DOMAIN given : given[j] = x
        BY <3>2 DEF ToSet
      <4>2. j \in 1..Len(given) /\ j \in DOMAIN more
        BY <1>1, <1>3
      <4> QED
        BY <1>2, <4>1, <4>2 DEF ToSet
    <3> QED
      BY <3>1, <3>2
  <2>2. ASSUME NEW j \in DOMAIN more
        PROVE  more[j] \in S
    <3>1. j \in 1..Len(given) \/ j = Len(given) + 1
      BY <1>1, <1>3
    <3> QED
      BY <1>1, <1>2, <3>1
  <2> QED
    BY <2>1, <2>2 DEF ToSet
<1>5. more[1] = IF given = <<>> THEN key ELSE given[1]
  <2>1. CASE given = <<>>
    <3>1. Len(given) = 0
      BY <2>1, EmptySeq
    <3> QED
      BY <1>2, <2>1, <3>1
  <2>2. CASE given # <<>>
    <3>1. Len(given) # 0
      BY <1>1, <2>2, EmptySeq
    <3>2. 1 \in 1..Len(given)
      BY <1>1, <3>1
    <3> QED
      BY <1>2, <2>2, <3>2
  <2> QED
    BY <2>1, <2>2
<1> QED
  BY <1>2, <1>4, <1>5

\* The next key goes into the message that has been built so far; only if the
\* first has no place in it, replace_str returns what it has built before.
LEMMA FillKeeps ==
  ASSUME CallInv, NEW key, key \notin ToSet(call.given), Fill(key)
  PROVE  CallInv' /\ call'.index \in 0..MaxEvents /\ call'.null \in BOOLEAN
<1> SUFFICES ASSUME NEW name, name = call.name, NEW index, index = call.index,
                    NEW message, message = call.message,
                    NEW given, given = call.given, NEW null, null = call.null,
                    NEW result, result = Replaced(message, key),
                    NEW more, more = Append(given, key)
             PROVE  CallInv' /\ call'.index \in 0..MaxEvents /\ call'.null \in BOOLEAN
  OBVIOUS
<1>1. /\ pc = "log" /\ pc' = "log" /\ Wanted /\ buffer' = result /\ table' = table
      /\ call' = [call EXCEPT !.message = result, !.given = Append(@, key)]
  BY DEF Fill
<1>2. /\ call = CallRecord(name, index, message, given, null)
      /\ name \in Names /\ index \in 0..MaxEvents /\ null \in BOOLEAN
      /\ given \in Seq(ToSet(given)) /\ Len(given) \in Nat
      /\ NoKeys(index) \/ OfEvent(name, index, message, given)
  BY <1>1, CallIs
<1>3. call' = CallRecord(name, index, result, more, null)
  <2>1. PICK p : p = [call EXCEPT !.message = result]
    OBVIOUS
  <2>2. p = CallRecord(name, index, result, given, null)
    BY ONLY <1>2, <2>1 DEF CallRecord
  <2>3. call' = [p EXCEPT !.given = Append(@, key)]
    BY <1>1, <2>1
  <2>4. p.given = given
    BY <2>2, CallGet
  <2>5. [p EXCEPT !.given = more] = CallRecord(name, index, result, more, null)
    BY ONLY <2>2 DEF CallRecord
  <2> QED
    BY <2>3, <2>4, <2>5
<1>4. /\ more \in Seq(ToSet(more)) /\ more # <<>>
      /\ ToSet(more) = ToSet(given) \cup {key}
      /\ more[1] = IF given = <<>> THEN key ELSE given[1]
  BY <1>2, GivenGrows
<1>5. ~NoKeys(index)
  BY <1>1, <1>2 DEF Wanted, NoKeys
<1>6. PICK i \in DOMAIN Doc :
        /\ table[index] = EntryOf(Doc[i]) /\ name = Doc[i].name
        /\ \/ FirstIsForeign(Doc[i].template, given)
           \/ /\ IsMessage(message, Doc[i].template, given)
              /\ given = <<>> \/ buffer = message
  BY <1>2, <1>5 DEF OfEvent
<1>7. \/ FirstIsForeign(Doc[i].template, more)
      \/ IsMessage(result, Doc[i].template, more)
  <2> SUFFICES ASSUME NEW template, template = Doc[i].template, NEW uses, uses = UsesOf[template]
               PROVE  FirstIsForeign(template, more) \/ IsMessage(result, template, more)
    OBVIOUS
  <2>1. CASE FirstIsForeign(template, given)
    BY <1>4, <2>1 DEF FirstIsForeign
  <2>2. CASE IsMessage(message, template, given) /\ (given = <<>> \/ buffer = message)
    <3>1. /\ message = [template |-> template, filled |-> uses \cap ToSet(given)]
          /\ message.template = template /\ message.filled = uses \cap ToSet(given)
      BY <2>2 DEF IsMessage
    <3>2. CASE key \in uses
      <4>1. key \in UsesOf[message.template] \ message.filled
        BY <3>1, <3>2
      <4>2. result = [message EXCEPT !.filled = message.filled \cup {key}]
        BY <4>1 DEF Replaced
      <4>3. message.filled \cup {key} = uses \cap ToSet(more)
        BY <1>4, <3>1, <3>2
      <4> SUFFICES ASSUME NEW old, old = message.filled, NEW new, new = uses \cap ToSet(more)
                   PROVE  FirstIsForeign(template, more) \/ IsMessage(result, template, more)
        OBVIOUS
      <4>4. result = [message EXCEPT !.filled = new]
        BY <4>2, <4>3
      <4>5. message = [template |-> template, filled |-> old]
        BY <3>1
      <4>6. result = [template |-> template, filled |-> new]
        BY ONLY <4>4, <4>5
      <4> QED
        BY <4>6 DEF IsMessage
    <3>3. CASE key \notin uses /\ given = <<>>
      BY <1>4, <3>3 DEF FirstIsForeign
    <3>4. CASE key \notin uses /\ given # <<>>
      <4>1. result = message
        BY <2>2, <3>1, <3>4 DEF Replaced
      <4>2. uses \cap ToSet(more) = uses \cap ToSet(given)
        BY <1>4, <3>4
      <4> QED
        BY <3>1, <4>1, <4>2 DEF IsMessage
    <3> QED
      BY <3>2, <3>3, <3>4
  <2> QED
    BY <1>6, <2>1, <2>2
<1>8. OfEvent(name, index, result, more)'
  BY <1>1, <1>6, <1>7 DEF OfEvent
<1>9. CallInv'
  BY <1>1, <1>2, <1>3, <1>4, <1>8, CallMade
<1>10. call'.index = index /\ call'.null = null
  BY <1>3, CallGet
<1> QED
  BY <1>2, <1>9, <1>10

LEMMA NullKeeps ==
  ASSUME CallInv, Null
  PROVE  CallInv' /\ call'.index \in 0..MaxEvents /\ call'.null \in BOOLEAN
<1> SUFFICES ASSUME NEW name, name = call.name, NEW index, index = call.index,
                    NEW message, message = call.message,
                    NEW given, given = call.given, NEW null, null = call.null,
                    NEW true, true = TRUE
             PROVE  CallInv' /\ call'.index \in 0..MaxEvents /\ call'.null \in BOOLEAN
  OBVIOUS
<1>1. /\ pc = "log" /\ pc' = "log" /\ UNCHANGED <<buffer, table>>
      /\ call' = [call EXCEPT !.null = true]
  BY DEF Null
<1>2. /\ call = CallRecord(name, index, message, given, null)
      /\ name \in Names /\ index \in 0..MaxEvents /\ null \in BOOLEAN
      /\ given \in Seq(ToSet(given)) /\ Len(given) \in Nat
      /\ NoKeys(index) \/ OfEvent(name, index, message, given)
  BY <1>1, CallIs
<1>3. call' = CallRecord(name, index, message, given, true)
  <2>1. [call EXCEPT !.null = true] = CallRecord(name, index, message, given, true)
    BY ONLY <1>2 DEF CallRecord
  <2> QED
    BY <1>1, <2>1
<1>4. NoKeys(index)' \/ OfEvent(name, index, message, given)'
  BY <1>1, <1>2 DEF NoKeys, OfEvent
<1>5. true \in BOOLEAN
  OBVIOUS
<1>6. CallInv'
  BY <1>1, <1>2, <1>3, <1>4, <1>5, CallMade
<1>7. call'.index = index /\ call'.null = true
  BY <1>3, CallGet
<1> QED
  BY <1>2, <1>5, <1>6, <1>7

\* The entry is that of the event that was asked for.
LEMMA SendKeeps ==
  ASSUME CallInv, LoggedIsAsked, Send
  PROVE  LoggedIsAsked'
<1> SUFFICES ASSUME NEW name, name = call.name, NEW index, index = call.index,
                    NEW message, message = call.message,
                    NEW given, given = call.given, NEW null, null = call.null,
                    NEW e, e = table[index]
             PROVE  LoggedIsAsked'
  OBVIOUS
<1>1. pc = "log" /\ journal' = Entry
  BY DEF Send
<1>2. /\ call = CallRecord(name, index, message, given, null)
      /\ NoKeys(index) \/ OfEvent(name, index, message, given)
  BY <1>1, CallIs
<1>3. CASE e.severity \notin Severities
  <2>1. journal' = journal
    BY <1>1, <1>3 DEF Entry
  <2> QED
    BY <2>1 DEF LoggedIsAsked
<1>4. CASE e.severity \in Severities
  <2>1. ~NoKeys(index)
    BY <1>4, TextsAssumption DEF NoKeys, TextsAssumption
  <2>2. PICK i \in DOMAIN Doc :
          /\ e = EntryOf(Doc[i]) /\ name = Doc[i].name
          /\ \/ FirstIsForeign(Doc[i].template, given)
             \/ IsMessage(message, Doc[i].template, given)
    BY <1>2, <2>1 DEF OfEvent
  <2>3. /\ e.id = IdOf[Doc[i].id] /\ e.severity = Doc[i].severity
        /\ e.category = Doc[i].category
    BY <2>2 DEF EntryOf
  <2>4. journal' = [name |-> name, id |-> e.id, severity |-> e.severity,
                    category |-> e.category, message |-> message, given |-> given]
    BY <1>1, <1>4 DEF Entry
  <2>5. /\ journal'.name = name /\ journal'.id = e.id /\ journal'.severity = e.severity
        /\ journal'.category = e.category /\ journal'.message = message
        /\ journal'.given = given
    BY <2>4
  <2> QED
    BY <2>2, <2>3, <2>5 DEF LoggedIsAsked, FirstIsForeign, IsMessage
<1> QED
  BY <1>3, <1>4

-----------------------------------------------------------------------------
(* The invariant.                                                          *)

LEMMA LogInit == Init => LogInv
<1> SUFFICES ASSUME Init
             PROVE  LogInv
  OBVIOUS
<1>1. /\ table = NoTable /\ categories = <<>> /\ pc = "idle"
      /\ parse = NoParse /\ call = NoCall /\ journal = NoEntry
  BY DEF Init
<1>2. CategoriesInv
  BY <1>1, EmptySeq DEF CategoriesInv
<1>3. TableInv
  BY <1>1 DEF TableInv, Current
<1>4. ParseInv
  BY <1>1 DEF ParseInv
<1>5. CallInv
  BY <1>1 DEF CallInv
<1>6. LoggedIsAsked
  BY <1>1 DEF LoggedIsAsked, NoEntry
<1>7. TypeOK
  <2>1. parse \in
         [category : Asked \cup {Blank},
          pos : [part : 1..3, item : Nat, scalar : 1..14],
          index : 0..MaxEvents - 1,
          buf : {Doc[i].name : i \in DOMAIN Doc} \cup {Blank},
          def : {0, 1}, evt : {0, 1}, val : 0..5, found : {0, 1}, any : {0, 1}]
    <3>1. 0 \in 0..MaxEvents - 1
      BY DocFacts
    <3>2. Place(1, 0, 1) \in [part : 1..3, item : Nat, scalar : 1..14]
      BY DEF Place
    <3> QED
      BY <1>1, <3>1, <3>2 DEF NoParse
  <2>2. PositionOK
    <3>1. parse.pos.part = 1 /\ parse.pos.item = 0 /\ parse.pos.scalar = 1
      BY <1>1 DEF NoParse, Place
    <3> QED
      BY <3>1, DocFacts DEF PositionOK, Items
  <2>3. ToSet(categories) = {} /\ Len(categories) = 0
    BY <1>1, EmptySeq DEF ToSet
  <2>4. call.index \in 0..MaxEvents /\ call.null \in BOOLEAN
    BY <1>1, DocFacts DEF NoCall
  <2> QED
    BY <1>1, <2>1, <2>2, <2>3, <2>4, DocFacts DEF TypeOK
<1> QED
  BY <1>2, <1>3, <1>4, <1>5, <1>6, <1>7 DEF LogInv

\* event_log_init has no call of log_event in progress.
LEMMA NoCallKeeps ==
  ASSUME CallInv, LoggedIsAsked, pc # "log", pc' # "log", UNCHANGED <<call, journal>>
  PROVE  CallInv' /\ LoggedIsAsked' /\ call'.index \in 0..MaxEvents
         /\ call'.null \in BOOLEAN
<1>1. call = NoCall
  BY DEF CallInv
<1>2. CallInv' /\ LoggedIsAsked'
  BY <1>1 DEF CallInv, LoggedIsAsked
<1> QED
  BY <1>1, <1>2, DocFacts DEF NoCall

\* log_event changes neither the table nor the categories.
LEMMA LogKeeps ==
  ASSUME LogInv, UNCHANGED <<table, categories, parse>>,
         pc \in {"idle", "log"}, pc' \in {"idle", "log"},
         pc = "log" \/ pc' = "log" => table # NoTable,
         CallInv', LoggedIsAsked', call'.index \in 0..MaxEvents, call'.null \in BOOLEAN
  PROVE  LogInv'
<1>1. ParseInv' /\ TableInv' /\ CategoriesInv' /\ parse' = NoParse
  BY TableStays DEF LogInv
<1>2. TypeOK'
  BY <1>1, RestType
<1> QED
  BY <1>1, <1>2 DEF LogInv

LEMMA LogNext == LogInv /\ [Next]_vars => LogInv'
<1> SUFFICES ASSUME LogInv, [Next]_vars
             PROVE  LogInv'
  OBVIOUS
<1>0. TypeOK /\ ParseInv /\ TableInv /\ CategoriesInv /\ CallInv /\ LoggedIsAsked
  BY DEF LogInv
<1>1. ASSUME NEW c \in Asked, InitNoScan(c)
      PROVE  LogInv'
  <2>1. /\ pc = "idle" /\ pc' = "idle" /\ UNCHANGED <<parse, call, journal>>
    BY <1>1 DEF InitNoScan
  <2>2. ParseInv' /\ TableInv' /\ CategoriesInv'
    BY <1>0, <1>1, InitNoScanKeeps
  <2>3. /\ CallInv' /\ LoggedIsAsked' /\ call'.index \in 0..MaxEvents
        /\ call'.null \in BOOLEAN
    BY <1>0, <2>1, NoCallKeeps
  <2>4. parse' = NoParse
    BY <1>0, <2>1 DEF ParseInv
  <2>5. TypeOK'
    BY <2>1, <2>2, <2>3, <2>4, RestType
  <2> QED
    BY <2>2, <2>3, <2>5 DEF LogInv
<1>2. ASSUME NEW c \in Asked, InitScan(c)
      PROVE  LogInv'
  <2>1. /\ pc = "idle" /\ pc' = "scan" /\ UNCHANGED <<call, journal>>
    BY <1>2 DEF InitScan
  <2>2. TypeOK' /\ ParseInv' /\ TableInv' /\ CategoriesInv'
    BY <1>0, <1>2, InitScanKeeps
  <2>3. CallInv' /\ LoggedIsAsked'
    BY <1>0, <2>1, NoCallKeeps
  <2> QED
    BY <2>2, <2>3 DEF LogInv
<1>3. CASE Scalar
  <2>1. /\ pc = "scan" /\ pc' = "scan" /\ UNCHANGED <<categories, call, journal>>
    BY <1>3 DEF Scalar
  <2>2. TypeOK' /\ ParseInv' /\ TableInv'
    BY <1>0, <1>3, ScalarKeeps
  <2>3. CallInv' /\ LoggedIsAsked'
    BY <1>0, <2>1, NoCallKeeps
  <2>4. CategoriesInv'
    BY <1>0, <2>1 DEF CategoriesInv
  <2> QED
    BY <2>2, <2>3, <2>4 DEF LogInv
<1>4. CASE ScalarFails
  <2>1. /\ pc = "scan" /\ pc' = "idle" /\ UNCHANGED <<categories, call, journal>>
        /\ parse' = NoParse
    BY <1>4 DEF ScalarFails
  <2>2. ParseInv' /\ TableInv'
    BY <1>0, <1>4, ScalarFailsKeeps
  <2>3. /\ CallInv' /\ LoggedIsAsked' /\ call'.index \in 0..MaxEvents
        /\ call'.null \in BOOLEAN
    BY <1>0, <2>1, NoCallKeeps
  <2>4. CategoriesInv'
    BY <1>0, <2>1 DEF CategoriesInv
  <2>5. TypeOK'
    BY <2>1, <2>2, <2>3, <2>4, RestType
  <2> QED
    BY <2>2, <2>3, <2>4, <2>5 DEF LogInv
<1>5. CASE ScanEnd
  <2>1. /\ pc = "scan" /\ pc' = "idle" /\ UNCHANGED <<call, journal>>
        /\ parse' = NoParse
    BY <1>5 DEF ScanEnd
  <2>2. ParseInv' /\ TableInv' /\ CategoriesInv'
    BY <1>0, <1>5, ScanEndKeeps
  <2>3. /\ CallInv' /\ LoggedIsAsked' /\ call'.index \in 0..MaxEvents
        /\ call'.null \in BOOLEAN
    BY <1>0, <2>1, NoCallKeeps
  <2>4. TypeOK'
    BY <2>1, <2>2, <2>3, RestType
  <2> QED
    BY <2>2, <2>3, <2>4 DEF LogInv
<1>6. ASSUME NEW name \in Names, LogUnknown(name)
      PROVE  LogInv'
  <2>1. /\ pc = "idle" /\ UNCHANGED <<table, categories, pc, parse, call>>
        /\ journal' = [name |-> name]
    BY <1>6 DEF LogUnknown
  <2>2. LoggedIsAsked'
    BY <2>1 DEF LoggedIsAsked
  <2>3. CallInv' /\ call'.index \in 0..MaxEvents /\ call'.null \in BOOLEAN
    <3>1. call = NoCall
      BY <1>0, <2>1 DEF CallInv
    <3> QED
      BY <2>1, <3>1, DocFacts DEF CallInv, NoCall
  <2> QED
    BY <2>1, <2>2, <2>3, LogKeeps
<1>7. ASSUME NEW name \in Names, LogStart(name)
      PROVE  LogInv'
  <2>1. /\ pc = "idle" /\ pc' = "log" /\ UNCHANGED <<table, categories, parse, journal>>
    BY <1>7 DEF LogStart
  <2>2. CallInv' /\ table # NoTable /\ call'.index \in 0..MaxEvents
        /\ call'.null \in BOOLEAN
    BY <1>0, <1>7, LogStartKeeps
  <2>3. LoggedIsAsked'
    BY <1>0, <2>1 DEF LoggedIsAsked
  <2> QED
    BY <2>1, <2>2, <2>3, LogKeeps
<1>8. ASSUME NEW key, key \notin ToSet(call.given), Fill(key)
      PROVE  LogInv'
  <2>1. /\ pc = "log" /\ UNCHANGED <<table, categories, pc, parse, journal>>
    BY <1>8 DEF Fill
  <2>2. CallInv' /\ call'.index \in 0..MaxEvents /\ call'.null \in BOOLEAN
    BY <1>0, <1>8, FillKeeps
  <2>3. LoggedIsAsked' /\ table # NoTable
    BY <1>0, <2>1, CallHasTable DEF LoggedIsAsked
  <2> QED
    BY <2>1, <2>2, <2>3, LogKeeps
<1>9. ASSUME NEW key, FillFails(key)
      PROVE  LogInv'
  <2>1. /\ pc = "log" /\ pc' = "idle" /\ UNCHANGED <<table, categories, parse, journal>>
        /\ call' = NoCall
    BY <1>9 DEF FillFails
  <2>2. CallInv' /\ call'.index \in 0..MaxEvents /\ call'.null \in BOOLEAN
    BY <2>1, DocFacts DEF CallInv, NoCall
  <2>3. LoggedIsAsked' /\ table # NoTable
    BY <1>0, <2>1, CallHasTable DEF LoggedIsAsked
  <2> QED
    BY <2>1, <2>2, <2>3, LogKeeps
<1>10. CASE Null
  <2>1. /\ pc = "log" /\ UNCHANGED <<table, categories, pc, parse, journal>>
    BY <1>10 DEF Null
  <2>2. CallInv' /\ call'.index \in 0..MaxEvents /\ call'.null \in BOOLEAN
    BY <1>0, <1>10, NullKeeps
  <2>3. LoggedIsAsked' /\ table # NoTable
    BY <1>0, <2>1, CallHasTable DEF LoggedIsAsked
  <2> QED
    BY <2>1, <2>2, <2>3, LogKeeps
<1>11. CASE Send
  <2>1. /\ pc = "log" /\ pc' = "idle" /\ UNCHANGED <<table, categories, parse>>
        /\ call' = NoCall
    BY <1>11 DEF Send
  <2>2. CallInv' /\ call'.index \in 0..MaxEvents /\ call'.null \in BOOLEAN
    BY <2>1, DocFacts DEF CallInv, NoCall
  <2>3. LoggedIsAsked' /\ table # NoTable
    BY <1>0, <1>11, <2>1, CallHasTable, SendKeeps
  <2> QED
    BY <2>1, <2>2, <2>3, LogKeeps
<1>12. CASE UNCHANGED vars
  <2>1. UNCHANGED <<table, categories, pc, parse, call, buffer, journal>>
    BY <1>12 DEF vars
  <2>2. TypeOK'
    BY <1>0, <2>1 DEF TypeOK, PositionOK
  <2>3. ParseInv'
    BY <1>0, <2>1 DEF ParseInv, Held, Loaded, InEvent, AtEnd, AfterCategory, Hit,
                      Current, Seen, ValueOK
  <2>4. TableInv'
    BY <1>0, <2>1 DEF TableInv, Loaded, Current, Seen, Slot, InFrontOf, NextSlot, Frontier
  <2>5. CategoriesInv' /\ CallInv' /\ LoggedIsAsked'
    BY <1>0, <2>1 DEF CategoriesInv, CallInv, LoggedIsAsked
  <2> QED
    BY <2>2, <2>3, <2>4, <2>5 DEF LogInv
<1> QED
  BY <1>1, <1>2, <1>3, <1>4, <1>5, <1>6, <1>7, <1>8, <1>9, <1>10, <1>11, <1>12
     DEF Next, Local

\* The daemon in Python, the journal and `show events' do not touch the library.
LEMMA EventsStep == [EventsNext]_<<vars, events, show>> => [Next]_vars
BY DEF EventsNext, Next, LogC

\* What the library keeps and the scanner knows, in whatever order categories
\* are asked for and events are logged, and wherever memory runs out.
THEOREM LogInvariance == EventsSpec => []LogInv
<1>1. EventsInit => LogInv
  BY LogInit DEF EventsInit
<1>2. LogInv /\ [EventsNext]_<<vars, events, show>> => LogInv'
  BY EventsStep, LogNext
<1> QED
  BY <1>1, <1>2, PTL DEF EventsSpec

\* TypeOK.
THEOREM LogTypeCorrect == EventsSpec => []TypeOK
<1>1. LogInv => TypeOK
  BY DEF LogInv
<1> QED
  BY <1>1, LogInvariance, PTL

\* TableIsSound: event_log_init appends the events of a category behind those
\* that are there, complete, each in the slot that is its place.
THEOREM TableCorrect == EventsSpec => []TableIsSound
<1>1. LogInv => TableIsSound
  <2> SUFFICES ASSUME LogInv, pc = "idle", table # NoTable
               PROVE  /\ \A a \in DOMAIN categories, i \in DOMAIN Doc :
                           Doc[i].category = categories[a] =>
                             table[Slot(a, i)] = EntryOf(Doc[i])
                      /\ \/ LastIndex(table) = Cardinality(Loaded)
                         \/ \E i \in 0..MaxEvents - 1 :
                              table[i].name \notin {Blank, Delimiter}
                              /\ table[i].severity = Blank
    BY DEF TableIsSound
  <2>1. \A a \in DOMAIN categories, i \in DOMAIN Doc :
          Doc[i].category = categories[a] => table[Slot(a, i)] = EntryOf(Doc[i])
    BY DEF LogInv, TableInv
  <2>2. \/ LastIndex(table) = Cardinality(Loaded)
        \/ \E n \in 0..MaxEvents - 1, i \in DOMAIN Doc :
             Frontier(n, Marked(Doc[i].name))
    BY NextFree DEF LogInv
  <2>3. ASSUME NEW n \in 0..MaxEvents - 1, NEW i \in DOMAIN Doc,
               Frontier(n, Marked(Doc[i].name))
        PROVE  table[n].name \notin {Blank, Delimiter} /\ table[n].severity = Blank
    BY <2>3, DocTexts DEF Frontier, Marked, Unwritten
  <2> QED
    BY <2>1, <2>2, <2>3
<1> QED
  BY <1>1, LogInvariance, PTL

\* LoggedIsAsked: what log_event sends is the event that was asked for.
THEOREM LoggedCorrect == EventsSpec => []LoggedIsAsked
<1>1. LogInv => LoggedIsAsked
  BY DEF LogInv
<1> QED
  BY <1>1, LogInvariance, PTL

-----------------------------------------------------------------------------
(* The journal and `show events'.                                          *)

\* The journal takes an entry of an event; what it has stays.
LEMMA RecordedKeeps ==
  ASSUME EntriesInv, NEW entry, Recorded(entry), content' \subseteq DOMAIN Doc,
         \E j \in DOMAIN Doc : IsOf(entry, Doc[j])
  PROVE  /\ EntriesInv' /\ Len(entries') \in Nat /\ Len(entries) <= Len(entries')
         /\ \A i \in DOMAIN entries : i \in DOMAIN entries' /\ entries'[i] = entries[i]
<1> SUFFICES ASSUME NEW n, n = Len(entries)
             PROVE  /\ EntriesInv' /\ Len(entries') \in Nat /\ n <= Len(entries')
                    /\ \A i \in DOMAIN entries : /\ i \in DOMAIN entries'
                                                 /\ entries'[i] = entries[i]
  OBVIOUS
<1>1. /\ entries \in Seq(ToSet(entries)) /\ n \in Nat /\ DOMAIN entries = 1..n
      /\ n <= MaxEntries /\ MaxEntries \in Nat
  BY LenProperties, EventsAssumption DEF EntriesInv, EventsAssumption
<1>2. CASE entries' = entries
  BY <1>1, <1>2 DEF EntriesInv, IsOf
<1>3. CASE n < MaxEntries /\ entries' = Append(entries, entry)
  <2>1. /\ entries' \in Seq(ToSet(entries'))
        /\ Len(entries') = n + 1 /\ DOMAIN entries' = 1..n + 1
        /\ \A i \in 1..n : entries'[i] = entries[i]
        /\ entries'[n + 1] = entry
    <3>1. entries' \in Seq(ToSet(entries'))
      BY <1>1, <1>3, GivenGrows
    <3>2. PICK S : S = ToSet(entries) \cup {entry}
      OBVIOUS
    <3>3. entries \in Seq(S) /\ entry \in S
      BY <1>1, <3>2 DEF ToSet
    <3>4. /\ Append(entries, entry) \in Seq(S)
          /\ Len(Append(entries, entry)) = n + 1
          /\ \A i \in 1..n : Append(entries, entry)[i] = entries[i]
          /\ Append(entries, entry)[n + 1] = entry
      BY <3>3, AppendProperties
    <3>5. DOMAIN entries' = 1..n + 1
      BY <1>3, <3>4, LenProperties
    <3> QED
      BY <1>3, <3>1, <3>4, <3>5
  <2>2. ASSUME NEW i \in DOMAIN entries'
        PROVE  \E j \in DOMAIN Doc : IsOf(entries'[i], Doc[j])
    <3>1. i \in 1..n \/ i = n + 1
      BY <1>1, <2>1
    <3> QED
      BY <1>1, <2>1, <3>1 DEF EntriesInv
  <2>3. EntriesInv'
    BY <1>1, <1>3, <2>1, <2>2 DEF EntriesInv
  <2> QED
    BY <1>1, <2>1, <2>3
<1> QED
  BY <1>2, <1>3 DEF Recorded

\* Entries that come while `show events' reads the journal disturb nothing.
LEMMA ShowStays ==
  ASSUME EntriesInv, ShowInv, UNCHANGED show, Len(entries') \in Nat,
         Len(entries) <= Len(entries'),
         \A i \in DOMAIN entries : i \in DOMAIN entries' /\ entries'[i] = entries[i]
  PROVE  ShowInv'
<1>1. UNCHANGED <<reader, request, opened, at, rows>>
  BY DEF show
<1>2. Len(entries) \in Nat /\ DOMAIN entries = 1..Len(entries)
  BY LenProperties DEF EntriesInv
<1>3. \A i \in DOMAIN entries : Matches(entries[i])' <=> Matches(entries[i])
  BY <1>1 DEF Matches
<1> SUFFICES ASSUME reader \in {"show", "success"}
             PROVE  /\ opened \in 0..Len(entries')
                    /\ \A n \in DOMAIN rows :
                         /\ rows[n] \in DOMAIN entries' /\ Matches(entries[rows[n]])'
                         /\ Nearest(rows[n], at)'
                    /\ \A i \in 1..opened :
                         Matches(entries[i])' =>
                           i \in ToSet(rows) \/ (reader = "show" /\ i \in Ahead')
  BY <1>1 DEF ShowInv
<1>4. opened \in 0..Len(entries')
  BY <1>2 DEF ShowInv
<1>5. ASSUME NEW n \in DOMAIN rows
      PROVE  /\ rows[n] \in DOMAIN entries' /\ Matches(entries[rows[n]])'
             /\ Nearest(rows[n], at)'
  <2>1. rows[n] \in DOMAIN entries /\ Matches(entries[rows[n]]) /\ Nearest(rows[n], at)
    BY DEF ShowInv
  <2>2. Nearest(rows[n], at)'
    BY <1>1, <2>1 DEF Nearest
  <2>3. Matches(entries[rows[n]])'
    BY <1>1, <2>1 DEF Matches
  <2> QED
    BY <2>1, <2>2, <2>3
<1>6. ASSUME NEW i \in 1..opened, Matches(entries[i])'
      PROVE  i \in ToSet(rows) \/ (reader = "show" /\ i \in Ahead')
  <2>1. i \in DOMAIN entries
    BY <1>2 DEF ShowInv
  <2>2. Matches(entries[i])
    BY <1>3, <1>6, <2>1
  <2>3. i \in ToSet(rows) \/ (reader = "show" /\ i \in Ahead)
    BY <2>2 DEF ShowInv
  <2>4. i \in Ahead => i \in Ahead'
    BY <1>1, <1>6, <2>1 DEF Ahead
  <2> QED
    BY <2>3, <2>4
<1> QED
  BY <1>4, <1>5, <1>6

\* log_event of the daemon in C.
LEMMA LogCKeeps ==
  ASSUME LogInv, EntriesInv, LogC, UNCHANGED content
  PROVE  /\ EntriesInv' /\ Len(entries') \in Nat /\ Len(entries) <= Len(entries')
         /\ \A i \in DOMAIN entries : i \in DOMAIN entries' /\ entries'[i] = entries[i]
<1> SUFFICES ASSUME NEW name, name = call.name, NEW index, index = call.index,
                    NEW message, message = call.message,
                    NEW given, given = call.given, NEW null, null = call.null,
                    NEW e, e = table[index]
             PROVE  /\ EntriesInv' /\ Len(entries') \in Nat
                    /\ Len(entries) <= Len(entries')
                    /\ \A i \in DOMAIN entries : /\ i \in DOMAIN entries'
                                                 /\ entries'[i] = entries[i]
  OBVIOUS
<1>1. pc = "log"
  BY DEF LogC, Send
<1>2. NoKeys(index) \/ OfEvent(name, index, message, given)
  BY <1>1, CallIs DEF LogInv
<1>3. CASE e.severity \notin Severities
  <2>1. UNCHANGED entries
    BY <1>3 DEF LogC
  <2>2. Len(entries) \in Nat
    BY LenProperties DEF EntriesInv
  <2> QED
    BY <2>1, <2>2 DEF EntriesInv, IsOf
<1>4. CASE e.severity \in Severities
  <2>1. ~NoKeys(index)
    BY <1>4, TextsAssumption DEF NoKeys, TextsAssumption
  <2>2. PICK j \in DOMAIN Doc : e = EntryOf(Doc[j]) /\ name = Doc[j].name
    BY <1>2, <2>1 DEF OfEvent
  <2>3. /\ e.id = IdOf[Doc[j].id] /\ e.severity = Doc[j].severity
        /\ e.category = Doc[j].category
    BY <2>2 DEF EntryOf
  <2>4. PICK entry : entry = [id |-> e.id, priority |-> {LevelOf[e.severity]},
                              category |-> e.category, name |-> name, by |-> "C"]
    OBVIOUS
  <2>5. Recorded(entry)
    BY <1>4, <2>4 DEF LogC
  <2>6. IsOf(entry, Doc[j])
    <3>1. /\ entry.id = e.id /\ entry.priority = {LevelOf[e.severity]}
          /\ entry.category = e.category /\ entry.name = name /\ entry.by = "C"
      BY <2>4
    <3> QED
      BY <1>4, <2>2, <2>3, <3>1 DEF IsOf
  <2>7. content' \subseteq DOMAIN Doc
    BY DEF EntriesInv
  <2> QED
    BY <2>5, <2>6, <2>7, RecordedKeeps
<1> QED
  BY <1>3, <1>4

\* That of the daemon in Python.
LEMMA PyLogKeeps ==
  ASSUME EntriesInv, NEW name, PyLog(name)
  PROVE  /\ EntriesInv' /\ Len(entries') \in Nat /\ Len(entries) <= Len(entries')
         /\ \A i \in DOMAIN entries : i \in DOMAIN entries' /\ entries'[i] = entries[i]
<1>1. PICK j \in content :
        /\ Doc[j].name = name
        /\ Recorded([id |-> IdOf[Doc[j].id], priority |-> {},
                     category |-> Doc[j].category, name |-> name, by |-> "Python"])
  BY DEF PyLog
<1>2. j \in DOMAIN Doc /\ content' \subseteq DOMAIN Doc
  BY DEF EntriesInv, PyLog
<1>3. PICK entry : entry = [id |-> IdOf[Doc[j].id], priority |-> {},
                     category |-> Doc[j].category, name |-> name, by |-> "Python"]
  OBVIOUS
<1>4. IsOf(entry, Doc[j])
  BY <1>1, <1>3 DEF IsOf
<1> QED
  BY <1>1, <1>2, <1>3, <1>4, RecordedKeeps

\* It begins with nothing behind and everything ahead.
LEMMA OpenKeeps ==
  ASSUME EntriesInv, NEW r \in Requests, Open(r), UNCHANGED entries
  PROVE  ShowInv'
<1>1. /\ reader' = "show" /\ request' = r /\ opened' = Len(entries)
      /\ at' = (IF r.reverse THEN MaxEntries + 1 ELSE 0) /\ rows' = <<>>
  BY DEF Open
<1>2. /\ Len(entries) \in Nat /\ DOMAIN entries = 1..Len(entries)
      /\ Len(entries) <= MaxEntries /\ MaxEntries \in Nat
  BY LenProperties, EventsAssumption DEF EntriesInv, EventsAssumption
<1>3. at' \in 0..MaxEntries + 1
  BY <1>1, <1>2
<1>4. DOMAIN rows' = {} /\ rows' \in Seq(Nat)
  BY <1>1, EmptySeq
<1>5. ASSUME NEW i \in 1..opened', Matches(entries[i])'
      PROVE  i \in Ahead'
  <2>1. i \in DOMAIN entries'
    BY <1>1, <1>2
  <2>2. IF r.reverse THEN i < at' ELSE i > at'
    BY <1>1, <1>2
  <2> QED
    BY <1>1, <1>5, <2>1, <2>2 DEF Ahead
<1>6. opened' \in 0..Len(entries')
  BY <1>1, <1>2
<1> QED
  BY <1>1, <1>3, <1>4, <1>5, <1>6 DEF ShowInv

\* The next row is the nearest that matches.
LEMMA RowKeeps ==
  ASSUME EntriesInv, ShowInv, Row, UNCHANGED entries
  PROVE  ShowInv'
<1>1. PICK i \in Ahead : /\ \A j \in Ahead : Nearest(i, j)
                        /\ at' = i /\ rows' = Append(rows, i)
  BY DEF Row
<1>2. /\ reader = "show" /\ UNCHANGED <<reader, request, opened>>
  BY DEF Row
<1>3. /\ request \in Requests /\ opened \in 0..Len(entries) /\ at \in 0..MaxEntries + 1
      /\ rows \in Seq(Nat)
  BY <1>2 DEF ShowInv
<1>4. /\ Len(entries) \in Nat /\ DOMAIN entries = 1..Len(entries)
      /\ Len(entries) <= MaxEntries /\ MaxEntries \in Nat
  BY LenProperties, EventsAssumption DEF EntriesInv, EventsAssumption
<1>5. request.reverse \in BOOLEAN
  BY <1>3, EventsAssumption DEF EventsAssumption
<1>6. /\ i \in DOMAIN entries /\ Matches(entries[i])
      /\ IF request.reverse THEN i < at ELSE i > at
  BY DEF Ahead
<1> SUFFICES ASSUME NEW n, n = Len(rows)
             PROVE  ShowInv'
  OBVIOUS
<1>7. /\ n \in Nat /\ DOMAIN rows = 1..n /\ i \in Nat
  BY <1>3, <1>4, <1>6, LenProperties
<1>8. /\ rows' \in Seq(Nat) /\ DOMAIN rows' = 1..n + 1
      /\ \A m \in 1..n : rows'[m] = rows[m] /\ rows[m] \in Nat
      /\ rows'[n + 1] = i
  <2>1. /\ rows' \in Seq(Nat) /\ Len(rows') = n + 1
        /\ \A m \in 1..n : rows'[m] = rows[m]
        /\ rows'[n + 1] = i
    BY <1>1, <1>3, <1>7, AppendProperties
  <2>2. \A m \in 1..n : rows[m] \in Nat
    BY <1>3, <1>7, ElementOfSeq
  <2> QED
    BY <2>1, <2>2, LenProperties
<1>9. \A m \in 1..n + 1 : m \in 1..n \/ m = n + 1
  BY <1>7
<1>10. ASSUME NEW m \in 1..n
       PROVE  /\ rows[m] \in DOMAIN entries /\ Matches(entries[rows[m]])
              /\ IF request.reverse THEN i < rows[m] ELSE rows[m] < i
  <2>1. /\ rows[m] \in DOMAIN entries /\ Matches(entries[rows[m]])
        /\ Nearest(rows[m], at)
    BY <1>2, <1>7 DEF ShowInv
  <2>2. rows[m] \in Nat /\ at \in Nat
    BY <1>3, <1>8
  <2> QED
    BY <1>6, <1>7, <2>1, <2>2 DEF Nearest
<1>11. ASSUME NEW m \in 1..n + 1
       PROVE  /\ rows'[m] \in DOMAIN entries' /\ Matches(entries[rows[m]])'
              /\ Nearest(rows[m], at)'
  <2>1. CASE m \in 1..n
    <3>1. rows'[m] \in DOMAIN entries' /\ Nearest(rows[m], at)'
      BY <1>1, <1>2, <1>7, <1>8, <1>10, <2>1 DEF Nearest
    <3>2. Matches(entries[rows[m]])'
      BY <1>2, <1>8, <1>10, <2>1 DEF Matches
    <3> QED
      BY <3>1, <3>2
  <2>2. CASE m = n + 1
    <3>1. rows'[m] = i
      BY <1>8, <2>2
    <3>2. Nearest(rows[m], at)'
      BY <1>1, <1>7, <3>1 DEF Nearest
    <3>3. Matches(entries[rows[m]])'
      BY <1>2, <1>6, <3>1 DEF Matches
    <3> QED
      BY <1>6, <3>1, <3>2, <3>3
  <2> QED
    BY <1>9, <2>1, <2>2
<1>12. ASSUME NEW l \in 1..n + 1, NEW m \in 1..n + 1, l < m
       PROVE  IF request'.reverse THEN rows'[m] < rows'[l] ELSE rows'[l] < rows'[m]
  <2>1. l \in 1..n
    BY <1>7, <1>12
  <2>2. CASE m \in 1..n
    <3>1. IF request.reverse THEN rows[m] < rows[l] ELSE rows[l] < rows[m]
      BY <1>2, <1>7, <1>12, <2>1, <2>2 DEF ShowInv
    <3> QED
      BY <1>2, <1>8, <2>1, <2>2, <3>1
  <2>3. CASE m = n + 1
    BY <1>2, <1>8, <1>10, <2>1, <2>3
  <2> QED
    BY <1>9, <2>2, <2>3
<1>13. ASSUME NEW j \in 1..opened', Matches(entries[j])'
       PROVE  j \in ToSet(rows') \/ j \in Ahead'
  <2>1. Matches(entries[j]) /\ j \in DOMAIN entries /\ j \in Nat
    BY <1>2, <1>3, <1>4, <1>13 DEF Matches
  <2>2. j \in ToSet(rows) \/ j \in Ahead
    BY <1>2, <2>1 DEF ShowInv
  <2>3. CASE j \in ToSet(rows)
    <3>1. PICK m \in 1..n : rows[m] = j
      BY <1>7, <2>3 DEF ToSet
    <3>2. m \in DOMAIN rows' /\ rows'[m] = j
      BY <1>7, <1>8, <3>1
    <3> QED
      BY <3>2 DEF ToSet
  <2>4. CASE j = i
    <3>1. n + 1 \in DOMAIN rows' /\ rows'[n + 1] = j
      BY <1>7, <1>8, <2>4
    <3> QED
      BY <3>1 DEF ToSet
  <2>5. CASE j \in Ahead /\ j # i
    <3>1. Nearest(i, j)
      BY <1>1, <2>5
    <3>2. IF request.reverse THEN j < i ELSE j > i
      BY <1>7, <2>1, <2>5, <3>1 DEF Nearest
    <3> QED
      BY <1>1, <1>2, <1>13, <2>1, <3>2 DEF Ahead
  <2> QED
    BY <2>2, <2>3, <2>4, <2>5
<1>14. at' \in 0..MaxEntries + 1
  BY <1>1, <1>4, <1>6
<1> QED
  BY <1>2, <1>3, <1>8, <1>11, <1>12, <1>13, <1>14 DEF ShowInv

\* At the end nothing of what there was is ahead.
LEMMA EndKeeps ==
  ASSUME ShowInv, EndOfJournal, UNCHANGED entries
  PROVE  ShowInv'
<1>1. /\ reader = "show" /\ reader' = "success" /\ \A i \in Ahead : i > opened
      /\ UNCHANGED <<request, opened, at, rows>>
  BY DEF EndOfJournal
<1>2. \A i : Matches(entries[i])' <=> Matches(entries[i])
  BY <1>1 DEF Matches
<1>3. ASSUME NEW i \in 1..opened, Matches(entries[i])
      PROVE  i \in ToSet(rows)
  <2>1. i \in ToSet(rows) \/ i \in Ahead
    BY <1>1, <1>3 DEF ShowInv
  <2>2. opened \in Nat
    BY <1>1 DEF ShowInv
  <2> QED
    BY <1>1, <2>1, <2>2
<1> QED
  BY <1>1, <1>2, <1>3 DEF ShowInv, Nearest

\* Only the daemons write to the journal, and `show events' reads.
LEMMA EventsNextKeeps ==
  EventsInv /\ [EventsNext]_<<vars, events, show>> => EventsInv'
<1> SUFFICES ASSUME EventsInv, [EventsNext]_<<vars, events, show>>
             PROVE  EventsInv'
  OBVIOUS
<1>0. LogInv /\ EntriesInv /\ ShowInv
  BY DEF EventsInv
<1>1. LogInv'
  BY <1>0, EventsStep, LogNext
<1>2. Len(entries) \in Nat
  BY <1>0, LenProperties DEF EntriesInv
<1>3. ASSUME UNCHANGED <<entries, content>>
      PROVE  EntriesInv'
  BY <1>0, <1>3 DEF EntriesInv, IsOf
<1>4. ASSUME UNCHANGED <<entries, show>>
      PROVE  ShowInv'
  BY <1>0, <1>2, <1>4, ShowStays
<1>5. CASE UNCHANGED <<events, show>>
  <2>1. UNCHANGED <<entries, content, show>>
    BY <1>5 DEF events
  <2> QED
    BY <1>1, <1>3, <1>4, <2>1 DEF EventsInv
<1>6. CASE LogC /\ UNCHANGED <<content, category, show>>
  <2>1. /\ EntriesInv' /\ Len(entries') \in Nat /\ Len(entries) <= Len(entries')
        /\ \A i \in DOMAIN entries : i \in DOMAIN entries' /\ entries'[i] = entries[i]
    BY <1>0, <1>6, LogCKeeps
  <2>2. ShowInv'
    BY <1>0, <1>6, <2>1, ShowStays
  <2> QED
    BY <1>1, <2>1, <2>2 DEF EventsInv
<1>7. ASSUME NEW c \in PyAsked, PyInitCategory(c), UNCHANGED show
      PROVE  EventsInv'
  <2>1. UNCHANGED entries /\ content' \subseteq DOMAIN Doc
    BY <1>0, <1>7 DEF PyInitCategory, EntriesInv
  <2>2. EntriesInv'
    BY <1>0, <2>1 DEF EntriesInv, IsOf
  <2> QED
    BY <1>1, <1>4, <1>7, <2>1, <2>2 DEF EventsInv
<1>8. ASSUME NEW name \in Names, PyLog(name), UNCHANGED show
      PROVE  EventsInv'
  <2>1. /\ EntriesInv' /\ Len(entries') \in Nat /\ Len(entries) <= Len(entries')
        /\ \A i \in DOMAIN entries : i \in DOMAIN entries' /\ entries'[i] = entries[i]
    BY <1>0, <1>8, PyLogKeeps
  <2>2. ShowInv'
    BY <1>0, <1>8, <2>1, ShowStays
  <2> QED
    BY <1>1, <2>1, <2>2 DEF EventsInv
<1>9. ASSUME NEW r \in Requests, Open(r), UNCHANGED events
      PROVE  EventsInv'
  <2>1. UNCHANGED <<entries, content>>
    BY <1>9 DEF events
  <2>2. ShowInv'
    BY <1>0, <1>9, <2>1, OpenKeeps
  <2> QED
    BY <1>1, <1>3, <2>1, <2>2 DEF EventsInv
<1>10. ASSUME Row \/ EndOfJournal \/ ShowFails \/ ShowReturns, UNCHANGED events
       PROVE  EventsInv'
  <2>1. UNCHANGED <<entries, content>>
    BY <1>10 DEF events
  <2>2. Row => ShowInv'
    BY <1>0, <2>1, RowKeeps
  <2>3. EndOfJournal => ShowInv'
    BY <1>0, <2>1, EndKeeps
  <2>4. ShowFails => ShowInv'
    BY DEF ShowFails, ShowInv
  <2>5. ShowReturns => ShowInv'
    BY DEF ShowReturns, ShowInv
  <2>6. ShowInv'
    BY <1>10, <2>2, <2>3, <2>4, <2>5
  <2> QED
    BY <1>1, <1>3, <2>1, <2>6 DEF EventsInv
<1>11. CASE EventsNext
  <2>1. CASE Local /\ reader = "idle" /\ UNCHANGED <<events, show>>
    BY <1>5, <2>1
  <2>2. CASE (\E c \in PyAsked : PyInitCategory(c)) /\ UNCHANGED <<vars, show>>
    BY <1>7, <2>2
  <2>3. CASE (\E name \in Names : PyLog(name)) /\ UNCHANGED <<vars, show>>
    BY <1>8, <2>3
  <2>4. CASE Calm /\ (\E r \in Requests : Open(r)) /\ UNCHANGED <<vars, events>>
    BY <1>9, <2>4
  <2>5. CASE /\ Row \/ EndOfJournal \/ ShowFails \/ ShowReturns
             /\ UNCHANGED <<vars, events>>
    BY <1>10, <2>5
  <2> QED
    BY <1>6, <1>11, <2>1, <2>2, <2>3, <2>4, <2>5 DEF EventsNext
<1> QED
  BY <1>5, <1>11

\* ShownIsAsked: what `show events' displays is what daemons have logged and the
\* user asks for, all of it that was there, once, in order.
THEOREM ShownCorrect == EventsSpec => []ShownIsAsked
<1>1. EventsInit => EventsInv
  <2> SUFFICES ASSUME EventsInit
               PROVE  EventsInv
    OBVIOUS
  <2>1. LogInv
    BY LogInit DEF EventsInit
  <2>2. entries = <<>> /\ content = {} /\ reader = "idle"
    BY DEF EventsInit
  <2>3. EntriesInv
    BY <2>2, EmptySeq, EventsAssumption DEF EntriesInv, EventsAssumption
  <2>4. ShowInv
    BY <2>2 DEF ShowInv
  <2> QED
    BY <2>1, <2>3, <2>4 DEF EventsInv
<1>2. EventsInv /\ [EventsNext]_<<vars, events, show>> => EventsInv'
  BY EventsNextKeeps
<1>3. EventsInv => ShownIsAsked
  <2> SUFFICES ASSUME EventsInv, reader = "success"
               PROVE  /\ \A i \in 1..opened : Meant(entries[i]) => i \in ToSet(rows)
                      /\ \A i \in ToSet(rows) : Meant(entries[i])
                      /\ \A m, n \in DOMAIN rows :
                           m < n => IF request.reverse THEN rows[n] < rows[m]
                                    ELSE rows[m] < rows[n]
    BY DEF ShownIsAsked
  <2>0. EntriesInv /\ ShowInv
    BY DEF EventsInv
  <2>1. /\ request \in Requests /\ opened \in 0..Len(entries)
        /\ \A n \in DOMAIN rows :
             rows[n] \in DOMAIN entries /\ Matches(entries[rows[n]])
        /\ \A i \in 1..opened : Matches(entries[i]) => i \in ToSet(rows)
        /\ \A m, n \in DOMAIN rows :
             m < n => IF request.reverse THEN rows[n] < rows[m] ELSE rows[m] < rows[n]
    BY <2>0 DEF ShowInv
  <2>2. /\ request.level \in -1..7
        /\ request.category # Blank /\ Upper[request.category] \in CategoriesOf(Doc) =>
             Upper[request.category] = request.category
    BY <2>1, EventsAssumption DEF EventsAssumption
  <2>3. \A i \in 1..opened : i \in DOMAIN entries
    <3>1. Len(entries) \in Nat /\ DOMAIN entries = 1..Len(entries)
      BY <2>0, LenProperties DEF EntriesInv
    <3> QED
      BY <2>1, <3>1
  <2>4. ASSUME NEW i \in DOMAIN entries
        PROVE  Matches(entries[i]) <=> Meant(entries[i])
    <3> SUFFICES ASSUME NEW entry, entry = entries[i]
                 PROVE  Matches(entry) <=> Meant(entry)
      OBVIOUS
    <3>1. PICK j \in DOMAIN Doc : IsOf(entry, Doc[j])
      BY <2>0 DEF EntriesInv
    <3>2. /\ entry.name = Doc[j].name /\ entry.id = IdOf[Doc[j].id]
          /\ entry.category = Doc[j].category
      BY <3>1 DEF IsOf
    <3>3. \A k \in DOMAIN Doc : Doc[k].name = entry.name => k = j
      BY <3>2, EventsAssumption DEF EventsAssumption
    <3>4. (request.level = -1 \/ entry.priority \cap 0..request.level # {})
            <=> \/ request.level = -1
                \/ entry.by = "C" /\ LevelOf[Doc[j].severity] <= request.level
      <4>1. CASE entry.by = "Python" /\ entry.priority = {}
        BY <4>1
      <4>2. CASE /\ entry.by = "C" /\ entry.priority = {LevelOf[Doc[j].severity]}
                 /\ Doc[j].severity \in Severities
        <5> SUFFICES ASSUME NEW l, l = LevelOf[Doc[j].severity]
                     PROVE  (request.level = -1 \/ entry.priority \cap 0..request.level # {})
                              <=> \/ request.level = -1
                                  \/ entry.by = "C" /\ l <= request.level
          OBVIOUS
        <5>1. l \in Nat
          BY <4>2, EventsAssumption DEF EventsAssumption
        <5>2. l \in 0..request.level <=> l <= request.level
          BY <2>2, <5>1
        <5>3. entry.priority \cap 0..request.level # {} <=> l \in 0..request.level
          BY <4>2
        <5> QED
          BY <4>2, <5>2, <5>3
      <4> QED
        BY <3>1, <4>1, <4>2 DEF IsOf
    <3>5. (request.category = Blank \/ entry.category = Upper[request.category])
            <=> \/ request.category = Blank
                \/ /\ Doc[j].category = request.category
                   /\ Upper[request.category] = request.category
      <4>1. entry.category \in CategoriesOf(Doc)
        BY <3>2 DEF CategoriesOf
      <4> QED
        BY <2>2, <3>2, <4>1
    <3>6. Meant(entry) <=>
            /\ request.ids = {} \/ IdOf[Doc[j].id] \in request.ids
            /\ \/ request.level = -1
               \/ entry.by = "C" /\ LevelOf[Doc[j].severity] <= request.level
            /\ \/ request.category = Blank
               \/ /\ Doc[j].category = request.category
                  /\ Upper[request.category] = request.category
      BY <3>2, <3>3 DEF Meant
    <3>7. Matches(entry) <=>
            /\ request.ids = {} \/ IdOf[Doc[j].id] \in request.ids
            /\ request.level = -1 \/ entry.priority \cap 0..request.level # {}
            /\ request.category = Blank \/ entry.category = Upper[request.category]
      BY <3>2 DEF Matches
    <3> QED
      BY <3>4, <3>5, <3>6, <3>7
  <2>5. ASSUME NEW i \in ToSet(rows)
        PROVE  Meant(entries[i])
    <3>1. PICK n \in DOMAIN rows : rows[n] = i
      BY DEF ToSet
    <3> QED
      BY <2>1, <2>4, <3>1
  <2> QED
    BY <2>1, <2>3, <2>4, <2>5
<1> QED
  BY <1>1, <1>2, <1>3, PTL DEF EventsSpec
=============================================================================
