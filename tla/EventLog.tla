------------------------------ MODULE EventLog ------------------------------
(***************************************************************************)
(* The event log library, src/eventlog/eventlog.c. A daemon names the      *)
(* categories of events it wants to log; for each, event_log_init scans    *)
(* the scalars of ops_events.yaml and appends the events of the category   *)
(* to a table that ends with a delimiter. log_event looks an event up,     *)
(* fills the keys of its message and sends it to the journal.              *)
(*                                                                         *)
(* The value of a key is left out: a message is a template and the set of  *)
(* keys that have been replaced. Texts fit their buffers, as those of the  *)
(* shipped file do.                                                        *)
(***************************************************************************)
EXTENDS Integers, FiniteSets, SequencesExt

CONSTANTS
  Headings,       \* the categories at the head of the file
  Doc,            \* its events, in order
  IdOf,           \* atoi of an event_ID
  KeysOf,         \* the names in a text after "keys"
  UsesOf,         \* the keys in a template
  Severities,     \* the names severity_level knows
  Asked,          \* categories and
  Names,          \* event names that the daemon may use
  MaxEvents,      \* MAX_EVENT_TABLE_SIZE
  MaxCategories,  \* MAX_CATEGORIES_PER_DAEMON
  Blank           \* the content of memory nothing was written to

CategoriesOf(doc) == {doc[i].category : i \in DOMAIN doc}

\* The shipped file has 195 events in 27 categories.
ASSUME FileFits ==
  /\ Len(Doc) < MaxEvents
  /\ Cardinality(CategoriesOf(Doc)) <= MaxCategories

Delimiter == "EV_TBD_TBD"
Keys == {"categories", "event_definitions", "event_name", "event_category",
         "event_ID", "severity", "keys", "description",
         "event_description_template"}
Description == "a text"

\* No text of the file is one of the keys or, but in its place, a category that
\* a daemon asks for, and no event is called like the delimiter.
ASSUME TextsAssumption ==
  /\ Headings \in Seq(ToSet(Headings)) /\ Doc \in Seq(ToSet(Doc))
  /\ {MaxEvents, MaxCategories} \subseteq Nat
  /\ ToSet(Headings) \cap Keys = {}
  /\ Asked \cap (Keys \cup {Description}) = {}
  /\ Blank \notin Severities \cup {Delimiter}
  /\ \A i \in DOMAIN Doc :
       LET e == Doc[i]
       IN  /\ {e.name, e.id, e.severity, e.keys, e.template} \cap (Keys \cup Asked) = {}
           /\ e.category \notin Keys
           /\ e.name \notin {Blank, Delimiter}
           /\ Len(KeysOf[e.keys]) \in Nat

VARIABLES
  table,       \* ev_table, empty before malloc; slot MaxEvents is beyond it
  categories,  \* category_table up to category_index
  pc,          \* "idle", or within event_log_init or log_event
  parse,       \* local variables of parse_yaml_for_category
  call,        \* local variables of log_event
  buffer,      \* the static buffer of replace_str
  journal      \* the last entry that log_event sent

vars == <<table, categories, pc, parse, call, buffer, journal>>

Unwritten == [name |-> Blank, category |-> Blank, id |-> 0, severity |-> Blank,
              keys |-> 0, template |-> Blank]
Place(part, item, scalar) ==
  [part |-> part, item |-> item, scalar |-> scalar]
NoTable == <<>>
NoParse == [category |-> Blank, pos |-> Place(1, 0, 1), index |-> 0, buf |-> Blank,
            def |-> 0, evt |-> 0, val |-> 0, found |-> 0, any |-> 0]
NoMessage == [template |-> Blank, filled |-> {}]
NoCall == [name |-> Blank, index |-> 0, message |-> NoMessage, given |-> <<>>,
           null |-> FALSE]
NoEntry == [name |-> Blank]

Init ==
  /\ table = NoTable /\ categories = <<>> /\ pc = "idle"
  /\ parse = NoParse /\ call = NoCall /\ buffer = NoMessage
  /\ journal = NoEntry

-----------------------------------------------------------------------------
(* The scalars of the file in the order of the scanner: a head and the      *)
(* definitions of events, each with a title (item 0) and its items.        *)

Heading(c) == <<"event_category", c, "description", Description>>
Definition(e) ==
  <<"event_name", e.name, "event_category", e.category, "event_ID", e.id,
    "severity", e.severity, "keys", e.keys, "description", Description,
    "event_description_template", e.template>>

Items(part) == IF part = 1 THEN Headings ELSE Doc
ScalarAt(pos) ==
  IF pos.item = 0
    THEN IF pos.part = 1 THEN "categories" ELSE "event_definitions"
  ELSE IF pos.part = 1 THEN Heading(Headings[pos.item])[pos.scalar]
  ELSE Definition(Doc[pos.item])[pos.scalar]

Following(pos) ==
  IF pos.item > 0 /\ pos.scalar < (IF pos.part = 1 THEN 4 ELSE 14)
    THEN Place(pos.part, pos.item, pos.scalar + 1)
  ELSE IF pos.item < Len(Items(pos.part)) THEN Place(pos.part, pos.item + 1, 1)
  ELSE Place(pos.part + 1, 0, 1)

AtEnd == parse.pos.part = 3

-----------------------------------------------------------------------------
(* event_log_init. A category that is refused, and a malloc that fails,     *)
(* change nothing.                                                         *)

Refused(c) ==
  \/ Len(categories) > MaxCategories
  \/ \E i \in DOMAIN categories : categories[i] = c

\* find_last_index, -1 without a delimiter in the table.
LastIndex(t) ==
  LET ends == {i \in 0..MaxEvents - 1 : t[i].name = Delimiter}
  IN  IF ends = {} THEN -1 ELSE CHOOSE i \in ends : \A j \in ends : i <= j

\* create_event_table: only the first name is written.
Created ==
  IF table # NoTable THEN table
  ELSE [i \in 0..MaxEvents |->
          IF i = 0 THEN [Unwritten EXCEPT !.name = Delimiter] ELSE Unwritten]

\* The file cannot be opened, the table has lost its delimiter, libyaml does
\* not start; or `token', which nothing has initialised, happens to hold
\* YAML_STREAM_END_TOKEN when the loop begins.
InitNoScan(c) ==
  /\ pc = "idle" /\ ~Refused(c)
  /\ table' = Created
  /\ UNCHANGED <<categories, pc, parse, call, buffer, journal>>

InitScan(c) ==
  /\ pc = "idle" /\ ~Refused(c)
  /\ LastIndex(Created) # -1
  /\ table' = Created /\ pc' = "scan"
  /\ parse' = [NoParse EXCEPT !.category = c, !.index = LastIndex(Created)]
  /\ UNCHANGED <<categories, call, buffer, journal>>

-----------------------------------------------------------------------------
(* parse_yaml_for_category, one scalar at a time.                          *)

\* The name is kept until the category that follows it is known.
Named(p, s) == IF p.val = 1 THEN [p EXCEPT !.buf = s, !.val = 0] ELSE p

IsMatch(p, s) == p.evt = 1 /\ s = p.category
Matched(p, s) ==
  IF IsMatch(p, s) THEN [p EXCEPT !.found = 1, !.any = 1] ELSE p

\* assign_parsed_values: what the value does to the table, and to the flags.
WithName(t, p) == [t EXCEPT ![p.index].name = p.buf,
                            ![p.index].category = p.category]
Bug_WithValue(t, p, s) ==
  CASE p.val = 2 -> [t EXCEPT ![p.index].id = IdOf[s]]
    [] p.val = 3 -> [t EXCEPT ![p.index].severity = s]
    [] p.val = 4 -> [t EXCEPT ![p.index].keys = Len(KeysOf[s])]
    [] p.val = 5 -> [t EXCEPT ![p.index].template = s]
    [] OTHER -> t
WithValue(t, p, s) ==
  CASE p.val = 2 -> [t EXCEPT ![p.index].id = IdOf[s]]
    [] p.val = 3 -> [t EXCEPT ![p.index].severity = s]
    [] p.val = 4 -> [t EXCEPT ![p.index].keys = Len(KeysOf[s])]
    [] p.val = 5 -> [t EXCEPT ![p.index].template = s,
                              ![p.index + 1].name = Delimiter]
    [] OTHER -> t
Bug_Assigned(p) ==
  IF p.found = 0 THEN p
  ELSE IF p.val = 5 THEN [p EXCEPT !.val = 0, !.found = 0]
  ELSE [p EXCEPT !.val = 0, !.index = @ + 1]
Assigned(p) ==
  IF p.found = 0 THEN p
  ELSE IF p.val = 5 THEN [p EXCEPT !.val = 0, !.found = 0, !.index = @ + 1]
  ELSE [p EXCEPT !.val = 0]

\* The flags after a key.
Flagged(p, s) ==
  CASE s = "event_definitions" -> [p EXCEPT !.def = 1]
    [] s = "event_name" /\ p.def = 1 -> [p EXCEPT !.val = 1]
    [] s = "event_category" /\ p.def = 1 -> [p EXCEPT !.evt = 1]
    [] s = "event_ID" /\ p.def = 1 -> [p EXCEPT !.val = 2]
    [] s = "severity" /\ p.evt = 1 -> [p EXCEPT !.val = 3]
    [] s = "keys" /\ p.evt = 1 -> [p EXCEPT !.val = 4]
    [] s = "event_description_template" /\ p.evt = 1 -> [p EXCEPT !.val = 5]
    [] OTHER -> p

Scalar ==
  /\ pc = "scan" /\ ~AtEnd
  /\ LET s == ScalarAt(parse.pos)
         p == Matched(Named(parse, s), s)
         t == IF IsMatch(p, s) THEN WithName(table, p) ELSE table
     IN  /\ table' = IF p.found = 1 THEN WithValue(t, p, s) ELSE t
         /\ parse' = [Flagged(Assigned(p), s) EXCEPT !.pos = Following(@)]
  /\ UNCHANGED <<categories, pc, call, buffer, journal>>

\* asprintf fails: the name has replaced the delimiter already.
ScalarFails ==
  /\ pc = "scan" /\ ~AtEnd
  /\ LET s == ScalarAt(parse.pos)
         p == Named(parse, s)
     IN  /\ IsMatch(p, s)
         /\ table' = [table EXCEPT ![p.index].name = p.buf]
  /\ pc' = "idle" /\ parse' = NoParse
  /\ UNCHANGED <<categories, call, buffer, journal>>

\* The category is recorded if it has an event.
Registered(p) == IF p.any = 1 THEN Append(categories, p.category) ELSE categories

ScanEnd ==
  /\ pc = "scan" /\ AtEnd
  /\ categories' = Registered(parse)
  /\ pc' = "idle" /\ parse' = NoParse
  /\ UNCHANGED <<table, call, buffer, journal>>

-----------------------------------------------------------------------------
(* log_event.                                                              *)

\* event_search: the delimiter is looked for among the descriptions, where it
\* never is, so that an unknown name is searched to the end of the table.
Search(name) ==
  IF table = NoTable THEN -1
  ELSE LET hits == {i \in 0..MaxEvents - 1 : table[i].name = name}
       IN  IF hits = {} THEN MaxEvents
           ELSE CHOOSE i \in hits : \A j \in hits : i <= j

IsUnknown(index) == index = MaxEvents - 1 \/ index < 0

\* The entry "Unknown Event Name".
LogUnknown(name) ==
  /\ pc = "idle" /\ IsUnknown(Search(name))
  /\ journal' = [name |-> name]
  /\ UNCHANGED <<table, categories, pc, parse, call, buffer>>

LogStart(name) ==
  /\ pc = "idle" /\ ~IsUnknown(Search(name))
  /\ call' = [NoCall EXCEPT !.name = name, !.index = Search(name),
               !.message = [template |-> table[Search(name)].template,
                            filled |-> {}]]
  /\ pc' = "log"
  /\ UNCHANGED <<table, categories, parse, buffer, journal>>

Wanted == ~call.null /\ Len(call.given) < table[call.index].keys

\* replace_str: its result is the static buffer, written or not.
Bug_Replaced(message, key) ==
  IF key \in UsesOf[message.template]
    THEN [message EXCEPT !.filled = {key}]
    ELSE buffer
Replaced(message, key) ==
  IF key \in UsesOf[message.template] \ message.filled
    THEN [message EXCEPT !.filled = @ \cup {key}]
    ELSE buffer

\* The next argument is a key with its value, and populate_str takes it over.
Fill(key) ==
  /\ pc = "log" /\ Wanted
  /\ LET result == Replaced(call.message, key)
     IN  /\ result # NoMessage
         /\ buffer' = result
         /\ call' = [call EXCEPT !.message = result,
                                 !.given = Append(@, key)]
  /\ UNCHANGED <<table, categories, pc, parse, journal>>

\* populate_str fails on an empty buffer.
FillFails(key) ==
  /\ pc = "log" /\ Wanted
  /\ Replaced(call.message, key) = NoMessage
  /\ pc' = "idle" /\ call' = NoCall
  /\ UNCHANGED <<table, categories, parse, buffer, journal>>

\* NULL instead: there are no keys, or EV_KV had no value.
Null ==
  /\ pc = "log" /\ Wanted
  /\ call' = [call EXCEPT !.null = TRUE]
  /\ UNCHANGED <<table, categories, pc, parse, buffer, journal>>

\* Without a severity there is no entry.
Entry ==
  LET e == table[call.index]
  IN  IF e.severity \notin Severities THEN journal
      ELSE [name |-> call.name, id |-> e.id, severity |-> e.severity,
            category |-> e.category, message |-> call.message,
            given |-> call.given]

Send ==
  /\ pc = "log" /\ ~Wanted
  /\ journal' = Entry
  /\ pc' = "idle" /\ call' = NoCall
  /\ UNCHANGED <<table, categories, parse, buffer>>

-----------------------------------------------------------------------------

\* The keys of an event that a caller passes: those the file names, in any
\* order, each once.
Arguments(name) ==
  UNION {ToSet(KeysOf[Doc[i].keys]) : i \in {j \in DOMAIN Doc : Doc[j].name = name}}

Local ==
  \/ \E c \in Asked : InitNoScan(c) \/ InitScan(c)
  \/ Scalar \/ ScalarFails \/ ScanEnd
  \/ \E name \in Names : LogUnknown(name) \/ LogStart(name)
  \/ \E key \in Arguments(call.name) \ ToSet(call.given) :
       Fill(key) \/ FillFails(key)
  \/ Null

Next == Local \/ Send

Spec == Init /\ [][Next]_vars

-----------------------------------------------------------------------------

\* The scanner is somewhere in the file.
PositionOK ==
  LET pos == parse.pos
  IN  /\ pos.item <= (IF pos.part = 3 THEN 0 ELSE Len(Items(pos.part)))
      /\ pos.item = 0 => pos.scalar = 1
      /\ pos.part = 1 => pos.scalar <= 4

\* The variables have their types, and the table is not left.
TypeOK ==
  /\ table # NoTable =>
       /\ DOMAIN table = 0..MaxEvents
       /\ \A i \in DOMAIN table : table[i].keys \in Nat
  /\ ToSet(categories) \subseteq Asked /\ Len(categories) <= MaxCategories
  /\ pc \in {"idle", "scan", "log"}
  /\ parse \in
       [category : Asked \cup {Blank},
        pos : [part : 1..3, item : Nat, scalar : 1..14],
        index : 0..MaxEvents - 1,
        buf : {Doc[i].name : i \in DOMAIN Doc} \cup {Blank},
        def : {0, 1}, evt : {0, 1}, val : 0..5, found : {0, 1}, any : {0, 1}]
  /\ PositionOK
  /\ call.index \in 0..MaxEvents /\ call.null \in BOOLEAN

\* The events that the table should hold: those of the categories recorded. In
\* front of event i, of the category a, are those of the categories before and
\* the events of this one that come before in the file.
Loaded == {i \in DOMAIN Doc : Doc[i].category \in ToSet(categories)}
InFrontOf(a, i) ==
  {j \in DOMAIN Doc : \/ \E b \in 1..a - 1 : Doc[j].category = categories[b]
                     \/ (Doc[j].category = categories[a] /\ j < i)}
Slot(a, i) == Cardinality(InFrontOf(a, i))

EntryOf(e) ==
  [name |-> e.name, category |-> e.category, id |-> IdOf[e.id],
   severity |-> e.severity, keys |-> Len(KeysOf[e.keys]),
   template |-> e.template]

\* Between calls every recorded category is in the table, complete, once, with
\* the fields of its own events, in the order of the calls and of the file, and
\* the delimiter follows, so that the next category is appended. Only if memory
\* ran out, which leaves an entry half written, the delimiter is gone, and no
\* category is ever added again.
TableIsSound ==
  pc = "idle" /\ table # NoTable =>
    /\ \A a \in DOMAIN categories, i \in DOMAIN Doc :
         Doc[i].category = categories[a] => table[Slot(a, i)] = EntryOf(Doc[i])
    /\ \/ LastIndex(table) = Cardinality(Loaded)
       \/ \E i \in 0..MaxEvents - 1 :
            table[i].name \notin {Blank, Delimiter} /\ table[i].severity = Blank

\* What reaches the journal is the event that was asked for: its identifier,
\* severity and category, and its own message with the keys that the caller
\* gave, unless the first one does not occur in the message: then it is
\* whatever the library has built before.
LoggedIsAsked ==
  "id" \in DOMAIN journal =>
    \E i \in DOMAIN Doc :
      LET e == Doc[i]
          given == journal.given
      IN  /\ journal.name = e.name
          /\ journal.id = IdOf[e.id] /\ journal.severity = e.severity
          /\ journal.category = e.category
          /\ \/ given # <<>> /\ given[1] \notin UsesOf[e.template]
             \/ journal.message =
                  [template |-> e.template,
                   filled |-> UsesOf[e.template] \cap ToSet(given)]

\* event_search: "Returns event index on success, -1 on failure", and log_event
\* then sends an entry about the unknown name.
UnknownIsReported ==
  [][\A name \in Names :
       LogStart(name) => \E i \in 0..MaxEvents - 1 : table[i].name = name]_vars

-----------------------------------------------------------------------------
(* The inductive invariant.                                                *)

\* The events of the category that is scanned, those scanned already, and where
\* the next of them goes.
Current(i) == pc = "scan" /\ Doc[i].category = parse.category
Seen(i) == parse.pos.part = 3 \/ (parse.pos.part = 2 /\ i < parse.pos.item)
InEvent == parse.pos.part = 2 /\ parse.pos.item > 0

Held == Loaded \cup {i \in DOMAIN Doc : Current(i) /\ Seen(i)}
NextSlot(i) == Cardinality(Loaded \cup {j \in DOMAIN Doc : Current(j) /\ j < i})

\* The scanner has seen a category among the definitions; that of the event it
\* is in is the one asked for.
AfterCategory ==
  IF InEvent THEN parse.pos.item > 1 \/ parse.pos.scalar > 3
  ELSE AtEnd /\ Doc # <<>>
Hit == InEvent /\ Current(parse.pos.item) /\ parse.pos.scalar > 4

\* The value that comes next.
ValueOK ==
  LET k == parse.pos.scalar
  IN  /\ ~InEvent /\ ~AtEnd => parse.val = 0
      /\ InEvent =>
           /\ k = 2 <=> parse.val = 1
           /\ k > 2 => parse.buf = Doc[parse.pos.item].name
           /\ k \in 3..5 => parse.val = 0
           /\ k \in {6, 8, 10} => parse.val = (k \div 2) - 1
           /\ k = 14 => parse.val = 5
           /\ k \in {7, 9, 11, 12, 13} /\ Hit => parse.val = 0

Flag(set) == IF set THEN 1 ELSE 0

\* What the scanner knows.
ParseInv ==
  IF pc # "scan" THEN parse = NoParse
  ELSE /\ parse.category \in Asked \ ToSet(categories)
       /\ parse.index = Cardinality(Held)
       /\ parse.def = Flag(InEvent \/ AtEnd)
       /\ parse.evt = Flag(AfterCategory)
       /\ parse.found = Flag(Hit)
       /\ parse.any = Flag(Hit \/ \E i \in DOMAIN Doc : Current(i) /\ Seen(i))
       /\ ValueOK

\* What the fields of an event's slot are before scalar k.
Partly(e, k) ==
  [name |-> e.name, category |-> e.category,
   id |-> IF k > 6 THEN IdOf[e.id] ELSE 0,
   severity |-> IF k > 8 THEN e.severity ELSE Blank,
   keys |-> IF k > 10 THEN Len(KeysOf[e.keys]) ELSE 0,
   template |-> Blank]
Marked(name) == [Unwritten EXCEPT !.name = name]

\* Events up to slot n, which is what is given, and nothing behind.
Frontier(n, slot) ==
  /\ n \in 0..MaxEvents - 1 /\ table = [s \in 0..MaxEvents |-> table[s]]
  /\ \A s \in 0..n - 1 : \E i \in DOMAIN Doc : table[s] = EntryOf(Doc[i])
  /\ table[n] = slot
  /\ \A s \in n + 1..MaxEvents : table[s] = Unwritten

\* In scanning the table is sound, else an allocation may have failed.
TableInv ==
  /\ pc = "idle" /\ table = NoTable => categories = <<>>
  /\ \A a \in DOMAIN categories, i \in DOMAIN Doc :
       Doc[i].category = categories[a] => table[Slot(a, i)] = EntryOf(Doc[i])
  /\ \A i \in DOMAIN Doc :
       Current(i) /\ Seen(i) => table[NextSlot(i)] = EntryOf(Doc[i])
  /\ IF pc = "scan"
       THEN Frontier(parse.index,
              IF parse.found = 1 THEN Partly(Doc[parse.pos.item], parse.pos.scalar)
              ELSE Marked(Delimiter))
       ELSE \/ pc = "idle" /\ table = NoTable
            \/ Frontier(Cardinality(Loaded), Marked(Delimiter))
            \/ \E n \in 0..MaxEvents - 1, i \in DOMAIN Doc :
                 Frontier(n, Marked(Doc[i].name))

\* A category is recorded once and has events.
CategoriesInv ==
  /\ categories \in Seq(Asked \cap CategoriesOf(Doc))
  /\ \A a, b \in DOMAIN categories : categories[a] = categories[b] => a = b

\* The message of a call: the keys of its text that have been given, unless the
\* first was none of them.
IsMessage(message, template, given) ==
  message = [template |-> template, filled |-> UsesOf[template] \cap ToSet(given)]
FirstIsForeign(template, given) == given # <<>> /\ given[1] \notin UsesOf[template]

CallInv ==
  /\ pc # "log" => call = NoCall
  /\ pc = "log" =>
       /\ call \in [name : Names, index : 0..MaxEvents, message : {call.message},
                    given : Seq(ToSet(call.given)), null : BOOLEAN]
       /\ \/ /\ table[call.index].severity = Blank
             /\ table[call.index].keys = 0
          \/ \E i \in DOMAIN Doc :
               LET e == Doc[i]
               IN  /\ table[call.index] = EntryOf(e) /\ call.name = e.name
                   /\ \/ FirstIsForeign(e.template, call.given)
                      \/ /\ IsMessage(call.message, e.template, call.given)
                         /\ call.given = <<>> \/ buffer = call.message

LogInv ==
  TypeOK /\ ParseInv /\ TableInv /\ CategoriesInv /\ CallInv /\ LoggedIsAsked
=============================================================================
