------------------------------- MODULE Events -------------------------------
(***************************************************************************)
(* Events as a whole: a daemon in C that logs them with EventLog, a daemon *)
(* in Python that logs them with src/python/ops_eventlog.py, the journal,  *)
(* and `show events' of vtysh, src/cli/show_events_vty.c, which reads the  *)
(* journal while the daemons write to it.                                  *)
(*                                                                         *)
(* The fields of an entry are its event identifier, its category and the   *)
(* levels that its PRIORITY stands for. Python writes the name of the      *)
(* severity there, which is none. The journal, which is systemd's, keeps   *)
(* MaxEntries entries and drops what comes after them.                     *)
(***************************************************************************)
EXTENDS EventLog

CONSTANTS
  LevelOf,     \* severity_level, of the names in Severities
  Upper,       \* toupper of a category
  Part,        \* pairs of categories: the first is part of the second
  PyAsked,     \* categories that the daemon in Python may use
  Requests,    \* options of `show events', Blank and -1 if not given
  MaxEntries

\* Every event of the shipped file has a name of its own, and the name of no
\* category is another's in upper case.
ASSUME EventsAssumption ==
  /\ \A i, j \in DOMAIN Doc : Doc[i].name = Doc[j].name => i = j
  /\ \A severity \in Severities : LevelOf[severity] \in Nat
  /\ \A r \in Requests :
       /\ r.level \in -1..7 /\ r.reverse \in BOOLEAN
       /\ r.category # Blank /\ Upper[r.category] \in CategoriesOf(Doc) =>
            Upper[r.category] = r.category
  /\ MaxEntries \in Nat

VARIABLES
  entries,     \* the event entries of the journal
  content,     \* Python: the events loaded, as positions in the file; their
               \* order is that of the categories, then that of the file
  category,    \* Python: the categories loaded
  reader,      \* where `show events' is
  request,     \* its options
  opened,      \* history: the entries there were when it opened the journal
  at,          \* its place in the journal
  rows         \* the entries it has displayed

events == <<entries, content, category>>
show   == <<reader, request, opened, at, rows>>

NoRequest == [ids |-> {}, level |-> -1, category |-> Blank, reverse |-> FALSE]

EventsInit ==
  /\ Init
  /\ entries = <<>> /\ content = {} /\ category = <<>>
  /\ reader = "idle" /\ request = NoRequest /\ opened = 0 /\ at = 0
  /\ rows = <<>>

-----------------------------------------------------------------------------

\* The journal takes an entry. What it is about is history.
Recorded(entry) ==
  entries' = IF Len(entries) < MaxEntries THEN Append(entries, entry) ELSE entries

\* log_event of the daemon in C. The other entry it sends, of an unknown name,
\* begins with a text that is no field; the journal refuses it.
LogC ==
  /\ Send
  /\ LET e == table[call.index]
     IN  IF e.severity \notin Severities THEN UNCHANGED entries
         ELSE Recorded([id |-> e.id, priority |-> {LevelOf[e.severity]},
                        category |-> e.category,
                        name |-> call.name, by |-> "C"])

-----------------------------------------------------------------------------
(* ops_eventlog.py.                                                        *)

\* event_log_init: not if the category is `in' one that is loaded, so that one
\* whose name is part of another's comes too late after it.
PyInitCategory(c) ==
  /\ \A i \in DOMAIN category : c # category[i] /\ <<c, category[i]>> \notin Part
  /\ LET found == {i \in DOMAIN Doc : Doc[i].category = c}
     IN  /\ content' = content \cup found
         /\ category' = IF found = {} THEN category ELSE Append(category, c)
  /\ UNCHANGED entries

\* Event i comes before event j in the list.
Before(i, j) ==
  IF Doc[i].category = Doc[j].category THEN i < j
  ELSE \E a \in DOMAIN category :
         /\ category[a] = Doc[i].category
         /\ \A b \in 1..a : category[b] # Doc[j].category

\* log_event: the first event with the name.
PyLog(name) ==
  /\ \E i \in content :
       LET e == Doc[i]
       IN  /\ e.name = name
           /\ \A j \in content : Doc[j].name = name => j = i \/ Before(i, j)
           /\ Recorded([id |-> IdOf[e.id], priority |-> {},
                        category |-> e.category,
                        name |-> name, by |-> "Python"])
  /\ UNCHANGED <<content, category>>

-----------------------------------------------------------------------------
(* `show events'.                                                          *)

\* journal_filter: matches on one field are alternatives, fields conjuncts.
Bug_Matches(entry) ==
  /\ request.ids = {} \/ entry.id \in request.ids
  /\ request.level = -1 \/ request.level \in entry.priority
  /\ request.category = Blank \/ entry.category = Upper[request.category]
Matches(entry) ==
  /\ request.ids = {} \/ entry.id \in request.ids
  /\ request.level = -1 \/ entry.priority \cap 0..request.level # {}
  /\ request.category = Blank \/ entry.category = Upper[request.category]

\* The category is offered in lower case, and put in upper case here.
Open(r) ==
  /\ reader = "idle"
  /\ reader' = "show" /\ request' = r
  /\ opened' = Len(entries)
  /\ at' = IF r.reverse THEN MaxEntries + 1 ELSE 0
  /\ rows' = <<>>

\* The matching entries on the way.
Ahead ==
  {i \in DOMAIN entries :
     /\ IF request.reverse THEN i < at ELSE i > at
     /\ Matches(entries[i])}

\* The next of them, in either direction.
Nearest(i, j) == IF request.reverse THEN j <= i ELSE i <= j

Row ==
  /\ reader = "show"
  /\ \E i \in Ahead :
       /\ \A j \in Ahead : Nearest(i, j)
       /\ at' = i /\ rows' = Append(rows, i)
  /\ UNCHANGED <<reader, request, opened>>

\* The journal may have been opened before the last entries came.
EndOfJournal ==
  /\ reader = "show" /\ \A i \in Ahead : i > opened
  /\ reader' = "success"
  /\ UNCHANGED <<request, opened, at, rows>>

\* The journal cannot be opened, filtered or read.
ShowFails ==
  /\ reader = "show"
  /\ reader' = "warning"
  /\ UNCHANGED <<request, opened, at, rows>>

ShowReturns ==
  /\ reader \in {"success", "warning"}
  /\ reader' = "idle" /\ request' = NoRequest /\ opened' = 0 /\ at' = 0
  /\ rows' = <<>>

-----------------------------------------------------------------------------

\* The daemon in C neither reads nor writes the journal before it sends an
\* entry: only that is interleaved with the steps of `show events'.
Calm == pc = "idle" \/ (pc = "log" /\ ~Wanted)

EventsNext ==
  \/ Local /\ reader = "idle" /\ UNCHANGED <<events, show>>
  \/ LogC /\ UNCHANGED <<content, category, show>>
  \/ (\E c \in PyAsked : PyInitCategory(c)) /\ UNCHANGED <<vars, show>>
  \/ (\E name \in Names : PyLog(name)) /\ UNCHANGED <<vars, show>>
  \/ Calm /\ (\E r \in Requests : Open(r)) /\ UNCHANGED <<vars, events>>
  \/ (Row \/ EndOfJournal \/ ShowFails \/ ShowReturns)
       /\ UNCHANGED <<vars, events>>

EventsSpec == EventsInit /\ [][EventsNext]_<<vars, events, show>>

-----------------------------------------------------------------------------

\* What the user means by the options: an event with an identifier of the list,
\* at least as severe as the level and of the category. The daemons in Python
\* give their entries no level that could be asked for, and a category with
\* lower case letters in its name cannot be asked for.
Meant(entry) ==
  \E i \in DOMAIN Doc :
    /\ Doc[i].name = entry.name
    /\ request.ids = {} \/ IdOf[Doc[i].id] \in request.ids
    /\ \/ request.level = -1
       \/ entry.by = "C" /\ LevelOf[Doc[i].severity] <= request.level
    /\ \/ request.category = Blank
       \/ /\ Doc[i].category = request.category
          /\ Upper[request.category] = request.category

\* `show events' displays the events that daemons have logged and the user
\* asks for, as the file defines them: all that were there when it began, each
\* once, in the order in which they were logged or in the opposite one. Those
\* that came meanwhile may be displayed, in their place.
ShownIsAsked ==
  reader = "success" =>
    /\ \A i \in 1..opened : Meant(entries[i]) => i \in ToSet(rows)
    /\ \A i \in ToSet(rows) : Meant(entries[i])
    /\ \A m, n \in DOMAIN rows :
         m < n => IF request.reverse THEN rows[n] < rows[m] ELSE rows[m] < rows[n]

-----------------------------------------------------------------------------
(* The inductive invariant.                                                *)

\* An entry has the fields of an event of the file.
IsOf(entry, e) ==
  /\ entry.name = e.name /\ entry.id = IdOf[e.id] /\ entry.category = e.category
  /\ \/ entry.by = "Python" /\ entry.priority = {}
     \/ /\ entry.by = "C" /\ entry.priority = {LevelOf[e.severity]}
        /\ e.severity \in Severities
EntriesInv ==
  /\ entries \in Seq(ToSet(entries)) /\ Len(entries) <= MaxEntries
  /\ \A i \in DOMAIN entries : \E j \in DOMAIN Doc : IsOf(entries[i], Doc[j])
  /\ content \subseteq DOMAIN Doc

\* The rows are behind, with all that matches of what there was; the others
\* that do are still ahead.
ShowInv ==
  reader \in {"show", "success"} =>
    /\ request \in Requests /\ opened \in 0..Len(entries) /\ at \in 0..MaxEntries + 1
    /\ rows \in Seq(Nat)
    /\ \A n \in DOMAIN rows :
         /\ rows[n] \in DOMAIN entries /\ Matches(entries[rows[n]])
         /\ Nearest(rows[n], at)
    /\ \A m, n \in DOMAIN rows :
         m < n => IF request.reverse THEN rows[n] < rows[m] ELSE rows[m] < rows[n]
    /\ \A i \in 1..opened :
         Matches(entries[i]) =>
           i \in ToSet(rows) \/ (reader = "show" /\ i \in Ahead)

EventsInv == LogInv /\ EntriesInv /\ ShowInv
=============================================================================
