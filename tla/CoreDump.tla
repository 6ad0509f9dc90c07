------------------------------ MODULE CoreDump ------------------------------
(***************************************************************************)
(* Post-crash processing of the supportability daemon,                     *)
(* src/python/ops_supportability.py: a core file that appears in the core  *)
(* folder is announced by inotify; process_coredumps lists the folder and  *)
(* logs an event for every file that the file of processed cores does not  *)
(* name, then rewrites that file. At start the daemon sets the watch and   *)
(* processes what is there. The daemon may crash at any point.             *)
(***************************************************************************)
EXTENDS Naturals, FiniteSets

CONSTANTS
  Cores,        \* names of core files; systemd-coredump never uses one twice
  Valid,        \* those with the attributes an event needs
  NoFile,       \* the file of processed cores does not exist
  MaxCrashes    \* bound: crashes of the daemon

ASSUME CoreAssumption == Valid \subseteq Cores /\ MaxCrashes \in Nat

ASSUME NoFileAssumption == \A names \in SUBSET Cores : names # NoFile

VARIABLES
  folder,      \* core files in core_folder
  dumped,      \* history: core files that have ever been there
  pc,          \* where the daemon is
  watched,     \* the inotify watch is set
  queue,       \* unread inotify events
  list,        \* corefile_list
  todo,        \* those of the list the loop has still to look at
  found,       \* new_core_dump_found
  processed,   \* the cores named in processed_files
  logged,      \* history: events logged for each core
  skipped,     \* history: new cores a failing loop did not reach
  crashes

vars == <<folder, dumped, pc, watched, queue, list, todo, found, processed,
          logged, skipped, crashes>>

Init ==
  /\ folder = {} /\ dumped = {}
  /\ pc = "down" /\ watched = FALSE /\ queue = FALSE
  /\ list = {} /\ todo = {} /\ found = FALSE
  /\ processed = NoFile
  /\ logged = [c \in Cores |-> 0] /\ skipped = {} /\ crashes = 0

-----------------------------------------------------------------------------
(* The environment.                                                        *)

\* systemd-coredump moves a finished core file into the folder.
Dump(c) ==
  /\ c \in Cores \ dumped
  /\ folder' = folder \cup {c} /\ dumped' = dumped \cup {c}
  /\ queue' = (queue \/ watched)
  /\ UNCHANGED <<pc, watched, list, todo, found, processed, logged, skipped,
                 crashes>>

\* Somebody, or systemd when space is short, removes one.
Delete(c) ==
  /\ c \in folder
  /\ folder' = folder \ {c}
  /\ UNCHANGED <<dumped, pc, watched, queue, list, todo, found, processed,
                 logged, skipped, crashes>>

\* The watch ends with the process.
Crash ==
  /\ pc # "down" /\ crashes < MaxCrashes
  /\ pc' = "down" /\ crashes' = crashes + 1
  /\ watched' = FALSE /\ queue' = FALSE
  /\ UNCHANGED <<folder, dumped, list, todo, found, processed, logged,
                 skipped>>

-----------------------------------------------------------------------------
(* The daemon.                                                             *)

\* supportability_init: the watch is set before the folder is listed.
Bug_AddWatch ==
  /\ pc = "down"
  /\ pc' = "glob" /\ watched' = FALSE
  /\ UNCHANGED <<folder, dumped, queue, list, todo, found, processed, logged,
                 skipped, crashes>>
AddWatch ==
  /\ pc = "down"
  /\ pc' = "glob" /\ watched' = TRUE
  /\ UNCHANGED <<folder, dumped, queue, list, todo, found, processed, logged,
                 skipped, crashes>>

\* glob.glob(core_pattern).
Bug_Glob ==
  /\ pc = "glob"
  /\ list' = folder /\ todo' = todo \cup folder /\ found' = FALSE
  /\ pc' = "open"
  /\ UNCHANGED <<folder, dumped, watched, queue, processed, logged, skipped,
                 crashes>>
Glob ==
  /\ pc = "glob"
  /\ list' = folder /\ todo' = folder /\ found' = FALSE
  /\ pc' = "open"
  /\ UNCHANGED <<folder, dumped, watched, queue, processed, logged, skipped,
                 crashes>>

\* The file is created when it does not exist.
Open ==
  /\ pc = "open"
  /\ processed' = IF processed = NoFile THEN {} ELSE processed
  /\ pc' = "scan"
  /\ UNCHANGED <<folder, dumped, watched, queue, list, todo, found, logged,
                 skipped, crashes>>

\* post_crash_processing: an event, unless the attributes cannot be read.
Reported(c) == c \in Valid \cap folder

\* One turn of the loop.
Scan(c) ==
  /\ pc = "scan" /\ c \in todo
  /\ todo' = todo \ {c}
  /\ found' = (found \/ c \notin processed)
  /\ logged' = IF c \notin processed /\ Reported(c)
                 THEN [logged EXCEPT ![c] = @ + 1]
                 ELSE logged
  /\ UNCHANGED <<folder, dumped, pc, watched, queue, list, processed, skipped,
                 crashes>>

\* An exception while the file is read ends the loop, not process_coredumps.
ScanFails ==
  /\ pc = "scan" /\ todo # {}
  /\ todo' = {} /\ skipped' = skipped \cup (todo \ processed)
  /\ UNCHANGED <<folder, dumped, pc, watched, queue, list, found, processed,
                 logged, crashes>>

ScanDone ==
  /\ pc = "scan" /\ todo = {}
  /\ pc' = IF found THEN "truncate" ELSE "block"
  /\ UNCHANGED <<folder, dumped, watched, queue, list, todo, found, processed,
                 logged, skipped, crashes>>

\* open(processed_files, "w") empties the file.
Truncate ==
  /\ pc = "truncate"
  /\ processed' = {} /\ pc' = "write"
  /\ UNCHANGED <<folder, dumped, watched, queue, list, todo, found, logged,
                 skipped, crashes>>

\* What is written: the whole list.
Bug_NowProcessed == folder
Bug_OnlyNewProcessed == {c \in list : c \in Valid /\ logged[c] = 0}
NowProcessed == list

Write ==
  /\ pc = "write"
  /\ processed' = NowProcessed /\ pc' = "block"
  /\ UNCHANGED <<folder, dumped, watched, queue, list, todo, found, logged,
                 skipped, crashes>>

\* crashprocessing_run: the events are read, then the folder is listed.
Wake ==
  /\ pc = "block" /\ queue
  /\ queue' = FALSE /\ pc' = "glob"
  /\ UNCHANGED <<folder, dumped, watched, list, todo, found, processed,
                 logged, skipped, crashes>>

-----------------------------------------------------------------------------

Daemon ==
  \/ AddWatch \/ Glob \/ Open \/ (\E c \in Cores : Scan(c)) \/ ScanFails
  \/ ScanDone \/ Truncate \/ Write \/ Wake

Next == Daemon \/ Crash \/ \E c \in Cores : Dump(c) \/ Delete(c)

Spec == Init /\ [][Next]_vars

\* The daemon is scheduled and systemd starts it again.
FairSpec == Spec /\ WF_vars(Daemon)

-----------------------------------------------------------------------------

\* The variables have their types.
TypeOK ==
  /\ folder \subseteq dumped /\ dumped \subseteq Cores
  /\ pc \in {"down", "glob", "open", "scan", "truncate", "write", "block"}
  /\ watched \in BOOLEAN /\ queue \in BOOLEAN /\ found \in BOOLEAN
  /\ list \subseteq dumped /\ todo \subseteq list
  /\ processed = NoFile \/ processed \subseteq dumped
  /\ logged \in [Cores -> Nat] /\ skipped \subseteq dumped
  /\ crashes \in 0..MaxCrashes

\* A core that the file names as processed has had its event, however the
\* daemon crashed: the event is logged before the file is written, and a file
\* that arrives in between is not written to it. The only exceptions are cores
\* a failing loop did not reach: they are written with the others.
ProcessedIsLogged ==
  processed # NoFile =>
    \A c \in (processed \cap folder \cap Valid) \ skipped : logged[c] > 0

\* An event is repeated only after a crash, at most once for each.
RepeatedOnlyByCrash == \A c \in Cores : logged[c] <= 1 + crashes

\* Every valid core that stays in the folder is reported: no arrival is missed
\* while the daemon lists the folder, writes its file, is down or starts.
EveryCoreReported ==
  \A c \in Valid :
    c \in folder ~> (logged[c] > 0 \/ c \notin folder \/ c \in skipped)

-----------------------------------------------------------------------------
(* The inductive invariant.                                                *)

Named == IF processed = NoFile THEN {} ELSE processed

\* From the listing to the end of process_coredumps.
Processing == pc \in {"open", "scan", "truncate", "write"}

\* The list has every file the old list names and that is still there, so
\* that rewriting the file forgets none.
ListInv ==
  /\ pc \in {"scan", "truncate", "write"} => processed # NoFile
  /\ pc = "open" => todo = list
  /\ Processing => Named \cap folder \subseteq list

\* Events come before the names in the file.
LoggedInv ==
  LET Logged(set) ==
        \A c \in (set \cap folder \cap Valid) \ skipped : logged[c] > 0
  IN  /\ Logged(Named)
      /\ pc = "scan" => Logged(list \ todo)
      /\ pc \in {"truncate", "write"} => Logged(list)

\* The daemon will not log this core again before a crash.
Remembered(c) ==
  \/ pc \in {"glob", "open", "block"} /\ c \in Named
  \/ pc = "scan" /\ (c \in Named \/ (c \in list \ todo /\ found))
  \/ pc \in {"truncate", "write"} /\ c \in list

RepeatInv ==
  \A c \in Cores :
    /\ logged[c] > 0 => c \in dumped
    /\ logged[c] <= crashes + 1
    /\ logged[c] = crashes + 1 =>
         pc # "down" /\ (c \in folder => Remembered(c))

IInv == TypeOK /\ ListInv /\ LoggedInv /\ RepeatInv
=============================================================================
