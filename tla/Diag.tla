-------------------------------- MODULE Diag --------------------------------
(***************************************************************************)
(* diag-dump with the feature mapping it reads. vtysh parses the mapping   *)
(* when it starts and installs a command for each feature with the         *)
(* diag-dump flag (src/cli/supportability_vty.c); the command then walks   *)
(* the same list of features.                                              *)
(***************************************************************************)
EXTENDS DiagDump

CONSTANTS Docs, None

VARIABLES
  boot,   \* vtysh starts, reads the mapping, is up
  file, parsing, pos, state, daemon   \* of FeatureMapping

Mapping == INSTANCE FeatureMapping

\* In a file every key has its value, and no value is one of the keys, as in
\* the ops_featuremapping.yaml that is installed.
Text   == STRING \ Mapping!Keys
DocSet == Seq([name : Text, desc : Text,
               daemons : Seq([name : Text, dump : Text])])

ASSUME DocsAssumption == Docs \subseteq DocSet /\ None \notin Text

parser == <<file, parsing, pos, state, daemon>>
others == <<installed, main, thread, locks, flags, sig, output, hist>>
vars   == <<boot, parser, dvars>>

DiagInit == Init /\ Mapping!MapInit /\ installed = {} /\ boot = "start"

\* install_diag_dump reads the mapping; so does `diag-dump list' as long as
\* there is none.
Read ==
  /\ boot \in {"start", "up"} /\ pc = "idle" /\ Mapping!GetMapping
  /\ boot' = IF boot = "start" THEN "read" ELSE boot
  /\ UNCHANGED others

\* The parser runs to its end before anything else.
Parse == Mapping!ParseStep /\ UNCHANGED <<boot, others>>

\* A command for each feature with the flag.
InstallDiagDump ==
  /\ boot = "read" /\ ~parsing
  /\ boot' = "up" /\ installed' = {i \in DOMAIN features : features[i].dump}
  /\ UNCHANGED <<parser, features, main, thread, locks, flags, sig, output,
                 hist>>

Next ==
  \/ Read \/ Parse \/ InstallDiagDump
  \/ boot = "up" /\ ~parsing /\ DiagNext /\ UNCHANGED <<boot, parser>>

Spec == DiagInit /\ [][Next]_vars

\* Each thread is scheduled, in its own code or in a signal handler, and the
\* time of a wait and of the alarm passes; nobody has to type a command or send
\* a signal.
Fairness ==
  /\ WF_vars((MainStep \/ HandlerStep("main")) /\ UNCHANGED <<boot, parser>>)
  /\ WF_vars((CmdStep \/ HandlerStep("cmd")) /\ UNCHANGED <<boot, parser>>)
  /\ WF_vars((\E t \in Threads : Alarm(t)) /\ UNCHANGED <<boot, parser>>)

FairSpec == Spec /\ Fairness

TypeOK ==
  /\ DiagTypeOK
  /\ boot \in {"start", "read", "up"} /\ parsing \in BOOLEAN
  /\ installed \subseteq DOMAIN features

-----------------------------------------------------------------------------

\* What a run is outside: its phase, the daemons that it is to ask and those
\* whose section is written to its end.
Phase ==
  CASE pc = "idle" -> "idle"
    [] pc \in {"userint", "exit"} -> "over"
    [] OTHER -> "running"
Wanted  == IF pc = "idle" THEN {} ELSE Asked(iter)
Written == {i \in DOMAIN section : section[i] = "whole"}

Run == INSTANCE DiagRun WITH
         phase <- Phase, wanted <- Wanted, written <- Written

\* Every behaviour of the threads, the locks, the connections and the signal
\* handlers is, seen from outside, a run as DiagRun describes it.
ImplementsDiagRun == Run!RunSpec

MappingIsPrefix  == Mapping!MappingIsPrefix
InstalledCanDump == Mapping!InstalledCanDump
FlagIfAnyDaemon  == Mapping!FlagIfAnyDaemon

-----------------------------------------------------------------------------
(* The inductive invariant of CapturedIsReal, ConnectionsClosed and the     *)
(* refinement. The mapping is read only while no run uses it.              *)

MapInv ==
  /\ parsing => installed = {}
  /\ installed \subseteq {i \in DOMAIN features : features[i].dump}
  /\ boot # "up" => pc = "idle"
  /\ pc # "idle" => ~parsing /\ iter \in installed

\* The types of the mapping, and what it holds.
DaemonSet  == [name : Text, dump : BOOLEAN]
FeatureSet == [name : Text, desc : Text \cup {None},
               daemons : Seq(DaemonSet), dump : BOOLEAN]

MappingOK ==
  /\ file \in Docs /\ features \in Seq(FeatureSet) /\ Mapping!ParserInv

\* Where there is a thread, and where it runs.
Started  == pc \in {"lock", "locked", "wait", "relock", "woken", "alarmchk",
                    "branch", "reap", "join"}
Asking   == Started \/ pc \in {"create", "after"}
Over     == pc \in {"userint", "exit"}
Finished == {"done", "locked", "signalled", "unlocked", "popped"}

\* The daemons up to the one the run is at.
Before == {i \in Wanted : i <= cur}

PlaceInv ==
  /\ pc = "idle" => cur = 0 /\ section = <<>> /\ answered = {} /\ message = "none"
  /\ pc \in {"open", "header"} =>
       cur = 0 /\ answered = {} /\ daemon_count = 0 /\ daemon_resp = 0
  /\ pc # "idle" => DOMAIN section = DOMAIN features[iter].daemons
  /\ cur = 0 \/ cur \in Wanted
  /\ answered \subseteq Before
  /\ \A i \in answered : section[i] = "whole"
  /\ Asking => cur # 0
  /\ (tpc = "none") = ~Started
  /\ message # "none" => Over

\* What is counted, and what is said of it.
CountInv ==
  /\ pc # "idle" /\ ~Over =>
       /\ daemon_count = Cardinality(Before)
       /\ daemon_resp <= Cardinality(IF Asking THEN answered \ {cur} ELSE answered)
  /\ pc = "footer" => Wanted = Before
  /\ message = "captured" => Wanted = answered

\* A thread that was not cancelled has failed or its daemon has answered.
ThreadInv ==
  /\ tpc \in {"close", "closed", "returned"} /\ reply = "ok" =>
       section[cur] = "whole"
  /\ tpc \in Finished \/ (tpc \in {"ended", "cleanup"} /\ ~cancelled) =>
       gFailed \/ cur \in answered
  /\ pc \in {"reap", "join"} /\ cancelled => MustCancel
  /\ pc = "join" /\ error = "timedout" => gFailed
  /\ Started /\ pc \notin {"reap", "join"} => ~cancelled
  /\ pc = "after" /\ result = 0 => cur \in answered

\* The connection, and who may spoil it.
ClientInv ==
  /\ client = "open" => tpc \in {"request", "write", "close", "cleanup"}
  /\ client = "freed" => tpc \in {"closed", "cleanup"}
  /\ tpc = "cleanup" => cancelled
  /\ tpc \in {"request", "write", "close"} => client = "open"
  /\ gInterrupt => signals < MaxSignals
  /\ Started /\ error = "timedout" =>
       \/ gInterrupt \/ kind = "slow"
       \/ tpc = "request" /\ kind = "hang"
       \/ tpc = "pushed" /\ cleanupMutex = "cmd"
       \/ tpc = "cleanup" /\ client # "freed"
       \/ tpc = "ended"
  /\ marks \cap {"leak", "twice"} # {} => signals < MaxSignals

\* A section is only cut in a file; and the last line comes after a write that
\* fails if the disk is still full.
CutInv ==
  /\ pc = "idle" => dest = "terminal"
  /\ cut # "none" => dest = "file"
  /\ cut = "full" => full /\ message # "captured"

DiagInv ==
  /\ TypeOK /\ MappingOK /\ MapInv /\ PlaceInv /\ CountInv /\ ThreadInv
  /\ ClientInv /\ CutInv
=============================================================================
