----------------------------- MODULE CoreDumps -----------------------------
(***************************************************************************)
(* Core dumps as a whole: the daemon of CoreDump reports the files of the  *)
(* core folder while a user copies and lists them with the commands of     *)
(* CoreDumpCli. The two sides name the folder differently; the tests write *)
(* to the one and clean up in the other.                                   *)
(***************************************************************************)
EXTENDS CoreDump, Sequences

CONSTANTS Sorted, KernelCores, NameOf, Daemons, FileNames, NotGiven

VARIABLES cpc, request, files, server, rows, return_val, wanted

Cli == INSTANCE CoreDumpCli

\* The names of core files: none is of a daemon called "kernel", and all have a
\* process id.
ASSUME NamesAssumption ==
  /\ \A c \in Cores \cup KernelCores : \E i \in DOMAIN Sorted : Sorted[i] = c
  /\ DOMAIN Sorted \subseteq Nat
  /\ Cores \cap KernelCores = {}
  /\ NotGiven \notin Daemons \cup {"kernel"}
  /\ \A c \in Cores :
       /\ NameOf[c].daemon \notin {NotGiven, "kernel"}
       /\ 3 \in DOMAIN NameOf[c].fields /\ Len(NameOf[c].fields[3]) \in Nat

command == <<cpc, request, files, server, rows, return_val, wanted>>

CoresInit == Init /\ Cli!CopyInit

CoresNext ==
  \/ Next /\ UNCHANGED command
  \/ /\ Cli!CopyNext
     /\ UNCHANGED <<dumped, pc, watched, queue, list, todo, found, processed,
                    logged, skipped, crashes>>

\* Nobody has to type a command, or to send it to a server that answers.
CoresSpec ==
  CoresInit /\ [][CoresNext]_<<vars, command>>
            /\ WF_vars(Daemon /\ UNCHANGED command)

\* `copy core-dump' copies what it should, or fails.
CopyIsComplete == Cli!CopyIsComplete

-----------------------------------------------------------------------------
(* The inductive invariant of CopyIsComplete.                              *)

First(c) == Cli!IsFirst(c, KernelCores)

\* What the user has seen and may want: kernel cores but the first are neither
\* shown nor copied.
WantedInv ==
  /\ rows \cup wanted \subseteq dumped \cup {c \in KernelCores : First(c)}
  /\ \A c \in wanted :
       IF c \in KernelCores THEN Cli!Kernel ELSE ~Cli!Kernel /\ Cli!Fits(c)

\* What is left to copy, and what is on the server. A core that the list did
\* not have was not in the folder then, and never comes back.
CopyInv ==
  /\ cpc \in {"idle", "check"} => server = <<>>
  /\ cpc = "file" /\ request # Cli!Show =>
       /\ files = IF Cli!Kernel THEN KernelCores ELSE files \ KernelCores
       /\ Cli!Kernel => server = <<>>
       /\ ~Cli!Kernel => \A c \in files : Cli!Fits(c)
       /\ \A n \in DOMAIN server : n = Cli!FileName(server[n])
       /\ ~Cli!Kernel => \A n \in DOMAIN server : Cli!Fits(server[n])
       /\ \A c \in wanted \cap (folder \cup KernelCores) :
            c \in files \/ Cli!Copied(c)
  /\ cpc = "file" /\ request = Cli!Show => files \subseteq dumped
  /\ request = Cli!Show => wanted = {}

CoresInv == WantedInv /\ CopyInv /\ CopyIsComplete
=============================================================================
