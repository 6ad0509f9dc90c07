---------------------------- MODULE ShowTechRun ----------------------------
(***************************************************************************)
(* What `show tech' promises, without threads, locks and signals: it       *)
(* executes the commands of its configuration in their order, one at a     *)
(* time, each at most once, and gives each one verdict; it may cancel the  *)
(* command being executed, which is then a failure; a success is the       *)
(* command's own; every failure of a run is listed, and the run may stop   *)
(* before the last command.                                                *)
(***************************************************************************)
EXTENDS Naturals

CONSTANT NCmds

VARIABLES
  phase,      \* no run, between two commands, in one, at its end, at the
              \* end of the run
  cmd,        \* the command being executed or the next one
  outcome,    \* what the command itself returned
  cancelled,  \* the command was cancelled
  verdict,    \* what show tech says of it
  listed      \* the failures of this run

vars == <<phase, cmd, outcome, cancelled, verdict, listed>>

Init ==
  /\ phase = "idle" /\ cmd = 0 /\ outcome = "none" /\ cancelled = FALSE
  /\ verdict = "none" /\ listed = {}

Start ==
  /\ phase = "idle"
  /\ phase' = "ready" /\ cmd' = 1 /\ listed' = {}
  /\ UNCHANGED <<outcome, cancelled, verdict>>

Begin ==
  /\ phase = "ready" /\ cmd \in 1..NCmds
  /\ phase' = "running" /\ outcome' = "none" /\ cancelled' = FALSE
  /\ UNCHANGED <<cmd, verdict, listed>>

\* The command could not be started.
Refuse ==
  /\ phase = "ready" /\ cmd \in 1..NCmds
  /\ phase' = "judged" /\ verdict' = "warning"
  /\ outcome' = "none" /\ cancelled' = FALSE
  /\ UNCHANGED <<cmd, listed>>

Perform(o) ==
  /\ phase = "running" /\ outcome = "none"
  /\ outcome' = o
  /\ UNCHANGED <<phase, cmd, cancelled, verdict, listed>>

Cancel ==
  /\ phase = "running"
  /\ cancelled' = TRUE
  /\ UNCHANGED <<phase, cmd, outcome, verdict, listed>>

Judge(v) ==
  /\ phase = "running"
  /\ v = "success" => outcome = "ok" /\ ~cancelled
  /\ phase' = "judged" /\ verdict' = v
  /\ UNCHANGED <<cmd, outcome, cancelled, listed>>

Proceed ==
  /\ phase = "judged"
  /\ phase' = "ready" /\ cmd' = cmd + 1
  /\ listed' = IF verdict = "warning" THEN listed \cup {cmd} ELSE listed
  /\ UNCHANGED <<outcome, cancelled, verdict>>

Stop ==
  /\ phase \in {"ready", "judged"}
  /\ phase' = "stopped"
  /\ UNCHANGED <<cmd, outcome, cancelled, verdict, listed>>

Close ==
  /\ phase = "stopped"
  /\ phase' = "idle"
  /\ UNCHANGED <<cmd, outcome, cancelled, verdict, listed>>

Next ==
  \/ Start \/ Begin \/ Refuse \/ Cancel \/ Proceed \/ Stop \/ Close
  \/ \E o \in {"ok", "failed"} : Perform(o)
  \/ \E v \in {"success", "warning"} : Judge(v)

Spec == Init /\ [][Next]_vars

=============================================================================
