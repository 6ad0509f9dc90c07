------------------------- MODULE ShowTechRefinement -------------------------
(***************************************************************************)
(* ShowTech implements ShowTechRun.                                        *)
(***************************************************************************)
EXTENDS ShowTech

Phase ==
  CASE pc = "idle" -> "idle"
    [] pc \in {"config", "loop", "create"} -> "ready"
    [] pc = "after" -> "judged"
    [] pc \in {"report", "exit"} -> "stopped"
    [] OTHER -> "running"

Run == INSTANCE ShowTechRun WITH
         phase <- Phase, cmd <- cur, verdict <- result, listed <- failed

\* Every behaviour of the threads, the locks and the signal handlers is, seen
\* from outside, a run as ShowTechRun describes it.
ImplementsRun == Run!Spec

=============================================================================
