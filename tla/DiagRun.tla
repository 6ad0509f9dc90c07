------------------------------ MODULE DiagRun ------------------------------
(***************************************************************************)
(* What `diag-dump' promises, without threads, locks, connections and      *)
(* signals: the daemons of the feature are asked in their order, each at   *)
(* most once; a daemon has answered when its section is written to its     *)
(* end; the run may stop at any point, but says that the diagnostics are   *)
(* captured only when every daemon has answered, and that some are not     *)
(* only when every daemon was asked. A section in a file may be cut by a   *)
(* disk that fills up: captured is not said as long as it is full.         *)
(***************************************************************************)
EXTENDS Naturals

VARIABLES
  phase,      \* no run, in one, at its end
  wanted,     \* the daemons of the feature that support diag-dump
  cur,        \* the daemon asked last, 0 before the first
  dest,       \* the output: the terminal or a file
  written,    \* daemons whose section is written to its end
  cut,        \* a section is cut, and the disk full since then or freed
  answered,   \* daemons that have answered
  message     \* the last line

rvars == <<phase, wanted, cur, dest, written, cut, answered, message>>

RunInit ==
  /\ phase = "idle" /\ wanted = {} /\ cur = 0
  /\ dest = "terminal" /\ written = {} /\ cut = "none"
  /\ answered = {} /\ message = "none"

Start ==
  /\ phase = "idle"
  /\ phase' = "running" /\ wanted' \in SUBSET Nat
  /\ dest' \in {"terminal", "file"}
  /\ UNCHANGED <<cur, written, cut, answered, message>>

IsNext(d) ==
  d \in wanted /\ d > cur /\ \A other \in wanted : other > cur => d <= other

Ask(d) ==
  /\ phase = "running" /\ IsNext(d)
  /\ cur' = d
  /\ UNCHANGED <<phase, wanted, dest, written, cut, answered, message>>

\* Some of the section, up to its end or not, and cut or not.
WriteSection ==
  /\ phase = "running" /\ cur \in wanted
  /\ written' \in {written, written \cup {cur}}
  /\ \/ UNCHANGED cut
     \/ dest = "file" /\ cut = "none" /\ cut' = "full"
  /\ UNCHANGED <<phase, wanted, cur, dest, answered, message>>

\* The disk has space again.
Free ==
  /\ phase # "idle" /\ cut = "full"
  /\ cut' = "freed"
  /\ UNCHANGED <<phase, wanted, cur, dest, written, answered, message>>

Answer ==
  /\ phase = "running" /\ cur \in written
  /\ answered' = answered \cup {cur}
  /\ UNCHANGED <<phase, wanted, cur, dest, written, cut, message>>

\* The user or a write that fails ends the run, before or after it has gone on
\* to the next daemon.
Stop ==
  /\ phase = "running"
  /\ phase' = "over"
  /\ UNCHANGED cur \/ IsNext(cur')
  /\ UNCHANGED <<wanted, dest, written, cut, answered, message>>

Conclude(m) ==
  /\ phase = "running" /\ \A d \in wanted : d <= cur
  /\ m = "captured" => answered = wanted /\ cut # "full"
  /\ phase' = "over" /\ message' = m
  /\ UNCHANGED <<wanted, cur, dest, written, cut, answered>>

Return ==
  /\ phase = "over"
  /\ phase' = "idle" /\ wanted' = {} /\ cur' = 0
  /\ dest' = "terminal" /\ written' = {} /\ cut' = "none"
  /\ answered' = {} /\ message' = "none"

RunNext ==
  \/ Start \/ (\E d \in wanted : Ask(d)) \/ WriteSection \/ Free \/ Answer
  \/ Stop \/ (\E m \in {"captured", "failed"} : Conclude(m)) \/ Return

RunSpec == RunInit /\ [][RunNext]_rvars
=============================================================================
