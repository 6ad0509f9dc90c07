--------------------------- MODULE MCSyslogRemote ---------------------------
(***************************************************************************)
(* Commands with which TLC checks SyslogRemote and Syslog: one host in     *)
(* every form that the matching rules tell apart, two others, and one that *)
(* is refused.                                                             *)
(***************************************************************************)
EXTENDS SyslogRemote, TLC

Arg(host, transport, port, severity) ==
  [host |-> host, transport |-> transport, port |-> port,
   severity |-> severity]

\* Sessions run the same code; the order of their commands is left.
Symmetry == Permutations(Sessions)

\* Sets of arguments for the cfgs.
MC_Matching ==
  {Arg("h1", NotGiven, NotGiven, NotGiven), Arg("h1", "udp", NotGiven, NotGiven),
   Arg("h1", "tcp", NotGiven, NotGiven), Arg("h1", "udp", 514, NotGiven),
   Arg("h1", "udp", 600, NotGiven), Arg("h1", NotGiven, NotGiven, "info"),
   Arg("h1", NotGiven, NotGiven, "err"), Arg("h1", "tcp", 1470, "info"),
   Arg("h2", NotGiven, NotGiven, NotGiven), Arg("bad", NotGiven, NotGiven, NotGiven)}

MC_Sessions ==
  {Arg("h1", NotGiven, NotGiven, NotGiven), Arg("h1", "tcp", NotGiven, NotGiven),
   Arg("h1", "udp", 600, NotGiven), Arg("h1", NotGiven, NotGiven, "err"),
   Arg("h2", NotGiven, NotGiven, NotGiven), Arg("h3", "udp", 600, "err"),
   Arg("bad", NotGiven, NotGiven, NotGiven)}

MC_Daemon ==
  {Arg("h1", "tcp", NotGiven, NotGiven), Arg("h2", NotGiven, NotGiven, "err")}
=============================================================================
