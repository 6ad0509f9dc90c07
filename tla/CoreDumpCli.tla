---------------------------- MODULE CoreDumpCli ----------------------------
(***************************************************************************)
(* `copy core-dump' and `show core-dump' of vtysh,                         *)
(* src/cli/copy_core_dump_vty.c, show_core_dump_vty.c and core_dump.c. Both *)
(* take the list of core files once and then work through it, while core   *)
(* files come and go.                                                      *)
(*                                                                         *)
(* The name of a core file is core.DAEMON.UID.BOOT.PID.TIME, with .xz      *)
(* behind it if it is compressed. Kernel cores are in a folder of their    *)
(* own, which only changes while the switch is down.                       *)
(***************************************************************************)
EXTENDS Naturals, SequencesExt

CONSTANTS
  Sorted,         \* the names of all core files in the order of glob
  KernelCores,    \* those of the kernel
  NameOf,         \* of others: daemon, and the fields after it as digit strings
  Daemons,        \* daemon names that a user may type, with and
  FileNames,      \* destination names, or NotGiven
  NotGiven        \* an optional parameter

VARIABLES
  folder,    \* the core files in the folder, as in CoreDump
  cpc,       \* where the command is
  request,   \* its parameters
  files,     \* globbuf: the files the loop has still to take
  server,    \* what this command has put on the server: core by file name
  rows,      \* the cores that `show core-dump' has displayed
  return_val,
  wanted     \* history: the cores the user wants

cvars == <<cpc, request, files, server, rows, return_val, wanted>>

Show == [daemon |-> NotGiven, instance |-> NotGiven, file |-> NotGiven]

CopyInit ==
  /\ cpc = "idle" /\ request = Show /\ files = {}
  /\ server = <<>> /\ rows = {} /\ return_val = "none" /\ wanted = {}

Kernel == request.daemon = "kernel"

\* The file of a list that the loop takes.
Place(c) == CHOOSE i \in DOMAIN Sorted : Sorted[i] = c
IsFirst(c, cores) == c \in cores /\ \A other \in cores : Place(c) <= Place(other)

\* The pattern of get_file_list, core.DAEMON.*INSTANCE.*: the instance may end
\* any field that a dot follows, not only the process id.
EndsField(c, instance) ==
  \E i \in DOMAIN NameOf[c].fields : IsSuffix(instance, NameOf[c].fields[i])

Fits(c) ==
  /\ request.daemon \in {NotGiven, NameOf[c].daemon}
  /\ request.instance = NotGiven \/ EndsField(c, request.instance)

\* extract_info: daemon and process id, from the attributes of the file or, if
\* it has none or is gone by now, from its name.
Row(c) ==
  IF c \in KernelCores THEN [daemon |-> "kernel", instance |-> NotGiven]
  ELSE [daemon |-> NameOf[c].daemon, instance |-> NameOf[c].fields[3]]

-----------------------------------------------------------------------------
(* What the user types.                                                    *)

Type(r, cores) ==
  /\ cpc = "idle"
  /\ cpc' = "check" /\ request' = r /\ wanted' = cores /\ rows' = {}
  /\ UNCHANGED <<folder, files, server, return_val>>

TypeShow == Type(Show, {})

\* All the cores of a daemon, without a destination name.
TypeCopy(d) ==
  Type([daemon |-> d, instance |-> NotGiven, file |-> NotGiven],
       {c \in folder : NameOf[c].daemon = d})

\* One that has been listed.
TypeInstance(c, f) ==
  /\ c \in rows
  /\ Type([daemon |-> Row(c).daemon, instance |-> Row(c).instance,
           file |-> f], {c})

-----------------------------------------------------------------------------

Finish(result) == cpc' = "done" /\ return_val' = result

\* A parameter does not match its expression, the script of the protocol cannot
\* be executed, an expression of `show' is not compiled; or glob fails.
Refuse ==
  /\ cpc = "check"
  /\ Finish("warning")
  /\ UNCHANGED <<folder, request, files, server, rows, wanted>>

\* get_file_list. To find nothing is no failure.
Listed == IF Kernel THEN KernelCores ELSE {c \in folder : Fits(c)}

List ==
  /\ cpc = "check"
  /\ files' = Listed
  /\ IF Listed = {} /\ request # Show
       THEN Finish("success") ELSE cpc' = "file" /\ UNCHANGED return_val
  /\ UNCHANGED <<folder, request, server, rows, wanted>>

\* cli_copy_core_dump: the destination name is used for every file, and of the
\* kernel cores only the first is copied.
FileName(c) == IF request.file = NotGiven THEN c ELSE request.file

\* The loop goes on after this file, or ends.
Advance(c) ==
  IF files = {c} \/ Kernel THEN Finish("success") /\ UNCHANGED files
  ELSE files' = files \ {c} /\ UNCHANGED <<cpc, return_val>>

\* execute_command runs the script that puts the file on the server, over one
\* of that name.
Put(c) ==
  /\ cpc = "file" /\ request # Show
  /\ IsFirst(c, files) /\ c \in folder \cup KernelCores
  /\ server' = [n \in DOMAIN server \cup {FileName(c)} |->
                  IF n = FileName(c) THEN c ELSE server[n]]
  /\ Advance(c)
  /\ UNCHANGED <<folder, request, rows, wanted>>

\* The file is gone, or the server cannot be reached: the others are left.
Bug_PutFails ==
  /\ cpc = "file" /\ request # Show
  /\ \E c \in files : IsFirst(c, files) /\ Advance(c)
  /\ UNCHANGED <<folder, request, server, rows, wanted>>
PutFails ==
  /\ cpc = "file" /\ request # Show
  /\ Finish("warning")
  /\ UNCHANGED <<folder, request, files, server, rows, wanted>>

\* cli_show_core_dump: a row for each.
ShowRow(c) ==
  /\ cpc = "file" /\ request = Show
  /\ IsFirst(c, files)
  /\ rows' = rows \cup {c} /\ files' = files \ {c}
  /\ UNCHANGED <<folder, cpc, request, server, return_val, wanted>>

\* The first kernel core ends the list.
ShowKernel ==
  /\ cpc = "file" /\ request = Show /\ files = {}
  /\ rows' = rows \cup {c \in KernelCores : IsFirst(c, KernelCores)}
  /\ Finish("success")
  /\ UNCHANGED <<folder, request, files, server, wanted>>

\* The second glob fails.
ShowFails ==
  /\ cpc = "file" /\ request = Show /\ files = {}
  /\ Finish("warning")
  /\ UNCHANGED <<folder, request, files, server, rows, wanted>>

Return ==
  /\ cpc = "done"
  /\ cpc' = "idle" /\ request' = Show /\ files' = {}
  /\ server' = <<>> /\ return_val' = "none" /\ wanted' = {}
  /\ UNCHANGED <<folder, rows>>

CopyNext ==
  \/ TypeShow \/ (\E d \in Daemons : TypeCopy(d))
  \/ \E c \in rows, f \in FileNames : TypeInstance(c, f)
  \/ Refuse \/ List \/ PutFails
  \/ \E c \in files : Put(c) \/ ShowRow(c)
  \/ ShowKernel \/ ShowFails \/ Return

-----------------------------------------------------------------------------

\* `copy core-dump' succeeds only if every core that the user wants, the one
\* with a process id read from `show core-dump' or all of a daemon's, is on the
\* server under its own name if it is still there: whatever came, went or could
\* not be sent meanwhile. With a destination name one core is there, the one
\* wanted or another of the daemon that the instance fits as well.
Copied(c) ==
  IF request.file = NotGiven THEN c \in DOMAIN server /\ server[c] = c
  ELSE /\ DOMAIN server = {request.file}
       /\ LET copied == server[request.file]
          IN  copied = c \/ (c \notin KernelCores /\ Fits(copied))

CopyIsComplete ==
  cpc = "done" /\ return_val = "success" =>
    \A c \in wanted \cap (folder \cup KernelCores) : Copied(c)
=============================================================================
