------------------------------- MODULE Vtysh -------------------------------
(***************************************************************************)
(* A session of vtysh. cli_post_init of src/cli/supportability_vty.c        *)
(* installs the commands, some with words that it finds in files and        *)
(* directories. Then the user types one after the other: `show tech' and   *)
(* `show tech list' of src/cli/show_tech_vty.c, which load the             *)
(* configuration of ShowTechConfig when it is needed and walk through it,  *)
(* and the commands of Vlog. How show tech executes a command is in        *)
(* ShowTech.                                                               *)
(***************************************************************************)
EXTENDS ShowTechConfig

CONSTANTS
  Talkative,   \* files: with these the user types the commands of Vlog, with
               \* others those of show tech; they have nothing in common
  Daemons, Levels, Default, Mappings, Commands, Blank, MaxTroubles

\* Every feature of the shipped mapping has a name of its own.
ASSUME MappingsAssumption ==
  \A head \in Mappings :
    /\ head \in Seq(ToSet(head))
    /\ \A i \in DOMAIN head : head[i].daemons \in Seq(Daemons)
    /\ \A i, j \in DOMAIN head : head[i].name = head[j].name => i = j

ASSUME CommandsAssumption ==
  \A c \in Commands :
    /\ c.verb \in {"show", "set"} /\ c.of \in {"daemon", "feature", "all"}
    /\ c.of = "daemon" => c.name \in Daemons

VARIABLES
  step,        \* of cli_post_init, or "prompt", or within a command
  installed,   \* commands, "vlog" for those of Vlog
  offered,     \* the words of `show tech FEATURE'
  request,     \* what show tech is to do
  iter,        \* the feature it is at ...
  iter_sub,    \* ... the sub feature ...
  iter_cli,    \* ... and the command
  executed,    \* what it has executed, with its place, or listed
  outcome

VARIABLES level, health, feature_head, flag, pc, command, iter_feature, iter_daemon, link, reply,
          failed, rows, return_val, asked, answers, known, troubles

V == INSTANCE Vlog

tech == <<step, installed, offered, request, iter, iter_sub, iter_cli,
          executed, outcome>>
vlog == <<level, health, feature_head, flag, pc, command, iter_feature, iter_daemon, link, reply,
          failed, rows, return_val, asked, answers, known, troubles>>

NoRequest == [kind |-> "none", feature |-> None]

VtyshInit ==
  /\ Init /\ V!VlogInit
  /\ step = "events" /\ installed = {} /\ offered = {}
  /\ request = NoRequest /\ iter = 1 /\ iter_sub = 1 /\ iter_cli = 1
  /\ executed = <<>> /\ outcome = None

-----------------------------------------------------------------------------
(* cli_post_init. A step that fails ends it: what follows is not installed. *)

walk == <<request, iter, iter_sub, iter_cli, executed, outcome>>

\* install_show_evnts.
InstallEvents ==
  /\ step = "events"
  /\ step' \in {"tech", "prompt"}
  /\ UNCHANGED <<installed, offered, walk>>

\* install_show_tech reads the file on its own, as far as it is YAML, and
\* whatever comes after "feature_name" is a word of the command: n scalars in
\* front of the features, or all of them and the names of n features.
NamesInFront(n) ==
  {file.stray[i] : i \in {j \in 2..n : file.stray[j - 1] = "feature_name"}}
Names(n) == {file.doc[i].name : i \in 1..n}

InstallShowTech ==
  /\ step = "tech"
  /\ \/ \E n \in 0..Len(file.stray) : offered' = NamesInFront(n)
     \/ \E n \in 0..Len(file.doc) :
          offered' = NamesInFront(Len(file.stray)) \cup Names(n)
  /\ IF offered' = {}
       THEN step' = "prompt" /\ installed' = {"show tech"}
       ELSE step' = "rest" /\ installed' = {"show tech", "show tech FEATURE"}
  /\ UNCHANGED walk

\* install_diag_dump only fails without memory; install_show_vlog needs a daemon
\* that runs.
InstallShowVlog ==
  /\ step = "rest" /\ step' \in {"more", "prompt"}
  /\ UNCHANGED <<installed, offered, walk>>

\* The commands without such words.
InstallRest ==
  /\ step = "more" /\ step' = "prompt"
  /\ installed' = installed \cup {"show tech list", "vlog"}
  /\ UNCHANGED <<offered, walk>>

-----------------------------------------------------------------------------
(* cli_show_tech and cli_show_tech_list.                                   *)

\* What there is in memory of a list of features: the names and commands that were
\* copied, and NULL for the others.
Copied(value, place) == IF place \in nulls THEN None ELSE value
CopiedSub(s, i, j) ==
  LET end == FlagsEnd(file.doc[i].subs[j]) + 1
  IN  [s EXCEPT !.cmds =
         [k \in DOMAIN @ |-> Copied(@[k], Place(i, j, 0, end + k))]]
CopiedFeature(f, i) ==
  [f EXCEPT !.name = Copied(@, Place(i, 0, 0, 5)),
            !.subs = [j \in DOMAIN @ |-> CopiedSub(@[j], i, j)]]
AsKept(list) == [i \in DOMAIN list |-> CopiedFeature(list[i], i)]
Stored == AsKept(features)

Type(r) ==
  /\ step = "prompt" /\ file \notin Talkative
  /\ \/ r.kind = "all" /\ "show tech" \in installed
     \/ r.kind = "list" /\ "show tech list" \in installed
     \/ r.kind = "feature" /\ "show tech FEATURE" \in installed
  /\ step' = "get" /\ request' = r
  /\ UNCHANGED <<installed, offered, iter, iter_sub, iter_cli, executed, outcome>>

\* get_showtech_config.
Cached ==
  /\ step = "get" /\ features # <<>>
  /\ step' = "got"
  /\ UNCHANGED <<installed, offered, walk>>

Finish(result) ==
  /\ step' = "done" /\ outcome' = result
  /\ UNCHANGED <<installed, offered, request>>

Got ==
  /\ step = "got" /\ ~parsing
  /\ IF features = <<>>
       THEN Finish("no configuration") /\ UNCHANGED executed
     ELSE IF request.kind = "list"
       THEN /\ Finish("completed")
            /\ executed' = [i \in DOMAIN Stored |-> Stored[i].name]
     ELSE /\ step' = "walk"
          /\ UNCHANGED <<installed, offered, request, executed, outcome>>
  /\ UNCHANGED <<iter, iter_sub, iter_cli>>

\* NULL is no name that is asked for.
InFeature == step = "walk" /\ iter <= Len(Stored)
Selected  == request.kind = "all" \/ Stored[iter].name = request.feature
InSub     == InFeature /\ Selected /\ iter_sub <= Len(Stored[iter].subs)
Walking   == UNCHANGED <<step, installed, offered, request, outcome>>

\* The command is executed, and may fail, as NULL does at once. Then the user may
\* have interrupted it.
Execute ==
  LET s == Stored[iter].subs[iter_sub]
  IN  /\ InSub /\ iter_cli <= Len(s.cmds)
      /\ executed' = Append(executed, [at |-> <<iter, iter_sub, iter_cli>>,
                                       command |-> s.cmds[iter_cli]])
      /\ iter_cli' = iter_cli + 1
      /\ \/ Walking
         \/ Finish("interrupted")
      /\ UNCHANGED <<iter, iter_sub>>

Bug_NextSub ==
  /\ InSub /\ iter_cli > Len(Stored[iter].subs[iter_sub].cmds)
  /\ iter_sub' = iter_sub + 1
  /\ Walking /\ UNCHANGED <<iter, iter_cli, executed>>
NextSub ==
  /\ InSub /\ iter_cli > Len(Stored[iter].subs[iter_sub].cmds)
  /\ iter_sub' = iter_sub + 1 /\ iter_cli' = 1
  /\ Walking /\ UNCHANGED <<iter, executed>>

\* On to the next feature, unless this is the one that was asked for.
NextFeature ==
  /\ InFeature /\ ~InSub
  /\ IF request.kind = "feature" /\ Selected
       THEN Finish("completed") /\ UNCHANGED <<iter, iter_sub, iter_cli>>
       ELSE iter' = iter + 1 /\ iter_sub' = 1 /\ iter_cli' = 1 /\ Walking
  /\ UNCHANGED executed

WalkEnd ==
  /\ step = "walk" /\ iter > Len(Stored)
  /\ Finish(IF request.kind = "all" THEN "completed" ELSE "not supported")
  /\ UNCHANGED <<iter, iter_sub, iter_cli, executed>>

Prompt ==
  /\ step = "done"
  /\ step' = "prompt" /\ request' = NoRequest
  /\ iter' = 1 /\ iter_sub' = 1 /\ iter_cli' = 1
  /\ executed' = <<>> /\ outcome' = None
  /\ UNCHANGED <<installed, offered>>

-----------------------------------------------------------------------------

Requests ==
  {[kind |-> k, feature |-> None] : k \in {"all", "list"}}
    \cup {[kind |-> "feature", feature |-> f] : f \in offered}

TechStep ==
  \/ InstallEvents \/ InstallShowTech \/ InstallShowVlog \/ InstallRest
  \/ \E r \in Requests : Type(r)
  \/ Cached \/ Got \/ Execute \/ NextSub \/ NextFeature \/ WalkEnd \/ Prompt

Load ==
  /\ step = "get" /\ GetConfig
  /\ step' = "got"
  /\ UNCHANGED <<installed, offered, walk>>

Parse == parsing /\ Next /\ UNCHANGED tech

VtyshNext ==
  \/ TechStep /\ UNCHANGED <<vars, vlog>>
  \/ (Load \/ Parse) /\ UNCHANGED vlog
  \/ /\ V!VlogNext /\ UNCHANGED <<vars, tech>>
     /\ step = "prompt" /\ "vlog" \in installed /\ file \in Talkative

\* A daemon answers unless it hangs. Nobody has to type a command.
VtyshSpec ==
  /\ VtyshInit /\ [][VtyshNext]_<<vars, tech, vlog>>
  /\ WF_<<vars, tech, vlog>>(V!Cli /\ UNCHANGED <<vars, tech>>)
  /\ WF_<<vars, tech, vlog>>(V!Serve /\ UNCHANGED <<vars, tech>>)

-----------------------------------------------------------------------------

LevelsAreShown == V!LevelsAreShown
AllAreAsked == V!AllAreAsked
CommandReturns == V!CommandReturns
AskedInv == V!AskedInv
VlogInv == V!VlogInv

\* The features of the file, with NULL where the copy has failed.
Configured == AsKept(file.doc)

\* The place of a command in the file under a feature that a request is for: the
\* first with the name.
IsWanted(i, j, k) ==
  /\ i \in DOMAIN Configured /\ j \in DOMAIN Configured[i].subs
  /\ k \in DOMAIN Configured[i].subs[j].cmds
  /\ request.kind = "feature" =>
       /\ Configured[i].name = request.feature
       /\ \A h \in 1..i - 1 : Configured[h].name # request.feature

\* The order of the file.
Before(p, q) ==
  \/ p[1] < q[1]
  \/ p[1] = q[1] /\ (p[2] < q[2] \/ (p[2] = q[2] /\ p[3] < q[3]))

\* show tech executes the commands that the file has for it, all of them, each
\* once, in the order of the file, up to the one during which it is interrupted:
\* however often the configuration had to be read before. A feature that was
\* offered when vtysh started is never called unsupported. The exception is a
\* string of which the copy failed: in the place of such a command NULL is
\* executed, and a feature without its name is not found.
ExecutedInOrder ==
  /\ \A n \in DOMAIN executed :
       LET p == executed[n].at
       IN  /\ IsWanted(p[1], p[2], p[3])
           /\ executed[n].command = Configured[p[1]].subs[p[2]].cmds[p[3]]
  /\ \A m, n \in DOMAIN executed : m < n => Before(executed[m].at, executed[n].at)

\* What is before p has been executed.
ExecutedBefore(p) ==
  \A i \in DOMAIN Configured : \A j \in DOMAIN Configured[i].subs :
    \A k \in DOMAIN Configured[i].subs[j].cmds :
      IsWanted(i, j, k) /\ Before(<<i, j, k>>, p)
        => \E n \in DOMAIN executed : executed[n].at = <<i, j, k>>

ExecutedIsFile ==
  step = "done" =>
    /\ outcome \in {"completed", "interrupted"} =>
         IF request.kind = "list"
           THEN executed = [i \in DOMAIN Configured |-> Configured[i].name]
         ELSE /\ ExecutedInOrder
              /\ IF outcome = "completed"
                   THEN ExecutedBefore(<<Len(Configured) + 1, 1, 1>>)
                   ELSE executed # <<>> /\ ExecutedBefore(Last(executed).at)
    /\ outcome = "not supported" =>
         \E i \in DOMAIN Configured :
           file.doc[i].name = request.feature /\ Configured[i].name = None

-----------------------------------------------------------------------------
(* The inductive invariant of ExecutedIsFile.                              *)

\* In the walk what is wanted before the cursors has been executed, and nothing
\* else, and a feature that is asked for has not been passed.
WalkOK ==
  /\ features # <<>> /\ request.kind # "list"
  /\ {iter, iter_sub, iter_cli} \subseteq Nat \ {0}
  /\ executed \in Seq([at : Nat \X Nat \X Nat, command : STRING \cup {None}])
  /\ ExecutedInOrder
  /\ ExecutedBefore(<<iter, iter_sub, iter_cli>>)
  /\ \A n \in DOMAIN executed : Before(executed[n].at, <<iter, iter_sub, iter_cli>>)
  /\ request.kind = "feature" =>
       \A h \in DOMAIN Configured : h < iter => Configured[h].name # request.feature

\* What can be asked for is in the file, and the walk begins at its beginning.
WalkInv ==
  /\ offered \subseteq NamesInFront(Len(file.stray)) \cup Names(Len(file.doc))
  /\ parsing => step = "got"
  /\ step \in {"get", "got", "walk", "done"} => request \in Requests
  /\ step \notin {"walk", "done"} =>
       iter = 1 /\ iter_sub = 1 /\ iter_cli = 1 /\ executed = <<>>
  /\ step = "walk" => WalkOK
  /\ ExecutedIsFile
=============================================================================
