-------------------------------- MODULE Vlog --------------------------------
(***************************************************************************)
(* The log levels of the daemons, src/cli/show_vlog_vty.c: `vlog' sets them *)
(* for a daemon or the daemons of a feature, `show vlog config' displays   *)
(* them. vtysh connects to one daemon after the other and waits for its    *)
(* answer without a timeout. Meanwhile daemons stop, start and hang, and   *)
(* others change the levels.                                               *)
(*                                                                         *)
(* The pair of levels is that of syslog and that of the file.              *)
(***************************************************************************)
EXTENDS Naturals, SequencesExt

CONSTANTS
  Daemons,
  Levels,
  Default,       \* the levels that a daemon starts with
  Mappings,      \* what get_feature_mapping may return: [name, daemons]
  Commands,      \* [verb, of, name, dest, to]
  Blank,         \* a column that is left empty, and unknown levels
  MaxTroubles    \* how often daemons stop or hang and others set levels

VARIABLES
  level,         \* the levels of each daemon
  health,        \* "up", "down" or "hung"
  feature_head,  \* <<>> is NULL, and then `initialized' is 0
  flag,          \* static: the feature has a row
  pc,
  command,
  iter_feature,  \* the feature that the loop is at ...
  iter_daemon,   \* ... and the daemon, of the feature or the one named
  link,          \* the daemon that vtysh is connected to has not stopped
  reply,
  failed,        \* rc of the last daemon
  rows,          \* what has been displayed
  return_val,
  asked,         \* history: the places in the loop of the daemons asked
  answers,       \* history: the daemons that have answered
  known,         \* history: levels set from here and not changed since
  troubles

daemons == <<level, health, known, troubles>>
static  == <<feature_head, flag>>
local   == <<pc, command, iter_feature, iter_daemon, link, reply, failed, rows,
             return_val, asked, answers>>

NoCommand == [verb |-> Blank, of |-> Blank, name |-> Blank, dest |-> Blank,
              to |-> Blank]
NoReply == <<>>

VlogInit ==
  /\ level = [d \in Daemons |-> Default]
  /\ health = [d \in Daemons |-> "up"]
  /\ feature_head = <<>> /\ flag = FALSE
  /\ pc = "idle" /\ command = NoCommand /\ iter_feature = 1 /\ iter_daemon = 1
  /\ link = FALSE /\ reply = NoReply /\ failed = FALSE /\ rows = <<>> /\ return_val = Blank
  /\ asked = <<>> /\ answers = <<>>
  /\ known = [d \in Daemons |-> <<Blank, Blank>>] /\ troubles = 0

-----------------------------------------------------------------------------
(* The commands.                                                           *)

Type(c) ==
  /\ pc = "idle"
  /\ command' = c /\ pc' = IF c.of = "daemon" THEN "ask" ELSE "map"
  /\ UNCHANGED <<daemons, static, iter_feature, iter_daemon, link, reply, failed,
                 rows, return_val, asked, answers>>

Finish(result) == pc' = "done" /\ return_val' = result

\* The loop begins at the first feature with the name, or at the first of all.
Begins(head, i) ==
  \/ command.of = "all" /\ i = 1
  \/ /\ command.of = "feature" /\ head[i].name = command.name
     /\ \A j \in 1..i - 1 : head[j].name # command.name

\* get_feature_mapping is called until it returns something.
Map ==
  /\ pc = "map"
  /\ \/ feature_head = <<>> /\ feature_head' \in Mappings
     \/ feature_head # <<>> /\ UNCHANGED feature_head
  /\ \/ \E i \in DOMAIN feature_head' :
          /\ Begins(feature_head', i)
          /\ pc' = "ask" /\ iter_feature' = i /\ UNCHANGED return_val
     \/ /\ \A i \in DOMAIN feature_head' : ~Begins(feature_head', i)
        /\ Finish("warning") /\ UNCHANGED iter_feature
  /\ UNCHANGED <<daemons, flag, command, iter_daemon, link, reply, failed, rows,
                 asked, answers>>

Feature == feature_head[iter_feature]

\* There is a daemon to ask, of this feature or the one that was named.
Bug_Asking ==
  /\ pc = "ask"
  /\ IF command.of = "daemon" THEN iter_daemon = 1
     ELSE iter_daemon <= Len(Feature.daemons) /\ ~failed
Asking ==
  /\ pc = "ask"
  /\ IF command.of = "daemon" THEN iter_daemon = 1
     ELSE iter_daemon <= Len(Feature.daemons)

\* At the end of a feature `show' resets the flag.
Bug_Rewound == flag
Rewound == flag /\ command.verb = "set"

EndOfFeature ==
  /\ pc = "ask" /\ ~Asking /\ command.of # "daemon"
  /\ flag' = Rewound
  /\ IF command.of = "all" /\ iter_feature < Len(feature_head)
       THEN /\ iter_feature' = iter_feature + 1 /\ iter_daemon' = 1
            /\ UNCHANGED <<pc, return_val>>
       ELSE Finish("success") /\ UNCHANGED <<iter_feature, iter_daemon>>
  /\ UNCHANGED <<daemons, feature_head, command, link, reply, failed, rows,
                 asked, answers>>

-----------------------------------------------------------------------------
(* vtysh_vlog_interface_daemon.                                            *)

Daemon ==
  IF command.of = "daemon" THEN command.name ELSE Feature.daemons[iter_daemon]

\* connect_to_daemon.
Connect ==
  /\ Asking /\ health[Daemon] # "down"
  /\ pc' = "wait" /\ link' = TRUE
  /\ UNCHANGED <<daemons, static, command, iter_feature, iter_daemon, reply,
                 failed, rows, return_val, asked, answers>>

\* The destination of vlog/set: all is "any" there.
Destination == IF command.dest = "all" THEN "any" ELSE command.dest

With(levels, dest, to) ==
  CASE dest = "syslog" -> <<to, levels[2]>>
    [] dest = "file" -> <<levels[1], to>>
    [] dest = "any" -> <<to, to>>
    [] OTHER -> levels

\* The daemon carries out vlog/list or vlog/set.
Serve ==
  /\ pc = "wait" /\ link /\ health[Daemon] = "up"
  /\ pc' = "reply"
  /\ IF command.verb = "set"
       THEN /\ level' = [level EXCEPT ![Daemon] = With(@, Destination, command.to)]
            /\ known' = [known EXCEPT ![Daemon] =
                           IF command.dest = "all" THEN <<command.to, command.to>>
                           ELSE With(@, command.dest, command.to)]
            /\ reply' = NoReply
       ELSE reply' = level[Daemon] /\ UNCHANGED <<level, known>>
  /\ UNCHANGED <<health, troubles, static, command, iter_feature, iter_daemon,
                 link, failed, rows, return_val, asked, answers>>

\* The row for the result: a feature has one, of the first daemon that has
\* answered; `show vlog config' names it in the first of its rows.
Row ==
  CASE command.of = "daemon" ->
         <<[feature |-> Blank, daemon |-> Daemon, levels |-> reply]>>
    [] command.of = "feature" /\ ~flag ->
         <<[feature |-> Feature.name, daemon |-> Blank, levels |-> reply]>>
    [] command.of = "feature" /\ flag -> <<>>
    [] OTHER ->
         <<[feature |-> IF flag THEN Blank ELSE Feature.name, daemon |-> Daemon,
            levels |-> reply]>>

\* The daemon asked, and the feature that it is asked for.
Answer ==
  [feature |-> IF command.of = "daemon" THEN Blank ELSE Feature.name,
   daemon |-> Daemon, levels |-> reply]

Bug_Advance(fails) ==
  /\ pc' = "ask" /\ iter_daemon' = (IF fails THEN iter_daemon ELSE iter_daemon + 1)
  /\ failed' = fails /\ link' = FALSE /\ reply' = NoReply
  /\ asked' = IF fails THEN asked ELSE Append(asked, <<iter_feature, iter_daemon>>)
Advance(fails) ==
  /\ pc' = "ask" /\ iter_daemon' = iter_daemon + 1
  /\ failed' = fails /\ link' = FALSE /\ reply' = NoReply
  /\ asked' = Append(asked, <<iter_feature, iter_daemon>>)

Receive ==
  /\ pc = "reply"
  /\ Advance(FALSE)
  /\ answers' = Append(answers, Answer)
  /\ IF command.verb = "set" THEN UNCHANGED <<rows, flag>>
     ELSE rows' = rows \o Row /\ flag' = (flag \/ command.of # "daemon")
  /\ UNCHANGED <<daemons, feature_head, command, iter_feature, return_val>>

\* There is no socket or no process id, or the connection is refused; the
\* daemon stops, even after it has done what it was asked; or it answers with
\* an error.
Fails ==
  /\ \/ Asking
     \/ pc \in {"wait", "reply"} /\ ~link
     \/ pc = "wait" /\ health[Daemon] = "up"
  /\ Advance(TRUE)
  /\ UNCHANGED <<daemons, static, command, iter_feature, rows, return_val, answers>>

\* Only the commands for one daemon tell that it could not be asked.
Return ==
  /\ pc = "ask" /\ ~Asking /\ command.of = "daemon"
  /\ Finish(IF failed THEN "warning" ELSE "success")
  /\ UNCHANGED <<daemons, static, command, iter_feature, iter_daemon, link, reply,
                 failed, rows, asked, answers>>

Prompt ==
  /\ pc = "done"
  /\ pc' = "idle" /\ command' = NoCommand /\ rows' = <<>>
  /\ asked' = <<>> /\ answers' = <<>>
  /\ return_val' = Blank /\ failed' = FALSE /\ iter_feature' = 1 /\ iter_daemon' = 1
  /\ UNCHANGED <<daemons, static, link, reply>>

-----------------------------------------------------------------------------
(* The daemons and those who use them.                                     *)

Trouble == troubles < MaxTroubles /\ troubles' = troubles + 1

Hang(d) ==
  /\ Trouble /\ health[d] = "up"
  /\ health' = [health EXCEPT ![d] = "hung"]
  /\ UNCHANGED <<level, known, static, local>>

Stop(d) ==
  /\ Trouble /\ health[d] # "down"
  /\ health' = [health EXCEPT ![d] = "down"]
  /\ level' = [level EXCEPT ![d] = Default]
  /\ known' = [known EXCEPT ![d] = <<Blank, Blank>>]
  /\ link' = (link /\ d # Daemon)
  /\ UNCHANGED <<static, pc, command, iter_feature, iter_daemon, reply, failed,
                 rows, return_val, asked, answers>>

Start(d) ==
  /\ health[d] = "down"
  /\ health' = [health EXCEPT ![d] = "up"]
  /\ UNCHANGED <<level, known, troubles, static, local>>

\* ovs-appctl, or another vtysh.
SetElsewhere(d, l) ==
  /\ Trouble /\ health[d] = "up"
  /\ level' = [level EXCEPT ![d] = <<l, l>>]
  /\ known' = [known EXCEPT ![d] = <<Blank, Blank>>]
  /\ UNCHANGED <<health, static, local>>

-----------------------------------------------------------------------------

Cli == Map \/ EndOfFeature \/ Connect \/ Receive \/ Fails \/ Return

VlogNext ==
  \/ \E c \in Commands : Type(c)
  \/ Cli \/ Serve \/ Prompt
  \/ \E d \in Daemons : \/ Hang(d) \/ Stop(d) \/ Start(d)
                        \/ \E l \in Levels : SetElsewhere(d, l)

-----------------------------------------------------------------------------

\* The rows for the answers: of a feature that of the first daemon, and of all
\* features a row each, the first with the name of the feature.
RowsFor(given) ==
  CASE command.of = "feature" ->
         [i \in 1..(IF given = <<>> THEN 0 ELSE 1) |->
            [feature |-> given[i].feature, daemon |-> Blank,
             levels |-> given[i].levels]]
    [] command.of = "all" ->
         [i \in DOMAIN given |->
            [feature |-> IF i > 1 /\ given[i - 1].feature = given[i].feature
                           THEN Blank ELSE given[i].feature,
             daemon |-> given[i].daemon, levels |-> given[i].levels]]
    [] OTHER -> given

\* What `show vlog config' displays is what daemons have answered, whatever
\* commands came before, were refused or broke off; levels that were set with
\* `vlog' are among it as long as the daemon runs and nobody else sets them.
\* And a success of a command for one daemon means that it has answered.
LevelsAreShown ==
  pc = "done" =>
    /\ command.verb = "show" =>
         /\ rows = RowsFor(answers)
         /\ \A i \in DOMAIN answers, x \in {1, 2} :
              known[answers[i].daemon][x] \in {Blank, answers[i].levels[x]}
    /\ command.of = "daemon" /\ return_val = "success" => answers # <<>>

\* Whether the command is for daemon j of feature i, and the order of the mapping.
IsFor(i, j) ==
  /\ i \in DOMAIN feature_head /\ j \in DOMAIN feature_head[i].daemons
  /\ command.of = "all" \/ feature_head[i].name = command.name
Precedes(p, q) == p[1] < q[1] \/ (p[1] = q[1] /\ p[2] < q[2])

AskedInOrder ==
  /\ \A n \in DOMAIN asked : IsFor(asked[n][1], asked[n][2])
  /\ \A m, n \in DOMAIN asked : m < n => Precedes(asked[m], asked[n])
AskedBefore(p) ==
  \A i \in DOMAIN feature_head : \A j \in DOMAIN feature_head[i].daemons :
    IsFor(i, j) /\ Precedes(<<i, j>>, p)
      => \E n \in DOMAIN asked : asked[n] = <<i, j>>

\* Every daemon that a command is for is asked, once and in the order of the
\* mapping: one that is down, stops or refuses keeps no other from being asked.
\* Only a command for one daemon tells that it has not answered. One for features
\* succeeds even if no daemon has, and warns only if it is for no feature.
AllAreAsked ==
  pc = "done" =>
    IF command.of = "daemon"
      THEN asked = <<<<1, 1>>>> /\ (return_val = "warning" <=> answers = <<>>)
      ELSE /\ AskedInOrder /\ AskedBefore(<<Len(feature_head) + 1, 1>>)
           /\ return_val = "warning" <=>
                ~\E i \in DOMAIN feature_head : Begins(feature_head, i)

\* A command returns, unless a daemon hangs that it waits for: there is no
\* timeout.
CommandReturns ==
  pc \in {"map", "ask", "wait", "reply"} ~>
    \/ pc = "done"
    \/ pc = "wait" /\ health[Daemon] = "hung"

-----------------------------------------------------------------------------
(* The inductive invariant.                                                *)

InLoop == pc \in {"ask", "wait", "reply"}
Showing == command.verb = "show" /\ (InLoop \/ pc = "done")

\* Where the loop may be; a daemon that is waited for is one that it has.
LoopInv ==
  /\ pc \in {"idle", "map", "ask", "wait", "reply", "done"}
  /\ IF pc = "idle" THEN command = NoCommand ELSE command \in Commands
  /\ feature_head = <<>> \/ feature_head \in Mappings
  /\ pc \in {"idle", "map"} =>
       /\ iter_feature = 1 /\ iter_daemon = 1 /\ ~failed
       /\ rows = <<>> /\ answers = <<>>
  /\ InLoop =>
       IF command.of = "daemon" THEN iter_daemon \in {1, 2}
       ELSE /\ iter_feature \in DOMAIN feature_head
            /\ iter_daemon \in 1..Len(Feature.daemons) + 1
  /\ pc \in {"wait", "reply"} =>
       IF command.of = "daemon" THEN iter_daemon = 1
       ELSE iter_daemon <= Len(Feature.daemons)

\* Levels known are those in force, and those that have been answered.
Agrees(d, levels) == \A x \in {1, 2} : known[d][x] \in {Blank, levels[x]}
KnownInv ==
  /\ level = [d \in Daemons |-> level[d]] /\ known = [d \in Daemons |-> known[d]]
  /\ \A d \in Daemons : Agrees(d, level[d])
  /\ Showing =>
       /\ \A i \in DOMAIN answers :
            answers[i].daemon \in Daemons /\ Agrees(answers[i].daemon, answers[i].levels)
       /\ pc = "reply" => Agrees(Daemon, reply)

\* The flag says that the feature has a row. The features of the rows are those
\* up to the one that the loop is at.
FlagInv ==
  IF InLoop /\ command.verb = "show" /\ command.of # "daemon"
    THEN /\ \A i \in DOMAIN answers :
              \E k \in 1..iter_feature :
                /\ answers[i].feature = feature_head[k].name
                /\ command.of = "feature" => k = iter_feature
         /\ flag = (answers # <<>> /\ answers[Len(answers)].feature = Feature.name)
    ELSE flag = FALSE
RowsInv ==
  /\ answers \in Seq(ToSet(answers)) /\ rows \in Seq(ToSet(rows))
  /\ Showing => rows = RowsFor(answers)

\* The only daemon asked has answered if that did not fail.
OneDaemonInv ==
  command.of = "daemon" =>
    /\ pc = "ask" /\ iter_daemon = 2 /\ ~failed => answers # <<>>
    /\ pc = "done" /\ return_val = "success" => answers # <<>>

\* What the command is for has been asked as far as the loop has come.
AskedInv ==
  /\ pc \in {"idle", "map"} => asked = <<>>
  /\ pc = "map" => command.of # "daemon"
  /\ InLoop =>
       IF command.of = "daemon"
         THEN /\ iter_feature = 1
              /\ iter_daemon = 1 => asked = <<>> /\ answers = <<>>
              /\ iter_daemon = 2 => asked = <<<<1, 1>>>> /\ (failed <=> answers = <<>>)
         ELSE /\ command.of = "feature" => Feature.name = command.name
              /\ asked \in Seq(Nat \X Nat)
              /\ AskedInOrder /\ AskedBefore(<<iter_feature, iter_daemon>>)
              /\ \A n \in DOMAIN asked :
                   Precedes(asked[n], <<iter_feature, iter_daemon>>)
  /\ AllAreAsked

VlogInv == LoopInv /\ KnownInv /\ FlagInv /\ RowsInv /\ OneDaemonInv
=============================================================================
