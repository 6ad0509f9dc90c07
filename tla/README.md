# TLA+ models of ops-supportability

`ops-supportability` gives an OpenSwitch switch its troubleshooting tools: CLI
commands of `vtysh` (`show tech`, `diag-dump`, `logging`, `copy core-dump`,
`show events` ...), a daemon that configures rsyslog and processes core dumps,
and libraries for events and diagnostics that the other daemons link. This
directory models it in TLA+. Paths below are relative to the repository.

## Inventory

| component | source | state it keeps | operations | what is hard about it |
|---|---|---|---|---|
| show tech execution | `src/cli/show_tech_vty.c` | globals for interrupt, failure and terminal; `waitMutex`/`waitCond`, `cleanupMutex`; `command_failed` flags | `cli_show_tech`, `cli_show_tech_file`, `exec_showtech_cmd`, command thread, SIGINT/SIGALRM/SIGTSTP handlers | two threads, a condition variable without predicate, asynchronous cancellation, signal handlers that take locks |
| show tech configuration | `src/showtech/showtech.c` | list of features / sub-features / commands, parser state | `get_showtech_config`, `parse_showtech_config`, `free_show_tech_config` | state machine over YAML events, rollback on error |
| diag-dump CLI | `src/cli/diag_dump_vty.c` | same kind of globals, jsonrpc `client` | `vtysh_diag_dump_show`, `vtysh_diag_dump_daemon`, thread, handlers | as show tech, plus a connection shared by thread and cleanup |
| feature mapping | `src/featuremapping/feature_mapping.c` | features and daemons with `diag_flag` | `get_feature_mapping`, parser | flag per feature derived from its daemons, partial results on error |
| remote syslog CLI | `src/cli/syslog_vty.c` | the `Syslog_Remote` table of OVSDB, through a transaction | `logging HOST ...`, `no logging ...` | concurrent sessions, limit of 4, match rules of deletion |
| supportability daemon | `src/python/ops_supportability.py` | `/etc/rsyslog.remote.conf`, `seqno`, `globalConfig`, processed-core files | `supportability_init`, `_reconfigure`, `_run`, core dump processing | change notification, crash and restart, order of writes |
| event log library | `src/eventlog/eventlog.c`, `src/python/ops_eventlog.py` | table of categories, table of events | `event_log_init`, `log_event` | table limits, search |
| diagnostics library | `include/diag_dump.h`, `src/python/ops_diagdump.py` | registered callback | `diag_dump_basic` | buffer ownership |
| core dump CLI | `src/cli/core_dump.c`, `copy_core_dump_vty.c`, `show_core_dump_vty.c` | the list of files of one command | list and copy core files | files that come and go, a pattern that fits more than it should, partial copy |
| show events | `src/cli/show_events_vty.c` | a place in the journal | filters, forward and backward reading | the journal grows meanwhile; three writers name things differently |
| vlog commands | `src/cli/show_vlog_vty.c` | the feature mapping, a static `flag` | set and show log levels of daemons | daemons stop, start and hang; state shared by the commands |
| command registration | `src/cli/supportability_vty.c`, `src/supportability_utils.c` | the words of commands | `cli_post_init`, `get_yaml_tokens`, `connect_to_daemon` | a step that fails ends the rest |
| OSPF debug CLI | `src/cli/quagga/ospf_debug_vty.c` | debug flags | set/unset | none: flag settings |

How they interact: the CLI components are commands of the one `vtysh` process
and run on its main thread; show tech and diag-dump each create one thread per
command and share `vtysh_ovsdb_mutex` with the other threads of `vtysh`. The
remote syslog CLI and the daemon meet only in OVSDB: a session commits rows,
the daemon is woken by a change of the sequence number and rewrites the rsyslog
configuration. The core dump processor and the CLI meet in the file system.
diag-dump asks every daemon of a feature, over its unixctl socket, for the
buffer that its callback (diagnostics library) fills. Show tech executes the
commands that its configuration lists, any vtysh command.

### What makes each part correct

* **show tech execution**: a success is a success, every failure is listed, a
  cancelled command is reported; the user's interrupt stops the run; the
  terminal, the alarm and the mutexes are given back; the prompt returns.
* **show tech configuration**: a file is taken as a whole or not at all;
  commands and tables keep their order and their feature; show tech does not
  contain itself (one guard decides that, and no property repeats it).
* **feature mapping**: what is read is a prefix of the file; a feature supports
  diag-dump iff one of its daemons does.
* **diag-dump**: "captured" is said of a dump in which every daemon answered
  and is written, to its end unless the disk filled up for a moment; connections
  are closed once; the prompt returns.
* **remote syslog**: at most four servers, one row per server, deletion removes
  exactly the configuration named, the daemon's file ends up equal to the last
  committed table.
* **core dumps**: every core is reported, at least once across a crash, and
  once without one; a copy that succeeds is of the cores the user wants.
* **event log**: the table has the events of the categories asked for, each
  once; what is logged is the event that was named, an unknown one is reported;
  `show events` displays the entries that its filters mean, and only those.
* **vtysh session**: show tech executes what its file has, in that order; the
  levels displayed are those in force; a daemon that fails keeps no other from
  being asked; commands return.

## Plan

In the order of weight; all but the ninth are done.

1. `ShowTech` (threads, locks, signals), the abstract `ShowTechRun`, their
   refinement and proofs. *Done.*
2. `SyslogRemote` (CLI sessions and transactions), the abstract `SyslogTable`,
   the composition `Syslog` with `SyslogDaemon`, and proofs. *Done.*
3. `CoreDump` with crash and restart, and proofs. *Done.*
4. `EventLog`, and `Events` with the library for Python, the journal and `show
   events`, and proofs. *Done.*
5. `FeatureMapping`, `DiagDump`, their composition `Diag`, and the abstract
   `DiagRun`, which `Diag` is shown to implement, and proofs. *Done.*
6. `ShowTechConfig`, and proofs. *Done.*
7. `CoreDumpCli` (`copy core-dump`, `show core-dump`) and the composition
   `CoreDumps` with the daemon; a proof that the commands only read. *Done.*
8. `Vtysh`: the installation of the commands, show tech over the configuration
   that `ShowTechConfig` reads, and the levels of `Vlog`; proofs that a session
   only loads the configuration, executes what the file has, asks every daemon
   and displays the levels that the daemons answered. *Done.*
9. Next to model: the prompt of `no logging`, `show vlog`, the registration and
   callback of the diagnostics libraries, the write of the output of show tech
   to its file.
10. Proofs of every safety property that a passing run checks; the last were
   `ConfigIsFile`, in the way of `MappingIsPrefix` and `TableIsSound`,
   `ExecutedIsFile`, with cursors as in `Vlog`, and `AllAreAsked`. *Done.*

## How the modules fit together

| module | is | uses |
|---|---|---|
| `ShowTech` | execution of show tech | |
| `ShowTechRun` | what it promises | |
| `ShowTechRefinement` | the mapping between the two | `ShowTech`, `ShowTechRun` |
| `ShowTechProofs` | theorems | `ShowTechRefinement` |
| `ShowTechConfig`, `MCShowTechConfig` | the parser of its configuration; files for it | |
| `Vlog` | `vlog` and `show vlog config`, and the daemons | |
| `Vtysh`, `MCVtysh` | a session: installation, show tech and vlog commands; daemons for it | `ShowTechConfig`, `Vlog` |
| `ShowTechConfigProofs` | theorems about the parser | `ShowTechConfig` |
| `VtyshProofs` | theorems about a session | `Vtysh`, `ShowTechConfigProofs` |
| `SyslogRemote`, `MCSyslogRemote` | sessions and database; commands for them | |
| `SyslogTable`, `SyslogRefinement` | one table, changed at once; the mapping | `MCSyslogRemote` |
| `SyslogDaemon` | the daemon that follows the table | |
| `Syslog` | both together | `MCSyslogRemote`, `SyslogDaemon` |
| `SyslogProofs` | theorems | `Syslog`, `SyslogRefinement` |
| `CoreDump` | post-crash processing | |
| `CoreDumpCli` | the commands on core files | |
| `CoreDumps`, `MCCoreDumps` | both together; core files | `CoreDump`, `CoreDumpCli` |
| `CoreDumpProofs` | theorems | `CoreDumps` |
| `EventLog` | event log library | |
| `Events`, `MCEventLog` | both libraries, the journal, `show events`; a file of events | `EventLog` |
| `EventLogProofs` | theorems | `Events` |
| `FeatureMapping` | the parser of the mapping | |
| `DiagDump` | the diag-dump command | |
| `DiagRun` | what it promises | |
| `Diag`, `MCDiag` | parser and command together, with the start of vtysh, and the mapping to `DiagRun`; files | `DiagDump`, `FeatureMapping`, `DiagRun` |
| `DiagMappingProofs` | theorems about the parser of the mapping | `Diag` |
| `DiagProofs` | theorems | `DiagMappingProofs` |

Definitions whose name begins with `Bug_` are not part of any specification:
each is the definition after it with one plausible error, used to see that the
properties would notice.

## show tech: `ShowTech`, `ShowTechRun`, `ShowTechRefinement`, `ShowTechProofs`

`pc` is where the main thread is in `cli_show_tech` / `exec_showtech_cmd`,
`tpc` where the command thread is in `showtech_cmd_thread`. Every lock and
unlock, `pthread_cond_timedwait`, `pthread_cond_signal`, `pthread_cancel` and
each read of a global that a handler writes is a step of its own. A signal
handler runs on the thread the kernel picks (`handler`), which makes no step of
its own until the handler returns; asynchronous cancellation
(`CancelTakesEffect`) hits a thread anywhere, inside a handler too, and leaves
the mutexes it holds locked unless its cleanup handler is pushed and releases
them. `pthread_mutex_unlock` of a mutex that another thread holds releases it
(a default mutex). What a command does is its duration (`kind`), whether it
takes `vtysh_ovsdb_mutex` and its result (`outcome`); the sub-feature mode of
the code is compiled out (`_ST_SUBFEATURE_ENABLED`) and not modelled; `show tech
FEATURE` checks the interrupt before each command, `show tech` does not
(`mode`). `failed`, `late`, `kind`, `outcome` and `cancelled` are history
variables.

`ShowTechRun` is the abstract specification: commands in order, one at a time,
one verdict each, success only for a command that succeeded by itself and was
not cancelled, every failure listed.

* `showtech_core`: two invocations of two commands of every duration, one
  signal to any thread, spurious wakeups. Two commands are needed for one
  failure to survive until another; two invocations for stale flags, a pending
  alarm or an orphaned mutex to meet a new run; more of either repeats these
  situations, because a command interacts only with what the one before left.
* `showtech_live`: the same protocol, spurious wakeups included, with another
  user of `vtysh_ovsdb_mutex`. `RunReturns` says that without a signal the prompt
  returns even if a command never ends, with one exception that it names: the
  wait (`show_tech_vty.c:270`) is not repeated, so a spurious wakeup while such a
  command runs is taken for its end, and the main thread joins it at line 334
  for ever. `HangsAreKnown` says that with a signal it
  returns too or is in one of the four hangs that the module names: a handler
  waits for the mutex of its own thread, a cancelled thread took `waitMutex`
  or `cleanupMutex` with it, or the main thread joins a command that hangs
  without having cancelled it.
* `showtech_lost_wakeup`: the wait has no predicate, so a command that signals
  before the main thread waits is cancelled 60 s later and reported as timed
  out, although it succeeded. The comment above `exec_showtech_cmd` promises
  CMD_SUCCESS for it.

Facts that the model shows and that no line of the repository contradicts are
not runs: the flags of failed commands survive an interrupted run, the cleanup
handler releases `vtysh_ovsdb_mutex` whoever holds it, and the barrier on
`cleanupMutex` can be passed before the cleanup. They are listed among the
hazards of PROJECT.json.

*Fairness.* Weak fairness of each thread and handler (the scheduler), of the
end of a timed wait and of the alarm (time passes) and of leaving another
thread's critical section. A command need not end: `kind = "hang"` never does.
`CMD_MAX_TIME` is long for a command of kind `quick`.

*Proved*, for every number of commands, invocations and signals, every choice
of signal threads and durations, with and without spurious wakeups and another
thread: `TypeOK`, `SuccessIsReal`, `CancelReported`, `InterruptStops`,
`NoFailureHidden`, `OneCommandAtATime`, `QuietRunLeavesNoTrace` and the
refinement `ImplementsRun`. They follow from `Invariance`, that `IInv` is inductive: the cursor is on a command
while one is handled (`CursorInv`), the command thread lives exactly within
`exec_showtech_cmd` (`ThreadInv`), a command is cancelled only past `Branch`,
and then the return value is already determined (`CancelInv`), a thread past
execution has an outcome and a failure is in `gCommandFailed` (`OutcomeInv`),
`late` is 1 only under an interrupt (`LateInv`), and the failures so far are
before the cursor, flagged and counted (`FailedInv`). None of the properties is
inductive by itself: `SuccessIsReal`, for example, needs to know at `Join` that
a thread that ended without being cancelled has an outcome.
`QuietRunLeavesNoTrace` has an invariant of its own, `QuietInv`: until the first
signal no handler runs, so that `gUserInterruptVtyType` is unset and only
`localfile` has changed `vty->type`. The proofs use
`ConstantsAssumption` and the library's facts on finite sets.

## show tech configuration and vtysh: `ShowTechConfig`, `Vtysh`, `Vlog`, `ShowTechConfigProofs`, `VtyshProofs`

The parser sees a file as its scalars, in rows: those in front of the first
feature, then those of each feature, of each of its sub features and of each of
their tables; `pos` is the place of the next one. `current_state` is the last
key, `sub` stands for `curr_subfeature` (the last sub feature of the last
feature, one that is in no feature, or NULL) and `table` for `curr_table`.
`PutSub` is the repeated passage that makes a dummy sub feature if there is none
and links it to the feature. `ParseError` may end the parsing at any scalar (the
rest is not YAML, or the allocation of an element fails), after which
`get_showtech_config` reads the file again. The copy of a string may fail as
well, but nobody looks at the result of `strdup_with_nullcheck`: the parser goes
on, and NULL stays in a configuration that is kept. `features` has the strings
that were to be copied, and `nulls` the places of those that are NULL; `Stored`
of `Vtysh` is what there is in memory. The rows are written from the document
that the file means, so `ConfigIsFile` compares what the parser builds with an
independent reading: the configuration is all of the document or nothing, up to
the NULLs. The files have up
to two features with a dummy and up to two sub features each, every combination
of flags, commands and tables that the parser treats differently, `show tech` as
a command, and scalars in front of the first feature; two features and two sub
features are what it takes for something to stray into the previous one. The
attributes come in the order of the shipped file. Commands right under a feature
come before its sub features, as there: the parser (`showtech.c:794`) would give
later ones to the last sub feature.

`Vtysh` starts with `cli_post_init`, whose steps stop at the first that fails:
without a daemon that runs, for example, `install_show_vlog` finds no words and
the commands after it are not installed. The words of `show tech FEATURE` come
from an own reading of the file (`get_yaml_tokens`), which may end earlier or
later than the parser does. Then the user types commands one after the other.
Show tech loads the configuration if there is none and walks over features, sub
features and commands (`iter`, `iter_sub`, `iter_cli`); each command may be the
one during which it is interrupted. `support_showtech_all` and the flags of
features are parsed but nothing in show tech reads them.

`Vlog` is the loop over the daemons of a feature, `iter_feature` and
`iter_daemon` are where it is, and the history `asked` where it has been. A daemon is up, down or hung, and may stop after it
has done what it was asked and before it answers; others may set levels too.
The static `flag` decides which row of `show vlog config`
carries the name of a feature, and is shared by all the commands.

* `showtech_config`: `ExecutedIsFile` says that a completed show tech executed
  the commands of the file for the feature, each once, in order, that an
  interrupted one executed all up to its last, and that an offered feature is
  supported. The exception is a copy that failed: NULL is executed in the place
  of such a command, which fails at once, and a feature without its name is not
  found. `executed` keeps the place of each command in the file, so that
  neither equal commands nor features with the same name can hide a loss. `LevelsAreShown`: the rows are the answers of
  the daemons, and levels set from here are among them while nobody changes
  them. `AllAreAsked`: a command for a feature, or for all, asks every daemon it
  is for, once and in order, whichever of them stop or refuse, and warns only if
  it is for no feature. So it succeeds even if no daemon has answered, which the
  command for one daemon does not. `CommandReturns`: a vlog command returns
  unless a daemon hangs. In one
  of the files (`Talkative`) the user types the commands of vlog, in the others
  those of show tech, since the two share no state; two daemons, one in two
  features, and `MaxTroubles` = 2 so that one can fail and another change
  levels in the same command. The copies that may fail are those of two values
  (`Uncopied`): the name of a feature and a command, which are the strings that
  the walk looks at; any of their places may be NULL, alone or together.
  `CHECK_DEADLOCK FALSE`: a hung daemon stops
  vtysh.

*Fairness.* vtysh goes on and a daemon that is up answers (weak fairness of
`Cli` and of `Serve`); nobody has to type a command or restart a daemon.

*Proved* of the parser (`ShowTechConfigProofs`), for every set of files and any
copies that fail: `TypeOK` and `ConfigIsFile`. `FilesAssumption` says what a file
is: any number of features, sub features, commands and tables with any values
that are not the names of keys, in the order of the shipped file; whatever is
right under a feature is its first sub feature, the dummy, and is not empty; in
front of the features anything but `feature`, as long as a `feature_name` there
has a value. `NoneAssumption` says that an absent attribute is neither a string
nor an index.

* The type of the configuration is not inductive by itself, because a list that
  is one of features says nothing of the sub feature that `PutSub` replaces and
  of the table that `SetTable` writes. The invariant `IInv` adds `ParserOK`: the
  parser is at a place of the file (`PositionOK`), `curr_subfeature` is the last
  one there is, or in no feature, and `curr_table` is its last table. Each
  action has a lemma of its own. So the code never follows a stale `curr_table`.
* `ConfigIsFile` speaks of the end of the parsing only. `FileInv` says what there
  is before: the list is the file up to the place (`StoredAt`), the features
  before it complete and the last one up to the scalar (`FeatureUpTo`,
  `SubUpTo`, `TableUpTo`); `current_state` is the last key of the row
  (`StateOK`); `curr_subfeature` is the last sub feature of the last feature, or
  NULL if that has none (`SubOK`), so that nothing strays into the feature
  before; and in front of the features no name has been read that the parser
  would have refused (`FrontOK`). The values of a file are not compared by an
  induction: each scalar of a row changes what is stored from what is before it
  to what is after it (`SubScalar`, `TableScalar`, `HeadingStep`), and where a row
  ends what is stored is what is stored where the next one starts (`SubEnd`,
  `HeadingEnd`).

*Proved* of a session (`VtyshProofs`), for any commands installed and typed:
`SessionsOnlyLoad`, that every step of `Vtysh` is one of the parser or leaves it
alone, so that `ConfigIsFile` holds in sessions without a new
invariant, and `ExecutedIsFile`. Its invariant `WalkInv` says that the words
offered are names that the file has, that a walk begins at its beginning, and
that within it (`WalkOK`) what is wanted and before the cursors has been
executed and nothing else, in order, and that a feature that is asked for has
not been passed. It needs `FileInv`, since the words come from one reading of
the file and the features from another: a name in front of the features is
offered, but then there is no configuration, and show tech reports an error
before it looks for the name.

*Proved* of the commands of `Vlog`, for every mapping, every command and every
number of troubles: `LevelsAreShown` and `AllAreAsked`. It is assumed that every feature of a
mapping has a name of its own, as in the shipped file (`MappingsAssumption`), and
that a command for one daemon names one (`CommandsAssumption`). The invariant is
`VlogInv`: the loop is at a daemon that there is (`LoopInv`); a level known is
the one in force and, while `show` goes on, in every answer of that daemon
(`KnownInv`); the flag is set just when the last answer is for the feature the
loop is at (`FlagInv`), so that it is never left over from a command before; the
rows are those for the answers (`RowsInv`); and the one daemon of a command has
answered if nothing failed (`OneDaemonInv`). `AllAreAsked` adds `AskedInv`: what
the command is for and precedes the place of the loop has been asked, and
nothing else (`AskedGrows` is the step by one daemon, `EndOfFeatureAsked` that to
the next feature); it uses that names differ, since the command for one
feature stops behind the first that has the name.

## remote syslog: `SyslogRemote`, `SyslogTable`, `SyslogRefinement`, `SyslogDaemon`, `Syslog`, `SyslogProofs`

A session is a `vtysh` process. Its `replica` is the table that its IDL last
received (`Refresh`), so commands decide on something that may be out of date.
`txn` is the transaction between its construction and the reply of
ovsdb-server, with `read`, the rows that it verifies. The server commits iff
the column is still a set of the same references; a session may lose its
connection during the commit, before or after it takes effect (`Lose`), and
then reports a failure. The order of rows in the hash table of the replica is
arbitrary, so where the code treats the last row of it differently the model
chooses one. `DefaultPort`, the matching in three modes and the limit are
those of `syslog_vty.c`; the prompt of `no logging`, an absent System row and
allocation failures are left out.

`SyslogTable` promises one table, changed at once by one command. The mapping
drops the uuids and replicas.

`SyslogDaemon` is the loop of `ops_supportability.py`: IDL, sequence number,
comparison of files, `copyfile` in two steps, restart of rsyslog, and a crash
anywhere. `monitor` is the state of the request with which the IDL asks for the
table, at the start and after a new connection. What ovsdb-server sends may come
late: `idl.run()` then finds nothing (`RunNothing`), the sequence number has not
moved, and the daemon sleeps until it comes. A file is a set of lines. `filecmp.cmp` is taken to compare contents:
its shortcut for equal signatures is left out.

* `syslog_sessions`: two symmetric sessions, seven configurations (one host in
  four forms, two others, a refused one), the limit lowered to 2 so that it is
  reached, four commands and a lost reply. A lost update needs two sessions,
  one to overtake the other; the fourth command meets a full table that both
  have changed.
* `syslog_follow`: one session and the daemon, three commands, two crashes,
  restarts of rsyslog that fail. Whenever the daemon sleeps and has been told the
  table since its start, file and rsyslog are as its rows are
  (`QuietIsCurrent`); before it has, it sleeps on whatever file there is: none,
  that of an earlier table, or half of one after a crash. File and table agree in the end;
  rsyslog too, unless a restart was lost (`lost`): a crash between copy and
  restart, or a failing `systemctl`, is hidden for ever by equal files.
* `syslog_port_removed`: `no logging H udp P` removes H's row with another port
  when it is the last row of the table, because `syslog_vty.c:198` compares the
  port only if there is a next row. Its comment promises an exact match.

*Fairness.* Only the daemon: it is scheduled and systemd starts it again (weak
fairness of `Progress`), and what ovsdb-server sends comes in the end, however
many runs of the IDL find nothing before (strong fairness of `Receive`).
Sessions need not do anything; `<>[]` holds because their commands are bounded.

*Proved*, for every set of sessions and configurations, every limit and any
number of commands and losses: `TypeOK`, `AtMostMax`, `OneRowPerHost`,
`RemovesOnlyNamed`, `SuccessMeansConfigured` and `ImplementsTable`. The
argument: a uuid stands for one row for ever (`RowsAreUnique`), so a
verified read that equals the column by reference equals the table; hence a
commit acts on the table that the session had computed with, and it is enough
that every table a session may hold is sound (`TablesAreSound`) and every
pending transaction keeps it so (`TxnsAreSound`).

*Proved* of the whole (the end of `SyslogProofs`), for any number of crashes:
`DaemonOnlyReads`, that `Syslog` implements `SyslogRemote`, and `QuietIsCurrent`.
Its invariant `FollowInv` says that rsyslog has read the file, or a restart was
lost, except while the daemon rewrites the file or there has never been one, and
that the file is that of the rows whenever the daemon has been through its loop
with the rows of ovsdb-server.
It uses that the rows have the type proved for the table, and `DaemonAssumption`:
`NoFile` is no set of lines.

## core dumps: `CoreDump`, `CoreDumpCli`, `CoreDumps`, `CoreDumpProofs`

`pc` walks through `process_coredumps`: listing, opening the old list, the
loop, emptying the file, writing it, waiting for inotify. Cores arrive and are
deleted at any step, an event of inotify is one flag because the daemon reads
all at once, and the `except` around the loop makes the list be written with
cores that the loop did not reach: the history variable `skipped` records them
and the properties except them. `Valid` are the cores with the attributes that
an event needs.

`CoreDumpCli` is a user's command: it checks its parameters, takes the list of
files once (`List`) and works through it while files come and go. The pattern of
an instance is `core.DAEMON.*INSTANCE.*`, so that 82 also fits 682; with a
destination name such files overwrite each other on the server, and the property
says so. Only the first kernel core is ever shown or copied. A script that sends
a file is one step that may fail.

`CoreDumps` puts both on one folder. The code names it twice,
`/var/diagnostics/coredump` (`core_dump.h:40`) for the commands and
`/var/lib/systemd/coredump` for the daemon; the tests take them as the same
(`test_supportability_ft_core_dump.py:238` and `:313`), and so does the model.

* `coredump_recovery`: two cores, of one daemon and with process ids of which
  one ends in the other, one of them without the attributes of an event; two
  kernel cores; one crash. Two cores are needed for one to be skipped behind
  another, and for a pattern to fit too much; a crash can fall before, within
  and after each rewriting of the list. `CopyIsComplete`: a copy that succeeds
  has every core the user wants and that is still there.

*Fairness.* The daemon is scheduled and systemd starts it again.

*Proved*, for any set of cores and any number of crashes: `TypeOK`,
`ProcessedIsLogged` and `RepeatedOnlyByCrash`, from `IInv`: the list includes
what the old file names and is still there (`ListInv`), events come before
names (`LoggedInv`), and a core that has already had as many events as there
were crashes plus one is remembered (`RepeatInv`). `CommandsOnlyRead` says that
`CoreDumps` implements `CoreDump`: whatever a user lists and copies, the daemon
behaves as without him, and its theorems hold. `CopyIsComplete` has an invariant
of its own, `CoresInv`: what the user wants is what fits his pattern
(`WantedInv`), and of that what is still in the folder is among the files the
loop has left or under its name on the server, unless one that fits as well has
overwritten it (`CopyInv`). It uses what `NamesAssumption` says of the names of
cores, such as that no daemon is called `kernel`. That every core is reported is
liveness and only model-checked.

## events: `EventLog`, `Events`, `EventLogProofs`

`event_log_init` scans the file once per category: one step per scalar
(`Scalar`), with the flags of `parse_yaml_for_category` in `parse`, 0 or 1 as in
C. The scanner's place is the part of the file, the heading or event in it, and
the scalar of that (`ScalarAt`, `Following`); the rank of a category, a scalar
that changes nothing, is left out. The table
is an array from `malloc`, so slots are `Blank` until written, and slot
`MaxEvents` is the memory behind it. `token` is read before anything is
written to it, which is the choice between `InitNoScan` and `InitScan`.
`log_event` fills one key per step with the static buffer of `replace_str`.
The limits are lowered to five events and two categories, with a file of three
events in two categories (`FileFits`), so that the tables are filled to their
last free slot; the shipped file has 195 events in 27 categories.

`Events` adds the other writer and the reader. The library for Python refuses a
category that is a part of the name of one already loaded (`cat in
category[i]`); its list of events is the set `content` of their places in the
file, with the order `Before`. Its entries have the name of a severity as
PRIORITY, which is no level. The journal takes what the daemons send, up to `MaxEntries` = 2 entries,
enough for two writers and both directions of reading; the entry of an unknown
event has no `FIELD=` and the journal drops it. `show events` opens the journal,
walks through the entries that match and ends; entries that arrive meanwhile may
or may not be displayed. It puts the category in upper case, so a mixed-case
one such as `OSPFv2` matches nothing. Steps of `show events` are interleaved
with those of the daemon in C only where that is about to send (`Calm`), since
nothing before that touches the journal.

* `eventlog`: `ShownIsAsked` compares the rows with the events that the user
  means: all that were there at the start, each once, in order. It excepts, by
  name, the entries whose fields cannot say it: levels of Python, categories
  with lower case letters. `TableIsSound` compares the table with what the file says of the
  recorded categories; the exception is an allocation that fails half way.
  `LoggedIsAsked` compares the entry in the journal with the event; the
  exception is an event whose first key does not occur in its template
  (the static buffer then still has an older message).
* `eventlog_unknown`: an unknown name is not recognised, because `event_search`
  looks for the delimiter in the wrong field and `log_event` tests for an index
  that is one less than what is returned.

Memory behind the table is taken to be blank. Values of keys, texts longer
than their buffers and files that are not YAML are left out.

*Proved*, for every file of events, every use of the libraries and every reading
of the journal: `TypeOK`, `TableIsSound`, `LoggedIsAsked` and `ShownIsAsked`.
The assumptions are facts of the shipped file: it fits the table (`FileFits`),
no text of it is a key of the file or, but where a category stands, a category
that is asked for (`TextsAssumption`), and every event has a name of its own
(`EventsAssumption`). The invariant `LogInv` of the library in C follows the
scanner. `ParseInv` says for every place what the flags, the kept name and the
index are: `found` is 1 from the category of an event that was asked for to its
end, `val` is the number of the key that was just read, and `index` is the number
of events in the table. `TableInv` says what the table has: the events of the
categories recorded, those of the scanned one as far as the scanner has come, the
current one in part (`Partly`), then the delimiter and nothing behind; or, after
an allocation has failed, a name without a severity where the delimiter was.
Slots are counted with the cardinality of the set of events in front, so that the
library's facts about finite sets do what an induction over the file would.
`CategoriesInv` says that no category is recorded twice, `CallInv` that a message
in the making is the template with the keys given so far and that the static
buffer is its last state, unless the first key was foreign. For `show events`,
`EntriesInv` says that every entry is about an event of the file, and `ShowInv`
that whatever matches is behind in the rows or still ahead. `TypeOK` alone is not
inductive, since that the index stays within the table is a count of events.

## diag-dump: `FeatureMapping`, `DiagDump`, `DiagRun`, `Diag`, `DiagMappingProofs`, `DiagProofs`

`FeatureMapping` is the parser, one step per scalar; `ParseError` may end it
anywhere, and what has been read stays. `Diag` starts vtysh: it reads the
mapping, installs a command for each feature with the flag, and then `DiagDump`
walks the same list.

`DiagDump` has the protocol of show tech without its terminal: `pc`, `tpc`,
mutexes, handlers and cancellation correspond in the same way. It adds the
connection: `client` is NULL, open, or freed and not yet NULL, and between
`Dial` and `Connected` the connection exists and is in no variable. It adds the
output: `section` is how far the writing of each daemon's section has come,
`full` whether the disk has space, and `WRITE_ERR_HANDLE_LOG` jumps. The macros
test only whether `write` returns less than 0: a disk that fills up first takes a
part, the rest of which is dropped and the writing goes on (`ShortWrite`); the
history `cut` says that a section has lost something so, and whether the disk has
been full ever since. Spurious wakeups are left out
(show tech has them). `TimedOut` needs a daemon that hangs or is as slow as
`FUN_MAX_TIME`, a thread stuck at a mutex or one that signalled too early.
A request is `Late` when its own answer came at the instant of its timeout.
`marks` remembers that a request which was not `Late` leaked its connection or
closed it twice, or that a thread took a mutex with it.

`DiagRun` is the abstract specification: the daemons of a feature in order, each
asked at most once, an answer only after its section is written to the end,
"captured" only when all have answered. A section in a file may be cut when the
disk fills up, and then "captured" is not said unless the disk has been freed
(`Free`). `Diag` maps to it: a run ends at the label
USER_INTERRUPT, a section counts when it is written to its end, and threads, locks,
connections and signals disappear.

* `diagdump`: a feature with two daemons, and two features without, of which
  the parsing ends anywhere; two requests in all, every duration, one signal to
  any thread, a disk that fills, between two writes or in the middle of one, and
  has space again. `CapturedIsReal`: the last line says "captured" only if every
  daemon answered and its section is written to its end. The exception, which
  the code does not notice: a section in a file may be cut if the disk had space
  again before the next write. A disk that stays full is always noticed, since
  the writes after a short one fail. `ConnectionsClosed`: without a signal of the
  user, a request loses its connection or closes it twice only if its own
  answer came in the instant of its timeout.
  `MappingIsPrefix` and `InstalledCanDump`: the mapping is a prefix of the
  file and a command can ask somebody. `DumpReturns`: the prompt returns or the
  run is in one of five known hangs, the four of show tech and `WritesForEver`,
  the jump from a failed write to the label in front of it.
* `diagdump_flag`: the flag of a feature is that of the last daemon of it that
  was read, not of any.

*Fairness.* Each thread goes on, in its own code or in the handler that runs on
it, and the alarm comes (three conditions of weak fairness). `DiskChanges` is not
fair: a disk may stay full.

*Proved*, for every set of mapping files and every number of daemons, requests
and signals: `TypeOK`, `MappingIsPrefix`, `InstalledCanDump`,
`ConnectionsClosed`, `CapturedIsReal` and that `Diag` implements `DiagRun`. About
the parser, in `DiagMappingProofs`, from `ParserInv`: the scanner is at a place
that the file has (`PositionOK`), before a value the state is its key (`StateOK`),
and what is stored is the file up to this place, each field of it (`StoredOK`).
That makes `MappingIsPrefix` an invariant step by step without an induction over
the file, and a feature with the flag has a daemon that was read with it. About
the run the argument is `DiagInv` in `Diag`. `MapInv`:
the mapping is not read while a run uses it, so that `iter` stays a feature with
a command. `PlaceInv` and `CountInv`: `daemon_count` is the number of daemons up
to `cur`, and `daemon_resp` at most that of the answers, of those before the
current daemon while it is asked; equal counts at the footer then leave no daemon
without an answer. `ThreadInv`: a thread that was not cancelled has set
`gDiagDumpCommandFailed` or written its section to the end, and a cancelled one leaves
a reason that makes `result` 1. `ClientInv`: which steps of the thread hold the
connection, and that a timeout that is no answer in its last instant finds the
thread where the connection is safe. `CutInv`: a section is cut only in a file,
and while the disk has been full since then, the last line does not say captured.
`FS_Subset` and `FS_RemoveElement` do the
counting.

## What is only model-checked, and what is not modelled

Liveness under fairness is out of the prover's reach (`RunReturns`,
`HangsAreKnown`, `FileFollowsTable`, `RsyslogFollowsTable`,
`EveryCoreReported`, `DumpReturns`, `CommandReturns`). Every safety property and
every refinement that a passing run checks is a theorem. The four properties
that are expected to be violated are refuted by TLC.

`CHECK_DEADLOCK FALSE` is set wherever bounds stop the environment (signals,
commands, crashes) or a known hang is part of the model; the properties of
liveness say what may stop. `eventlog` needs no such setting.

Not modelled:

* what is printed and its wording, the columns of a row, `show running-config`
  and `diag-dump list`, which are pure output;
* `show vlog`, which reads the journal with the same calls as `show events` but
  filters on text;
* the y/n prompt of `no logging` (`syslog_vty.c:869`), which is interleaved with
  nothing: at the end of input it reads for ever;
* the bashcat command, the output buffer and the file of show tech;
* the diagnostics libraries: one callback, registered once, whose buffer is
  copied;
* the OSPF debug commands: each is one request to one daemon;
* allocations that fail, except where the model names one, and a `sigaction`
  that fails;
* a file of events that is not YAML, on which `eventlog.c:192` never ends;
* the scripts and data files.
