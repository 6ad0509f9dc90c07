------------------------------ MODULE ShowTech ------------------------------
(***************************************************************************)
(* `show tech' of vtysh, src/cli/show_tech_vty.c.                          *)
(*                                                                         *)
(* The main thread of vtysh (cli_show_tech) runs the configured commands   *)
(* one at a time, each on a thread of its own (showtech_cmd_thread), and   *)
(* waits on waitCond for its end, for CMD_MAX_TIME seconds or for the      *)
(* user: Ctrl-C (SIGINT) announces the end and arms a 10 s alarm, SIGALRM  *)
(* and Ctrl-Z (SIGTSTP) wake the main thread, which cancels the command.   *)
(* The cancelled thread may hold vtysh_ovsdb_mutex, shared with the other  *)
(* threads of vtysh, and its cleanup handler releases it.                  *)
(*                                                                         *)
(* What is printed is left out, except the list of failed commands.        *)
(***************************************************************************)
EXTENDS Naturals, FiniteSets

CONSTANTS
  NCmds,          \* commands of the configuration, in order 1..NCmds
  MaxRuns,        \* bound: invocations of show tech
  MaxSignals,     \* bound: SIGINT and SIGTSTP the user sends
  SignalThreads,  \* the threads the kernel may deliver a signal to
  Kinds,          \* the durations a command may have, see below
  Spurious,       \* whether pthread_cond_timedwait may wake up spuriously
  OtherThread     \* whether another thread of vtysh uses vtysh_ovsdb_mutex

Threads == {"main", "cmd"}

\* quick: ends well before CMD_MAX_TIME; slow: may end before or after it;
\* hang: never ends.
AllKinds == {"quick", "slow", "hang"}

ASSUME ConstantsAssumption ==
  /\ NCmds \in Nat /\ MaxRuns \in Nat /\ MaxSignals \in Nat
  /\ SignalThreads \subseteq Threads
  /\ Kinds \subseteq AllKinds
  /\ Spurious \in BOOLEAN /\ OtherThread \in BOOLEAN

VARIABLES
  pc,                     \* where the main thread is
  cur,                    \* iter_cli: the command it is at
  error,                  \* what pthread_cond_timedwait returned
  threadCancelled,        \* local of exec_showtech_cmd
  result,                 \* what exec_showtech_cmd returned
  tpc,                    \* where the command thread is
  kind,                   \* how long its command takes
  outcome,                \* what the command itself returned
  cancelled,              \* pthread_cancel was called on it
  waitMutex, cleanupMutex,
  ovsdbMutex,             \* vtysh_ovsdb_mutex
  waitCond,               \* a signal for the waiting main thread is pending
  other,                  \* another vtysh thread: inside or outside its
                          \* critical section of vtysh_ovsdb_mutex
  gUserInterrupt, gUserInterruptAlarm, gCommandFailed, gThreadCancelled,
  vtyType,                \* vty->type
  gUserInterruptVtyType, gVtyOldType,
  handler,                \* the signal handler each thread is in
  alarm,                  \* the alarm clock is armed
  signals,                \* signals the user may still send
  mode,                   \* show tech, or show tech FEATURE
  dest,                   \* the terminal, or localfile
  runs,                   \* invocations so far
  failure_count,
  command_failed,         \* commands whose command_failed flag is set
  skip,                   \* skip_further_execution: the user quit the pager
  failed,                 \* history: commands this run reported as failed
  late                    \* history: commands begun after gUserInterrupt

main   == <<pc, cur, error, threadCancelled, result>>
thread == <<tpc, kind, outcome, cancelled>>
locks  == <<waitMutex, cleanupMutex, ovsdbMutex, other>>
flags  == <<gUserInterrupt, gUserInterruptAlarm, gCommandFailed,
            gThreadCancelled>>
tty    == <<vtyType, gUserInterruptVtyType, gVtyOldType>>
sig    == <<handler, alarm, signals>>
report == <<mode, dest, runs, failure_count, command_failed, skip,
            failed, late>>
vars   == <<main, thread, locks, waitCond, flags, tty, sig, report>>

Cmds == 1..NCmds

Init ==
  /\ pc = "idle" /\ cur = 0 /\ error = "none" /\ threadCancelled = FALSE
  /\ result = "none"
  /\ tpc = "none" /\ kind = "none" /\ outcome = "none" /\ cancelled = FALSE
  /\ waitMutex = "none" /\ cleanupMutex = "none" /\ ovsdbMutex = "none"
  /\ other = "out" /\ waitCond = FALSE
  /\ gUserInterrupt = FALSE /\ gUserInterruptAlarm = FALSE
  /\ gCommandFailed = FALSE /\ gThreadCancelled = FALSE
  /\ vtyType = "term" /\ gUserInterruptVtyType = "unset"
  /\ gVtyOldType = "term"
  /\ handler = [t \in Threads |-> "none"] /\ alarm = FALSE
  /\ signals = MaxSignals
  /\ mode = "all" /\ dest = "terminal" /\ runs = 0 /\ failure_count = 0
  /\ command_failed = {} /\ skip = FALSE /\ failed = {} /\ late = 0

-----------------------------------------------------------------------------
(* The main thread: cli_show_tech, with cli_show_tech_file around it.      *)

\* A thread runs its own code only while it is in no signal handler.
Main == handler["main"] = "none"

\* The command loop gives up, on a signal or when the user quits the pager.
Bug_StopRequested == skip
StopRequested == gUserInterrupt \/ skip

\* iter_cli == NULL.
Bug_EndOfList == cur > NCmds + 1
EndOfList == cur > NCmds

\* show tech [FEATURE] [localfile F]. The globals are initialised and the
\* handlers installed before the configuration is read; sigaction cannot fail
\* on these signals, so its error paths are left out.
Invoke(m, d) ==
  /\ pc = "idle" /\ Main /\ runs < MaxRuns
  /\ pc' = "config" /\ mode' = m /\ dest' = d /\ runs' = runs + 1
  /\ IF d = "file"
       THEN vtyType' = "file" /\ gVtyOldType' = vtyType
       ELSE UNCHANGED <<vtyType, gVtyOldType>>
  /\ gUserInterrupt' = FALSE /\ gThreadCancelled' = FALSE
  /\ gUserInterruptAlarm' = FALSE /\ gUserInterruptVtyType' = "unset"
  /\ cur' = 1 /\ failure_count' = 0 /\ failed' = {} /\ late' = 0
  /\ skip' = FALSE    \* vtysh clears it before every command line
  /\ UNCHANGED <<error, threadCancelled, result, thread, locks, waitCond,
                 gCommandFailed, sig, command_failed>>

\* get_showtech_config returns NULL, or FEATURE is in no feature's name.
NothingToRun ==
  /\ pc = "config" /\ Main
  /\ pc' = "exit"
  /\ UNCHANGED <<cur, error, threadCancelled, result, thread, locks,
                 waitCond, flags, tty, sig, report>>

Configured ==
  /\ pc = "config" /\ Main
  /\ pc' = "loop"
  /\ UNCHANGED <<cur, error, threadCancelled, result, thread, locks,
                 waitCond, flags, tty, sig, report>>

\* The head of the command loop. Only show tech FEATURE looks at
\* gUserInterrupt before a command.
NextCommand ==
  /\ pc = "loop" /\ Main
  /\ pc' = IF EndOfList THEN "report"
           ELSE IF mode = "feature" /\ StopRequested THEN "exit"
           ELSE "create"
  /\ UNCHANGED <<cur, error, threadCancelled, result, thread, locks,
                 waitCond, flags, tty, sig, report>>

\* exec_showtech_cmd up to pthread_create.
Create(k) ==
  /\ pc = "create" /\ Main
  /\ pc' = "lock" /\ error' = "none" /\ threadCancelled' = TRUE
  /\ gCommandFailed' = FALSE
  /\ tpc' = "begin" /\ kind' = k /\ outcome' = "none" /\ cancelled' = FALSE
  /\ late' = late + IF gUserInterrupt THEN 1 ELSE 0
  /\ UNCHANGED <<cur, result, locks, waitCond, gUserInterrupt,
                 gUserInterruptAlarm, gThreadCancelled, tty, sig, mode, dest,
                 runs, failure_count, command_failed, skip, failed>>

\* pthread_create fails: exec_showtech_cmd returns 1.
CreateFails ==
  /\ pc = "create" /\ Main
  /\ pc' = "after" /\ result' = "warning"
  /\ gCommandFailed' = FALSE /\ outcome' = "none" /\ cancelled' = FALSE
  /\ UNCHANGED <<cur, error, threadCancelled, tpc, kind, locks, waitCond,
                 gUserInterrupt, gUserInterruptAlarm, gThreadCancelled, tty,
                 sig, report>>

LockToWait ==
  /\ pc = "lock" /\ Main /\ waitMutex = "none"
  /\ waitMutex' = "main" /\ pc' = "locked"
  /\ UNCHANGED <<cur, error, threadCancelled, result, thread, cleanupMutex,
                 ovsdbMutex, other, waitCond, flags, tty, sig, report>>

\* pthread_cond_timedwait releases waitMutex and sleeps: no predicate is
\* tested, a signal given before this step is lost.
Wait ==
  /\ pc = "locked" /\ Main
  /\ waitMutex' = "none" /\ pc' = "wait" /\ waitCond' = FALSE
  /\ UNCHANGED <<cur, error, threadCancelled, result, thread, cleanupMutex,
                 ovsdbMutex, other, flags, tty, sig, report>>

\* ... and returns 0 when it is signalled, or when it pleases,
WakeUp ==
  /\ pc = "wait" /\ Main /\ (waitCond \/ Spurious)
  /\ pc' = "relock" /\ waitCond' = FALSE
  /\ UNCHANGED <<cur, error, threadCancelled, result, thread, locks, flags,
                 tty, sig, report>>

\* ... and ETIMEDOUT after CMD_MAX_TIME, before which a quick command and
\* its signal are over.
TimedOut ==
  /\ pc = "wait" /\ Main /\ ~waitCond
  /\ kind = "quick" => tpc = "ended"
  /\ pc' = "relock" /\ error' = "timedout"
  /\ UNCHANGED <<cur, threadCancelled, result, thread, locks, waitCond, flags,
                 tty, sig, report>>

Relock ==
  /\ pc = "relock" /\ Main /\ waitMutex = "none"
  /\ waitMutex' = "main" /\ pc' = "woken"
  /\ UNCHANGED <<cur, error, threadCancelled, result, thread, cleanupMutex,
                 ovsdbMutex, other, waitCond, flags, tty, sig, report>>

UnlockWait ==
  /\ pc = "woken" /\ Main
  /\ waitMutex' = "none" /\ pc' = "alarmchk"
  /\ UNCHANGED <<cur, error, threadCancelled, result, thread, cleanupMutex,
                 ovsdbMutex, other, waitCond, flags, tty, sig, report>>

\* The command ended before the 10 s of a Ctrl-C were over: disarm the alarm
\* and keep the command's output.
CheckAlarm ==
  /\ pc = "alarmchk" /\ Main
  /\ pc' = "branch"
  /\ IF gUserInterruptAlarm
       THEN alarm' = FALSE /\ threadCancelled' = FALSE
            /\ gUserInterruptAlarm' = FALSE
       ELSE UNCHANGED <<alarm, threadCancelled, gUserInterruptAlarm>>
  /\ UNCHANGED <<cur, error, result, thread, locks, waitCond, gUserInterrupt,
                 gCommandFailed, gThreadCancelled, tty, handler, signals,
                 report>>

\* The wait timed out, or the user interrupted it and the command did not
\* end by itself.
Bug_MustCancel == error = "none" /\ gUserInterrupt /\ threadCancelled
MustCancel == error = "timedout" \/ (gUserInterrupt /\ threadCancelled)

\* Why the wait is over: pthread_cancel on a timeout or an interrupt.
Branch ==
  /\ pc = "branch" /\ Main
  /\ pc' = IF error = "timedout" THEN "timedout"
           ELSE IF gUserInterrupt THEN "interrupted" ELSE "join"
  /\ cancelled' = MustCancel
  /\ UNCHANGED <<cur, error, threadCancelled, result, tpc, kind, outcome,
                 locks, waitCond, flags, tty, sig, report>>

\* Lock and unlock cleanupMutex `to wait for the cleanup function to
\* complete', then report the timeout.
ReapTimedOut ==
  /\ pc = "timedout" /\ Main /\ cleanupMutex = "none"
  /\ pc' = "join" /\ gThreadCancelled' = TRUE /\ gCommandFailed' = TRUE
  /\ UNCHANGED <<cur, error, threadCancelled, result, thread, locks, waitCond,
                 gUserInterrupt, gUserInterruptAlarm, tty, sig, report>>

Bug_CancelNoted == gThreadCancelled
CancelNoted == gThreadCancelled \/ threadCancelled

\* The same wait when the command was cancelled by the user; the type of the
\* terminal that the SIGINT handler changed is restored.
ReapInterrupted ==
  /\ pc = "interrupted" /\ Main
  /\ threadCancelled => cleanupMutex = "none"
  /\ pc' = "join"
  /\ vtyType' = IF gUserInterruptVtyType # "unset"
                  THEN gUserInterruptVtyType ELSE vtyType
  /\ gThreadCancelled' = CancelNoted
  /\ UNCHANGED <<cur, error, threadCancelled, result, thread, locks, waitCond,
                 gUserInterrupt, gUserInterruptAlarm, gCommandFailed,
                 gUserInterruptVtyType, gVtyOldType, sig, report>>

Bug_VerdictNoFailure == IF gUserInterrupt /\ threadCancelled
                          THEN "warning" ELSE "success"

\* What exec_showtech_cmd returns once the command thread is joined.
Verdict == IF gCommandFailed \/ (gUserInterrupt /\ threadCancelled)
             THEN "warning" ELSE "success"

Bug_Join ==
  /\ pc = "join" /\ Main
  /\ pc' = "after" /\ result' = Verdict
  /\ UNCHANGED <<cur, error, threadCancelled, thread, locks, waitCond, flags,
                 tty, sig, report>>

\* pthread_join, and the verdict.
Join ==
  /\ pc = "join" /\ Main /\ tpc = "ended"
  /\ pc' = "after" /\ tpc' = "none" /\ result' = Verdict
  /\ UNCHANGED <<cur, error, threadCancelled, kind, outcome, cancelled, locks,
                 waitCond, flags, tty, sig, report>>

Bug_Flagged == command_failed
Flagged == command_failed \cup {cur}

\* The rest of the loop: count and flag a failed command, unless the run is
\* over, which takes the flag back and skips the report.
After ==
  /\ pc = "after" /\ Main
  /\ failure_count' = failure_count + IF result = "warning" THEN 1 ELSE 0
  /\ IF StopRequested
       THEN /\ pc' = "exit"
            /\ command_failed' = command_failed \ {cur}
            /\ UNCHANGED <<cur, failed>>
       ELSE /\ pc' = "loop" /\ cur' = cur + 1
            /\ IF result = "warning"
                 THEN command_failed' = Flagged
                      /\ failed' = failed \cup {cur}
                 ELSE UNCHANGED <<command_failed, failed>>
  /\ UNCHANGED <<error, threadCancelled, result, thread, locks, waitCond,
                 flags, tty, sig, mode, dest, runs, skip, late>>

\* print_failed_commands lists every flagged command and clears the flags; it
\* is called only when a command of this run failed.
Report ==
  /\ pc = "report" /\ Main
  /\ pc' = "exit"
  /\ command_failed' = IF failure_count > 0 THEN {} ELSE command_failed
  /\ UNCHANGED <<cur, error, threadCancelled, result, thread, locks, waitCond,
                 flags, tty, sig, mode, dest, runs, failure_count, skip,
                 failed, late>>

Bug_RestoredType == vtyType
RestoredType == IF dest = "file" THEN gVtyOldType ELSE vtyType

\* The signal handlers found at the start are back, and localfile restores
\* the terminal. The alarm stays armed if it is.
Exit ==
  /\ pc = "exit" /\ Main
  /\ pc' = "idle"
  /\ vtyType' = RestoredType
  /\ UNCHANGED <<cur, error, threadCancelled, result, thread, locks, waitCond,
                 flags, gUserInterruptVtyType, gVtyOldType, sig, report>>

-----------------------------------------------------------------------------
(* The command thread: showtech_cmd_thread.                                *)

Cmd == handler["cmd"] = "none"

\* Asynchronous cancellation is on, the cleanup handler is pushed.
PushCleanup ==
  /\ tpc = "begin" /\ Cmd
  /\ tpc' = "pushed"
  /\ UNCHANGED <<main, kind, outcome, cancelled, locks, waitCond, flags, tty,
                 sig, report>>

LockCleanup ==
  /\ tpc = "pushed" /\ Cmd /\ cleanupMutex = "none"
  /\ tpc' = "exec" /\ cleanupMutex' = "cmd"
  /\ UNCHANGED <<main, kind, outcome, cancelled, waitMutex, ovsdbMutex, other,
                 waitCond, flags, tty, sig, report>>

\* vtysh_execute takes vtysh_ovsdb_mutex for most commands (VTYSH_OVSDB_LOCK).
LockOvsdb ==
  /\ tpc = "exec" /\ Cmd /\ ovsdbMutex = "none"
  /\ tpc' = "execlocked" /\ ovsdbMutex' = "cmd"
  /\ UNCHANGED <<main, kind, outcome, cancelled, waitMutex, cleanupMutex,
                 other, waitCond, flags, tty, sig, report>>

\* The command returns, and its status is kept; the user may have quit the
\* pager in the meantime.
ExecDone(o, q) ==
  /\ tpc \in {"exec", "execlocked"} /\ Cmd /\ kind # "hang"
  /\ tpc' = "executed" /\ outcome' = o
  /\ ovsdbMutex' = IF tpc = "execlocked" THEN "none" ELSE ovsdbMutex
  /\ gCommandFailed' = (gCommandFailed \/ o = "failed")
  /\ skip' = (skip \/ q)
  /\ UNCHANGED <<main, kind, cancelled, waitMutex, cleanupMutex, other,
                 waitCond, gUserInterrupt, gUserInterruptAlarm,
                 gThreadCancelled, tty, sig, mode, dest, runs, failure_count,
                 command_failed, failed, late>>

LockToSignal ==
  /\ tpc = "executed" /\ Cmd /\ waitMutex = "none"
  /\ tpc' = "locked" /\ waitMutex' = "cmd"
  /\ UNCHANGED <<main, kind, outcome, cancelled, cleanupMutex, ovsdbMutex,
                 other, waitCond, flags, tty, sig, report>>

\* pthread_cond_signal wakes a waiter, and does nothing if there is none.
SignalWaiter == waitCond' = (waitCond \/ pc = "wait")

SignalMain ==
  /\ tpc = "locked" /\ Cmd
  /\ tpc' = "signalled" /\ SignalWaiter
  /\ UNCHANGED <<main, kind, outcome, cancelled, locks, flags, tty, sig,
                 report>>

UnlockSignal ==
  /\ tpc = "signalled" /\ Cmd
  /\ tpc' = "unlocked" /\ waitMutex' = "none"
  /\ UNCHANGED <<main, kind, outcome, cancelled, cleanupMutex, ovsdbMutex,
                 other, waitCond, flags, tty, sig, report>>

\* pthread_cleanup_pop(0): cleanupMutex is still locked.
PopCleanup ==
  /\ tpc = "unlocked" /\ Cmd
  /\ tpc' = "popped"
  /\ UNCHANGED <<main, kind, outcome, cancelled, locks, waitCond, flags, tty,
                 sig, report>>

UnlockCleanup ==
  /\ tpc = "popped" /\ Cmd
  /\ tpc' = "ended" /\ cleanupMutex' = "none"
  /\ UNCHANGED <<main, kind, outcome, cancelled, waitMutex, ovsdbMutex, other,
                 waitCond, flags, tty, sig, report>>

\* A thread with a cleanup handler to run when it is cancelled, and one
\* without.
Guarded   == {"pushed", "exec", "execlocked", "executed", "locked",
              "signalled", "unlocked"}
Unguarded == {"begin", "popped"}

\* A cancelled thread stops wherever it is, in a signal handler too, with the
\* mutexes it holds.
CancelTakesEffect ==
  /\ cancelled /\ tpc \in Guarded \cup Unguarded
  /\ tpc' = IF tpc \in Guarded THEN "cleanup" ELSE "ended"
  /\ handler' = [handler EXCEPT !["cmd"] = "none"]
  /\ UNCHANGED <<main, kind, outcome, cancelled, locks, waitCond, flags, tty,
                 alarm, signals, report>>

Bug_Cleanup ==
  /\ tpc = "cleanup"
  /\ tpc' = "ended" /\ ovsdbMutex' = "none"
  /\ UNCHANGED <<main, kind, outcome, cancelled, waitMutex, cleanupMutex,
                 other, waitCond, flags, tty, sig, report>>

\* cmd_thread_cleanup_handler: trylock makes sure that vtysh_ovsdb_mutex is
\* locked, whoever holds it, and unlock releases it.
Cleanup ==
  /\ tpc = "cleanup"
  /\ tpc' = "ended" /\ ovsdbMutex' = "none" /\ cleanupMutex' = "none"
  /\ UNCHANGED <<main, kind, outcome, cancelled, waitMutex, other, waitCond,
                 flags, tty, sig, report>>

-----------------------------------------------------------------------------
(* The signal handlers, on the thread the kernel picks. They are installed *)
(* from Invoke to Exit.                                                    *)

CanInterrupt(t) ==
  /\ t \in SignalThreads /\ handler[t] = "none" /\ pc # "idle"
  /\ t = "cmd" => tpc \in Guarded \cup Unguarded

\* showtech_signal_handler: the first Ctrl-C announces the end and redirects
\* the output to the buffer ...
Interrupt(t) ==
  /\ CanInterrupt(t) /\ signals > 0 /\ ~gUserInterrupt
  /\ signals' = signals - 1 /\ gUserInterrupt' = TRUE
  /\ IF gUserInterruptAlarm
       THEN UNCHANGED <<gUserInterruptAlarm, tty, handler>>
       ELSE /\ gUserInterruptAlarm' = TRUE
            /\ gUserInterruptVtyType' = vtyType /\ vtyType' = "file"
            /\ handler' = [handler EXCEPT ![t] = "int"]
            /\ UNCHANGED gVtyOldType
  /\ UNCHANGED <<main, thread, locks, waitCond, gCommandFailed,
                 gThreadCancelled, alarm, report>>

\* ... and arms the alarm.
ArmAlarm(t) ==
  /\ handler[t] = "int"
  /\ handler' = [handler EXCEPT ![t] = "none"] /\ alarm' = TRUE
  /\ UNCHANGED <<main, thread, locks, waitCond, flags, tty, signals, report>>

\* showtech_Zsignal_handler: Ctrl-Z wakes the main thread at once.
Suspend(t) ==
  /\ CanInterrupt(t) /\ signals > 0 /\ ~gUserInterrupt
  /\ signals' = signals - 1 /\ gUserInterrupt' = TRUE
  /\ handler' = [handler EXCEPT ![t] = "tstp"]
  /\ UNCHANGED <<main, thread, locks, waitCond, gUserInterruptAlarm,
                 gCommandFailed, gThreadCancelled, tty, alarm, report>>

\* user_interrupt_handler: the alarm rings, or rings after show tech is over
\* and finds the handler that was there before.
Alarm(t) ==
  /\ alarm /\ CanInterrupt(t)
  /\ alarm' = FALSE /\ handler' = [handler EXCEPT ![t] = "alrm"]
  /\ UNCHANGED <<main, thread, locks, waitCond, flags, tty, signals, report>>

AlarmOutside ==
  /\ alarm /\ pc = "idle"
  /\ alarm' = FALSE
  /\ UNCHANGED <<main, thread, locks, waitCond, flags, tty, handler, signals,
                 report>>

\* Both wake the main thread under waitMutex, a lock the interrupted thread
\* may hold itself.
HandlerLock(t) ==
  /\ handler[t] \in {"alrm", "tstp"} /\ waitMutex = "none"
  /\ waitMutex' = t
  /\ handler' = [handler EXCEPT ![t] = IF @ = "alrm" THEN "alrmlocked"
                                                     ELSE "tstplocked"]
  /\ UNCHANGED <<main, thread, cleanupMutex, ovsdbMutex, other, waitCond,
                 flags, tty, alarm, signals, report>>

HandlerSignal(t) ==
  /\ handler[t] \in {"alrmlocked", "tstplocked"}
  /\ SignalWaiter /\ waitMutex' = "none"
  /\ handler' = [handler EXCEPT ![t] = IF @ = "alrmlocked" THEN "alrmdone"
                                                           ELSE "none"]
  /\ UNCHANGED <<main, thread, cleanupMutex, ovsdbMutex, other, flags, tty,
                 alarm, signals, report>>

AlarmDone(t) ==
  /\ handler[t] = "alrmdone"
  /\ gUserInterruptAlarm' = FALSE
  /\ handler' = [handler EXCEPT ![t] = "none"]
  /\ UNCHANGED <<main, thread, locks, waitCond, gUserInterrupt,
                 gCommandFailed, gThreadCancelled, tty, alarm, signals, report>>

-----------------------------------------------------------------------------
(* Another thread of vtysh in and out of its critical section.             *)

OtherEnter ==
  /\ OtherThread /\ other = "out" /\ ovsdbMutex = "none"
  /\ other' = "in" /\ ovsdbMutex' = "other"
  /\ UNCHANGED <<main, thread, waitMutex, cleanupMutex, waitCond, flags, tty,
                 sig, report>>

OtherLeave ==
  /\ other = "in"
  /\ other' = "out" /\ ovsdbMutex' = "none"
  /\ UNCHANGED <<main, thread, waitMutex, cleanupMutex, waitCond, flags, tty,
                 sig, report>>

-----------------------------------------------------------------------------

MainStep ==
  \/ NothingToRun \/ Configured \/ NextCommand \/ CreateFails
  \/ (\E k \in Kinds : Create(k))
  \/ LockToWait \/ Wait \/ WakeUp \/ TimedOut \/ Relock \/ UnlockWait
  \/ CheckAlarm \/ Branch \/ ReapTimedOut \/ ReapInterrupted \/ Join
  \/ After \/ Report \/ Exit

CmdStep ==
  \/ PushCleanup \/ LockCleanup \/ LockOvsdb
  \/ (\E o \in {"ok", "failed"}, q \in BOOLEAN : ExecDone(o, q))
  \/ LockToSignal \/ SignalMain \/ UnlockSignal \/ PopCleanup
  \/ UnlockCleanup \/ CancelTakesEffect \/ Cleanup

SignalStep(t) ==
  \/ Interrupt(t) \/ Suspend(t) \/ Alarm(t)

HandlerStep(t) ==
  \/ ArmAlarm(t) \/ HandlerLock(t) \/ HandlerSignal(t) \/ AlarmDone(t)

Next ==
  \/ \E m \in {"all", "feature"}, d \in {"terminal", "file"} : Invoke(m, d)
  \/ MainStep \/ CmdStep
  \/ \E t \in Threads : SignalStep(t) \/ HandlerStep(t)
  \/ AlarmOutside \/ OtherEnter \/ OtherLeave

Spec == Init /\ [][Next]_vars

\* Every thread and handler is scheduled, the time of a wait and of the alarm
\* passes; nobody has to invoke show tech or send a signal.
Fairness ==
  /\ WF_vars(MainStep)
  /\ WF_vars(CmdStep)
  /\ \A t \in Threads : WF_vars(HandlerStep(t))
  /\ WF_vars(\E t \in Threads : Alarm(t))
  /\ WF_vars(OtherLeave)

FairSpec == Spec /\ Fairness

-----------------------------------------------------------------------------

MainOK ==
  /\ pc \in {"idle", "config", "loop", "create", "lock", "locked", "wait",
             "relock", "woken", "alarmchk", "branch", "timedout",
             "interrupted", "join", "after", "report", "exit"}
  /\ cur \in 0..NCmds + 1 /\ error \in {"none", "timedout"}
  /\ threadCancelled \in BOOLEAN /\ result \in {"none", "success", "warning"}
ThreadOK ==
  /\ tpc \in {"none", "begin", "cleanup", "popped", "ended"} \cup Guarded
  /\ kind \in AllKinds \cup {"none"}
  /\ outcome \in {"none", "ok", "failed"} /\ cancelled \in BOOLEAN
LocksOK ==
  /\ waitMutex \in Threads \cup {"none"}
  /\ cleanupMutex \in {"cmd", "none"}
  /\ ovsdbMutex \in {"cmd", "other", "none"} /\ other \in {"in", "out"}
  /\ waitCond \in BOOLEAN
FlagsOK ==
  /\ gUserInterrupt \in BOOLEAN /\ gUserInterruptAlarm \in BOOLEAN
  /\ gCommandFailed \in BOOLEAN /\ gThreadCancelled \in BOOLEAN
TtyOK ==
  /\ vtyType \in {"term", "file"} /\ gVtyOldType \in {"term", "file"}
  /\ gUserInterruptVtyType \in {"unset", "term", "file"}
HandlerStates ==
  {"none", "int", "tstp", "tstplocked", "alrm", "alrmlocked", "alrmdone"}
SigOK ==
  /\ handler \in [Threads -> HandlerStates]
  /\ alarm \in BOOLEAN /\ signals \in Nat
ReportOK ==
  /\ mode \in {"all", "feature"} /\ dest \in {"terminal", "file"}
  /\ runs \in Nat /\ failure_count \in Nat
  /\ command_failed \in SUBSET Cmds /\ skip \in BOOLEAN
  /\ failed \in SUBSET Cmds /\ late \in Nat

TypeOK == /\ MainOK /\ ThreadOK /\ LocksOK /\ FlagsOK
          /\ TtyOK /\ SigOK /\ ReportOK

-----------------------------------------------------------------------------
(* Properties.                                                             *)

\* exec_showtech_cmd says CMD_SUCCESS only of a command that was executed to
\* its end with success, however its end, the timeout, the alarm and the
\* user's signals interleave.
SuccessIsReal ==
  pc = "after" /\ result = "success" => outcome = "ok" /\ ~cancelled

\* A command that was cancelled, by timeout or by the user, is never reported
\* as a success, and the run knows that it cancelled a thread
\* (gThreadCancelled, logged by cli_show_tech at its end).
CancelReported ==
  pc = "after" /\ cancelled => result = "warning" /\ gThreadCancelled

\* After Ctrl-C or Ctrl-Z at most one more command is begun: the one whose
\* loop test was already behind.
InterruptStops == late <= 1

\* The failures of a run are all in the list it prints, and the number above
\* the list counts them: no failed command is dropped on the way to the
\* report, whatever earlier runs left in the flags.
NoFailureHidden ==
  /\ pc \in {"loop", "report"} => failure_count = Cardinality(failed)
  /\ pc = "report" => failed \subseteq command_failed

\* A new command thread is created only when the previous one is gone: the
\* two would share gCommandFailed, the mutexes and waitCond.
OneCommandAtATime == pc \in {"loop", "create"} => tpc = "none"

\* As long as the user sends no signal, show tech gives the terminal back as
\* it took it and leaves no alarm behind, commands that time out included.
QuietRunLeavesNoTrace ==
  signals = MaxSignals /\ pc = "idle" => vtyType = "term" /\ ~alarm

\* What can keep a run from returning, and nothing else does: a handler waits
\* for the waitMutex its own thread holds, a cancelled thread took a mutex
\* with it, or the main thread, woken before CMD_MAX_TIME, joins a command
\* that never ends without having cancelled it.
SelfDeadlock ==
  \E t \in Threads : handler[t] \in {"alrm", "tstp"} /\ waitMutex = t
OrphanedWait ==
  /\ waitMutex = "cmd" /\ tpc \notin {"locked", "signalled"}
  /\ handler["cmd"] \notin {"alrmlocked", "tstplocked"}
OrphanedCleanup ==
  cleanupMutex = "cmd" /\ tpc \in {"none", "begin", "pushed", "ended"}
JoinsHangingCommand ==
  pc = "join" /\ kind = "hang" /\ ~cancelled /\ error = "none"

\* Without signals every invocation returns to the prompt: commands that end
\* are waited for, commands that never end are cancelled after CMD_MAX_TIME
\* and the lock they hold is released for the other threads of vtysh. The
\* exception: pthread_cond_timedwait stands in no loop, and where it may return
\* early, one spurious wakeup during a command that never ends is taken for its
\* end, and the command is joined for ever.
RunReturns ==
  pc = "config" ~> \/ pc = "idle" \/ signals < MaxSignals
                   \/ Spurious /\ JoinsHangingCommand

HangsAreKnown ==
  pc = "config" ~> \/ pc = "idle" \/ SelfDeadlock \/ OrphanedWait
                   \/ OrphanedCleanup \/ JoinsHangingCommand

\* show_tech_vty.c:251, of exec_showtech_cmd: `CMD_SUCCESS on success
\* CMD_WARNING otherwise'. A quick command that succeeds and that nobody
\* interrupts is reported as a success. Its signal may come before the main
\* thread waits for it.
SuccessReported ==
  pc = "after" /\ outcome = "ok" /\ kind = "quick" /\ ~gUserInterrupt
    => result = "success"

-----------------------------------------------------------------------------
(* The inductive invariant behind SuccessIsReal, CancelReported,           *)
(* InterruptStops, NoFailureHidden and OneCommandAtATime.                  *)

\* exec_showtech_cmd, from pthread_create to pthread_join.
Waiting   == {"lock", "locked", "wait", "relock", "woken", "alarmchk",
              "branch"}
Executing == Waiting \cup {"timedout", "interrupted", "join"}

\* The cursor is on a command while the loop handles one.
CursorInv ==
  /\ pc # "idle" => cur \in 1..NCmds + 1
  /\ pc \in Executing \cup {"create", "after"} => cur \in Cmds
  /\ pc = "report" => cur = NCmds + 1

\* The command thread lives exactly within exec_showtech_cmd.
ThreadInv == pc \in Executing <=> tpc # "none"

\* A command is cancelled only past Branch, and then exec_showtech_cmd is
\* bound to return CMD_WARNING.
CancelInv ==
  /\ pc \in Waiting => ~cancelled
  /\ pc = "timedout" => cancelled
  /\ pc = "interrupted" => gUserInterrupt /\ (cancelled => threadCancelled)
  /\ pc = "join" /\ cancelled =>
       /\ gThreadCancelled
       /\ gCommandFailed \/ (gUserInterrupt /\ threadCancelled)

\* The command's own result is there once its thread is past exec, and a
\* failure is kept in gCommandFailed.
OutcomeInv ==
  /\ tpc \in {"begin", "pushed", "exec", "execlocked"} => outcome = "none"
  /\ tpc \in {"executed", "locked", "signalled", "unlocked", "popped"}
       => outcome # "none"
  /\ tpc = "cleanup" => cancelled
  /\ tpc = "ended" /\ ~cancelled => outcome # "none"
  /\ tpc # "none" /\ outcome = "failed" => gCommandFailed

\* gUserInterrupt is seen after at most one more command.
LateInv ==
  /\ pc \in {"config", "loop", "create"} => late = 0
  /\ late <= 1 /\ (late = 1 /\ pc # "idle" => gUserInterrupt)

\* The failures so far are before the cursor, flagged and counted.
FailedInv ==
  pc \notin {"idle", "exit"} =>
    /\ failed \subseteq 1..cur - 1
    /\ failed \subseteq command_failed
    /\ failure_count = Cardinality(failed)

IInv ==
  /\ TypeOK /\ CursorInv /\ ThreadInv /\ CancelInv /\ OutcomeInv /\ LateInv
  /\ FailedInv /\ SuccessIsReal /\ CancelReported

\* Behind QuietRunLeavesNoTrace: without a signal no handler runs, so that only
\* localfile has changed the type of the terminal.
QuietInv ==
  /\ signals <= MaxSignals
  /\ signals = MaxSignals =>
       /\ ~alarm /\ \A t \in Threads : handler[t] = "none"
       /\ gUserInterruptVtyType = "unset"
       /\ vtyType = IF pc # "idle" /\ dest = "file" THEN "file" ELSE "term"
       /\ pc # "idle" /\ dest = "file" => gVtyOldType = "term"
=============================================================================
