------------------------------ MODULE DiagDump ------------------------------
(***************************************************************************)
(* `diag-dump FEATURE basic [FILENAME]' of vtysh,                          *)
(* src/cli/diag_dump_vty.c.                                                *)
(*                                                                         *)
(* The main thread asks the daemons of a feature that support diag-dump    *)
(* one after the other, each on a thread of its own that connects to the   *)
(* daemon, waits for its reply and writes it to the terminal or the file.  *)
(* The main thread waits for the end of the thread, for FUN_MAX_TIME or    *)
(* for the user, as show tech does, and cancels a thread that is late; the *)
(* cleanup handler of the thread closes its connection.                    *)
(*                                                                         *)
(* What is written is left out, except which sections are.                 *)
(***************************************************************************)
EXTENDS Naturals, FiniteSets, Sequences

CONSTANTS
  MaxRequests,    \* bound: daemons that all the runs together may ask
  MaxSignals,     \* bound: SIGINT and SIGTSTP the user sends
  SignalThreads,  \* the threads the kernel may deliver a signal to
  Kinds           \* durations of a request: "quick", "slow" or "hang"

Threads == {"main", "cmd"}

ASSUME DiagAssumption ==
  /\ MaxRequests \in Nat /\ MaxSignals \in Nat
  /\ SignalThreads \subseteq Threads
  /\ Kinds \subseteq {"quick", "slow", "hang"}

VARIABLES
  features,      \* the feature mapping, only read
  installed,     \* the features that have the command, only read
  pc,            \* where the main thread is
  iter,          \* the feature
  cur,           \* iter_daemon
  daemon_count, daemon_resp,
  dest,          \* the terminal or a file
  return_val,    \* CMD_SUCCESS or CMD_WARNING
  message,       \* the last line: captured, or failed for some daemons
  error, threadCancelled, result,   \* of vtysh_diag_dump_create_thread
  tpc,           \* where the thread is
  kind,          \* whether its daemon answers
  client,        \* the connection: NULL, open, or freed and not yet NULL
  reply,         \* history: what vtysh_diag_dump_daemon returned
  cancelled,     \* pthread_cancel was called on it
  waitMutex, cleanupMutex, waitCond,
  gInterrupt, gAlarm, gFailed,   \* gDiagDumpUserInterrupt, ...Alarm,
                                 \* gDiagDumpCommandFailed
  handler,       \* the signal handler each thread is in
  alarm,         \* the alarm clock is armed
  signals,       \* signals the user may still send
  full,          \* no space is left for the file
  section,       \* of each daemon: how far the writing of its section is
  cut,           \* history: a write of a section was short, and the disk has
                 \* been full since then, or was freed
  answered,      \* history: daemons that answered this run, with success
  marks,         \* history: a request that was not Late leaked its connection
                 \* or closed it twice, a mutex was left locked
  requests       \* requests that the runs so far may make

show   == <<iter, cur, daemon_count, daemon_resp, dest, return_val, message,
            requests>>
call   == <<error, threadCancelled, result>>
main   == <<pc, show, call>>
thread == <<tpc, kind, client, reply, cancelled>>
locks  == <<waitMutex, cleanupMutex, waitCond>>
flags  == <<gInterrupt, gAlarm, gFailed>>
sig    == <<handler, alarm, signals>>
output == <<full, section, cut>>
hist   == <<answered, marks>>
map    == <<features, installed>>
world  == <<map, output, hist>>
aside  == <<thread, locks, flags, sig, world>>
dvars  == <<main, aside>>

Init ==
  /\ pc = "idle" /\ iter = 1 /\ cur = 0 /\ daemon_count = 0 /\ daemon_resp = 0
  /\ dest = "terminal" /\ return_val = "success" /\ message = "none"
  /\ error = "none" /\ threadCancelled = FALSE /\ result = 0
  /\ tpc = "none" /\ kind = "quick" /\ client = "NULL" /\ reply = "none"
  /\ cancelled = FALSE
  /\ waitMutex = "none" /\ cleanupMutex = "none" /\ waitCond = FALSE
  /\ gInterrupt = FALSE /\ gAlarm = FALSE /\ gFailed = FALSE
  /\ handler = [t \in Threads |-> "none"] /\ alarm = FALSE
  /\ signals = MaxSignals
  /\ full = FALSE /\ section = <<>> /\ cut = "none"
  /\ answered = {} /\ marks = {}
  /\ requests = 0

-----------------------------------------------------------------------------
(* The main thread: vtysh_diag_dump_show.                                  *)

Main == handler["main"] = "none"
Asked(f) == {i \in DOMAIN features[f].daemons : features[f].daemons[i].dump}

\* The globals are initialised and the handlers installed. The feature is
\* found: there is a command only for features of the mapping.
Invoke(f, d) ==
  /\ pc = "idle" /\ Main /\ f \in installed
  /\ requests' = requests + Cardinality(Asked(f)) /\ requests' <= MaxRequests
  /\ pc' = IF d = "file" THEN "open" ELSE "header"
  /\ iter' = f /\ cur' = 0 /\ daemon_count' = 0 /\ daemon_resp' = 0
  /\ dest' = d /\ return_val' = "success" /\ message' = "none"
  /\ gInterrupt' = FALSE /\ gAlarm' = FALSE
  /\ full' = FALSE /\ cut' = "none" /\ answered' = {}
  /\ section' = [i \in DOMAIN features[f].daemons |-> "none"]
  /\ UNCHANGED <<call, thread, locks, gFailed, sig, map, marks>>

\* The file name is refused, the directory cannot be made or the file exists.
OpenFails ==
  /\ pc = "open" /\ Main
  /\ pc' = "exit" /\ return_val' = "warning"
  /\ UNCHANGED <<iter, cur, daemon_count, daemon_resp, dest, message, requests,
                 call, aside>>

Open ==
  /\ pc = "open" /\ Main
  /\ pc' = "header"
  /\ UNCHANGED <<show, call, aside>>

\* A write into the file fails.
WriteFails == dest = "file" /\ full

\* WRITE_ERR_HANDLE_LOG leaves for USER_INTERRUPT.
Header ==
  /\ pc = "header" /\ Main
  /\ IF WriteFails THEN pc' = "userint" /\ return_val' = "warning"
                   ELSE pc' = "loop" /\ UNCHANGED return_val
  /\ UNCHANGED <<iter, cur, daemon_count, daemon_resp, dest, message, requests,
                 call, aside>>

\* The next daemon of the list that supports diag-dump.
IsNext(d) ==
  d > cur /\ \A other \in Asked(iter) : other > cur => d <= other

Bug_NextStep ==
  /\ pc = "loop" /\ Main
  /\ \/ /\ \A d \in Asked(iter) : d <= cur
        /\ pc' = "footer" /\ UNCHANGED cur
     \/ \E d \in Asked(iter) :
          /\ IsNext(d) /\ cur' = d
          /\ pc' = IF gInterrupt THEN "userint" ELSE "create"
  /\ UNCHANGED <<iter, daemon_count, daemon_resp, dest, return_val, message,
                 requests, call, aside>>
NextStep ==
  /\ pc = "loop" /\ Main
  /\ \/ /\ \A d \in Asked(iter) : d <= cur
        /\ pc' = "footer" /\ UNCHANGED <<cur, daemon_count>>
     \/ \E d \in Asked(iter) :
          /\ IsNext(d) /\ cur' = d /\ daemon_count' = daemon_count + 1
          /\ pc' = IF gInterrupt THEN "userint" ELSE "create"
  /\ UNCHANGED <<iter, daemon_resp, dest, return_val, message, requests, call,
                 aside>>

-----------------------------------------------------------------------------
(* vtysh_diag_dump_create_thread.                                          *)

Create(k) ==
  /\ pc = "create" /\ Main
  /\ pc' = "lock" /\ error' = "none" /\ threadCancelled' = TRUE
  /\ gFailed' = FALSE
  /\ tpc' = "begin" /\ kind' = k /\ reply' = "none" /\ cancelled' = FALSE
  /\ UNCHANGED <<show, result, client, locks, gInterrupt, gAlarm, sig, world>>

CreateFails ==
  /\ pc = "create" /\ Main
  /\ pc' = "after" /\ result' = 1 /\ gFailed' = FALSE
  /\ UNCHANGED <<show, error, threadCancelled, thread, locks, gInterrupt,
                 gAlarm, sig, world>>

LockToWait ==
  /\ pc = "lock" /\ Main /\ waitMutex = "none"
  /\ waitMutex' = "main" /\ pc' = "locked"
  /\ UNCHANGED <<show, call, thread, cleanupMutex, waitCond, flags, sig,
                 world>>

\* A signal given before this step is lost.
Wait ==
  /\ pc = "locked" /\ Main
  /\ waitMutex' = "none" /\ pc' = "wait" /\ waitCond' = FALSE
  /\ UNCHANGED <<show, call, thread, cleanupMutex, flags, sig, world>>

WakeUp ==
  /\ pc = "wait" /\ Main /\ waitCond
  /\ pc' = "relock" /\ waitCond' = FALSE
  /\ UNCHANGED <<show, call, thread, waitMutex, cleanupMutex, flags, sig,
                 world>>

\* After FUN_MAX_TIME: the daemon hangs or is so slow that its answer comes at
\* the same time, or the thread is stuck at a mutex that an earlier one left
\* locked, or it signalled too early and is over.
TimedOut ==
  /\ pc = "wait" /\ Main /\ ~waitCond
  /\ \/ tpc = "request" /\ kind = "hang"
     \/ kind = "slow"
     \/ tpc = "pushed" /\ cleanupMutex = "cmd"
     \/ tpc = "ended"
  /\ pc' = "relock" /\ error' = "timedout"
  /\ UNCHANGED <<show, threadCancelled, result, thread, locks, flags, sig,
                 world>>

Relock ==
  /\ pc = "relock" /\ Main /\ waitMutex = "none"
  /\ waitMutex' = "main" /\ pc' = "woken"
  /\ UNCHANGED <<show, call, thread, cleanupMutex, waitCond, flags, sig,
                 world>>

UnlockWait ==
  /\ pc = "woken" /\ Main
  /\ waitMutex' = "none" /\ pc' = "alarmchk"
  /\ UNCHANGED <<show, call, thread, cleanupMutex, waitCond, flags, sig,
                 world>>

\* The daemon answered within the 10 s of a Ctrl-C.
CheckAlarm ==
  /\ pc = "alarmchk" /\ Main
  /\ pc' = "branch"
  /\ IF gAlarm
       THEN alarm' = FALSE /\ threadCancelled' = FALSE /\ gAlarm' = FALSE
       ELSE UNCHANGED <<threadCancelled, gAlarm, alarm>>
  /\ UNCHANGED <<show, error, result, thread, locks, gInterrupt, gFailed,
                 handler, signals, world>>

\* pthread_cancel after a timeout or an interrupt.
MustCancel == error = "timedout" \/ (gInterrupt /\ threadCancelled)

Branch ==
  /\ pc = "branch" /\ Main
  /\ pc' = IF MustCancel THEN "reap" ELSE "join"
  /\ cancelled' = MustCancel
  /\ UNCHANGED <<show, call, tpc, kind, client, reply, locks, flags, sig,
                 world>>

\* Through cleanupMutex; a timeout is a failure.
Reap ==
  /\ pc = "reap" /\ Main /\ cleanupMutex = "none"
  /\ pc' = "join" /\ gFailed' = (gFailed \/ error = "timedout")
  /\ UNCHANGED <<show, call, thread, locks, gInterrupt, gAlarm, sig, world>>

Join ==
  /\ pc = "join" /\ Main /\ tpc = "ended"
  /\ pc' = "after" /\ tpc' = "none"
  /\ result' = IF gFailed \/ (gInterrupt /\ threadCancelled) THEN 1 ELSE 0
  /\ UNCHANGED <<show, error, threadCancelled, kind, client, reply, cancelled,
                 locks, flags, sig, world>>

-----------------------------------------------------------------------------
(* vtysh_diag_dump_show again.                                             *)

After ==
  /\ pc = "after" /\ Main
  /\ daemon_resp' = daemon_resp + (1 - result)
  /\ pc' = IF gInterrupt THEN "userint" ELSE "loop"
  /\ UNCHANGED <<iter, cur, daemon_count, dest, return_val, message, requests,
                 call, aside>>

\* The end of the output, then the last line.
Footer ==
  /\ pc = "footer" /\ Main
  /\ pc' = "userint"
  /\ IF WriteFails
       THEN return_val' = "warning" /\ UNCHANGED message
       ELSE /\ message' = IF daemon_count = daemon_resp THEN "captured"
                                                        ELSE "failed"
            /\ UNCHANGED return_val
  /\ UNCHANGED <<iter, cur, daemon_count, daemon_resp, dest, requests, call,
                 aside>>

\* At the label USER_INTERRUPT an interrupted run writes that it is; a write
\* that fails goes to the label again.
UserInterrupt ==
  /\ pc = "userint" /\ Main
  /\ IF gInterrupt /\ WriteFails
       THEN return_val' = "warning" /\ UNCHANGED pc
       ELSE pc' = "exit" /\ UNCHANGED return_val
  /\ UNCHANGED <<iter, cur, daemon_count, daemon_resp, dest, message, requests,
                 call, aside>>

\* The handlers found at the start are back; the locals are gone, the alarm
\* stays armed if it is.
Exit ==
  /\ pc = "exit" /\ Main
  /\ pc' = "idle" /\ iter' = 1 /\ cur' = 0
  /\ daemon_count' = 0 /\ daemon_resp' = 0
  /\ dest' = "terminal" /\ return_val' = "success" /\ message' = "none"
  /\ error' = "none" /\ threadCancelled' = FALSE /\ result' = 0
  /\ kind' = "quick" /\ reply' = "none" /\ cancelled' = FALSE
  /\ full' = FALSE /\ section' = <<>> /\ cut' = "none" /\ answered' = {}
  /\ UNCHANGED <<requests, tpc, client, locks, flags, sig, map, marks>>


-----------------------------------------------------------------------------
(* The command thread: vtysh_diag_dump_thread and vtysh_diag_dump_daemon.  *)

Cmd == handler["cmd"] = "none"

\* Asynchronous cancellation is on, the cleanup handler is pushed.
PushCleanup ==
  /\ tpc = "begin" /\ Cmd
  /\ tpc' = "pushed"
  /\ UNCHANGED <<main, kind, client, reply, cancelled, locks, flags, sig,
                 world>>

LockCleanup ==
  /\ tpc = "pushed" /\ Cmd /\ cleanupMutex = "none"
  /\ tpc' = "connect" /\ cleanupMutex' = "cmd" /\ client' = "NULL"
  /\ UNCHANGED <<main, kind, reply, cancelled, waitMutex, waitCond, flags, sig,
                 world>>

\* connect_to_daemon has a connection that is not in `client' yet ...
Dial ==
  /\ tpc = "connect" /\ Cmd
  /\ tpc' = "dialled"
  /\ UNCHANGED <<main, kind, client, reply, cancelled, locks, flags, sig,
                 world>>

Connected ==
  /\ tpc = "dialled" /\ Cmd
  /\ tpc' = "request" /\ client' = "open"
  /\ UNCHANGED <<main, kind, reply, cancelled, locks, flags, sig, world>>

\* ... or the daemon does not run.
ConnectFails ==
  /\ tpc = "connect" /\ Cmd
  /\ tpc' = "returned" /\ reply' = "error"
  /\ UNCHANGED <<main, kind, client, cancelled, locks, flags, sig, world>>

\* unixctl_client_transact waits for the daemon, for ever if it hangs.
Transact(r) ==
  /\ tpc = "request" /\ Cmd /\ kind # "hang"
  /\ tpc' = IF r = "ok" THEN "write" ELSE "close"
  /\ reply' = r
  /\ UNCHANGED <<main, kind, client, cancelled, locks, flags, sig, world>>

\* The section of the daemon, from its start to its end.
Proceed ==
  /\ section' = [section EXCEPT ![cur] = IF @ = "none" THEN "partial"
                                                       ELSE "whole"]
  /\ tpc' = IF section[cur] = "none" THEN "write" ELSE "close"

Write ==
  /\ tpc = "write" /\ Cmd /\ ~WriteFails
  /\ Proceed
  /\ UNCHANGED <<main, kind, client, reply, cancelled, locks, flags, sig, map,
                 full, cut, hist>>

\* write() takes what the disk still has space for and returns its length,
\* which is not negative: the rest is dropped and the writing goes on.
ShortWrite ==
  /\ tpc = "write" /\ Cmd /\ dest = "file" /\ ~full
  /\ Proceed
  /\ full' = TRUE /\ cut' = IF cut = "none" THEN "full" ELSE cut
  /\ UNCHANGED <<main, kind, client, reply, cancelled, locks, flags, sig, map,
                 hist>>

\* WRITE_ERR_HANDLE_LOG_DAEMON: the request fails.
Bug_WriteError ==
  /\ tpc = "write" /\ Cmd /\ WriteFails
  /\ tpc' = "close"
  /\ UNCHANGED <<main, kind, client, reply, cancelled, locks, flags, sig,
                 world>>
WriteError ==
  /\ tpc = "write" /\ Cmd /\ WriteFails
  /\ tpc' = "close" /\ reply' = "error"
  /\ UNCHANGED <<main, kind, client, cancelled, locks, flags, sig, world>>

\* The daemon answers just when FUN_MAX_TIME is over: the thread goes on while
\* it is cancelled, and may lose its connection or close it twice.
Late == kind = "slow" /\ error = "timedout"
ClosedTwice == IF client = "freed" /\ ~Late THEN {"twice"} ELSE {}

\* jsonrpc_close frees the connection. NULL is allowed.
CloseClient ==
  /\ client' = IF client = "NULL" THEN "NULL" ELSE "freed"
  /\ marks' = marks \cup ClosedTwice

Close ==
  /\ tpc = "close" /\ Cmd
  /\ tpc' = "closed" /\ CloseClient
  /\ UNCHANGED <<main, kind, reply, cancelled, locks, flags, sig, map, output,
                 answered>>

Forget ==
  /\ tpc = "closed" /\ Cmd
  /\ tpc' = "returned" /\ client' = "NULL"
  /\ UNCHANGED <<main, kind, reply, cancelled, locks, flags, sig, world>>

Returned ==
  /\ tpc = "returned" /\ Cmd
  /\ tpc' = "done"
  /\ gFailed' = (gFailed \/ reply # "ok")
  /\ answered' = IF reply = "ok" THEN answered \cup {cur} ELSE answered
  /\ UNCHANGED <<main, kind, client, reply, cancelled, locks, gInterrupt,
                 gAlarm, sig, map, output, marks>>

LockToSignal ==
  /\ tpc = "done" /\ Cmd /\ waitMutex = "none"
  /\ tpc' = "locked" /\ waitMutex' = "cmd"
  /\ UNCHANGED <<main, kind, client, reply, cancelled, cleanupMutex, waitCond,
                 flags, sig, world>>

\* pthread_cond_signal wakes a waiter, and does nothing if there is none.
SignalWaiter == waitCond' = (waitCond \/ pc = "wait")

SignalMain ==
  /\ tpc = "locked" /\ Cmd
  /\ tpc' = "signalled" /\ SignalWaiter
  /\ UNCHANGED <<main, kind, client, reply, cancelled, waitMutex, cleanupMutex,
                 flags, sig, world>>

UnlockSignal ==
  /\ tpc = "signalled" /\ Cmd
  /\ tpc' = "unlocked" /\ waitMutex' = "none"
  /\ UNCHANGED <<main, kind, client, reply, cancelled, cleanupMutex, waitCond,
                 flags, sig, world>>

\* pthread_cleanup_pop(0): cleanupMutex is still locked.
PopCleanup ==
  /\ tpc = "unlocked" /\ Cmd
  /\ tpc' = "popped"
  /\ UNCHANGED <<main, kind, client, reply, cancelled, locks, flags, sig,
                 world>>

Bug_UnlockCleanup ==
  /\ tpc = "popped" /\ Cmd
  /\ tpc' = "ended"
  /\ UNCHANGED <<main, kind, client, reply, cancelled, locks, flags, sig,
                 world>>
UnlockCleanup ==
  /\ tpc = "popped" /\ Cmd
  /\ tpc' = "ended" /\ cleanupMutex' = "none"
  /\ UNCHANGED <<main, kind, client, reply, cancelled, waitMutex, waitCond,
                 flags, sig, world>>

Guarded == {"pushed", "connect", "dialled", "request", "write", "close",
            "closed", "returned", "done", "locked", "signalled", "unlocked"}
Unguarded == {"begin", "popped"}

\* What a thread that stops here leaves behind: a connection that is not in
\* `client' yet, a mutex.
Left ==
  (IF tpc = "dialled" /\ ~Late THEN {"leak"} ELSE {})
    \cup (IF waitMutex = "cmd" THEN {"wait"} ELSE {})
    \cup (IF tpc = "popped" THEN {"cleanup"} ELSE {})

\* A cancelled thread stops wherever it is, in a signal handler too.
CancelTakesEffect ==
  /\ cancelled /\ tpc \in Guarded \cup Unguarded
  /\ tpc' = IF tpc \in Guarded THEN "cleanup" ELSE "ended"
  /\ handler' = [handler EXCEPT !["cmd"] = "none"]
  /\ marks' = marks \cup Left
  /\ UNCHANGED <<main, kind, client, reply, cancelled, locks, flags, alarm,
                 signals, map, output, answered>>

\* diagdump_thread_cleanup_handler.
Bug_Cleanup ==
  /\ tpc = "cleanup"
  /\ tpc' = "ended" /\ cleanupMutex' = "none"
  /\ client' = "freed"
  /\ marks' = marks \cup ClosedTwice
  /\ UNCHANGED <<main, kind, reply, cancelled, waitMutex, waitCond, flags, sig,
                 map, output, answered>>
Cleanup ==
  /\ tpc = "cleanup"
  /\ tpc' = "ended" /\ cleanupMutex' = "none"
  /\ client' = "NULL"
  /\ marks' = marks \cup ClosedTwice
  /\ UNCHANGED <<main, kind, reply, cancelled, waitMutex, waitCond, flags, sig,
                 map, output, answered>>

-----------------------------------------------------------------------------
(* The signal handlers, on the thread the kernel picks, from Invoke to     *)
(* Exit.                                                                   *)

CanInterrupt(t) ==
  /\ t \in SignalThreads /\ handler[t] = "none" /\ pc # "idle"
  /\ t = "cmd" => tpc \in Guarded \cup Unguarded

\* diagdump_signal_handler: Ctrl-C gives the daemon 10 s.
Interrupt(t) ==
  /\ CanInterrupt(t) /\ signals > 0 /\ ~gInterrupt
  /\ signals' = signals - 1 /\ gInterrupt' = TRUE
  /\ IF gAlarm THEN UNCHANGED <<gAlarm, handler>>
     ELSE gAlarm' = TRUE /\ handler' = [handler EXCEPT ![t] = "int"]
  /\ UNCHANGED <<main, thread, locks, gFailed, alarm, world>>

ArmAlarm(t) ==
  /\ handler[t] = "int"
  /\ handler' = [handler EXCEPT ![t] = "none"] /\ alarm' = TRUE
  /\ UNCHANGED <<main, thread, locks, flags, signals, world>>

\* diagdump_Zsignal_handler: Ctrl-Z wakes the main thread at once.
Suspend(t) ==
  /\ CanInterrupt(t) /\ signals > 0 /\ ~gInterrupt
  /\ signals' = signals - 1 /\ gInterrupt' = TRUE
  /\ handler' = [handler EXCEPT ![t] = "tstp"]
  /\ UNCHANGED <<main, thread, locks, gAlarm, gFailed, alarm, world>>

\* diagdump_user_interrupt_handler: the alarm rings, or rings after the run
\* and finds the handler that was there before.
Alarm(t) ==
  /\ alarm /\ CanInterrupt(t)
  /\ alarm' = FALSE /\ handler' = [handler EXCEPT ![t] = "alrm"]
  /\ UNCHANGED <<main, thread, locks, flags, signals, world>>

AlarmOutside ==
  /\ alarm /\ pc = "idle"
  /\ alarm' = FALSE
  /\ UNCHANGED <<main, thread, locks, flags, handler, signals, world>>

\* Both wake the main thread under waitMutex, which the interrupted thread may
\* hold itself.
HandlerLock(t) ==
  /\ handler[t] \in {"alrm", "tstp"} /\ waitMutex = "none"
  /\ waitMutex' = t
  /\ handler' = [handler EXCEPT ![t] = IF @ = "alrm" THEN "alrmlocked"
                                                     ELSE "tstplocked"]
  /\ UNCHANGED <<main, thread, cleanupMutex, waitCond, flags, alarm, signals,
                 world>>

HandlerSignal(t) ==
  /\ handler[t] \in {"alrmlocked", "tstplocked"}
  /\ SignalWaiter /\ waitMutex' = "none"
  /\ handler' = [handler EXCEPT ![t] = IF @ = "alrmlocked" THEN "alrmdone"
                                                           ELSE "none"]
  /\ UNCHANGED <<main, thread, cleanupMutex, flags, alarm, signals, world>>

AlarmDone(t) ==
  /\ handler[t] = "alrmdone"
  /\ gAlarm' = FALSE /\ handler' = [handler EXCEPT ![t] = "none"]
  /\ UNCHANGED <<main, thread, locks, gInterrupt, gFailed, alarm, signals,
                 world>>

\* The disk of the file becomes full, or has space again; only before a write
\* does it matter. A short write outside the sections of the daemons does no
\* more than that.
DiskChanges ==
  /\ dest = "file" /\ full' = ~full
  /\ cut' = IF cut = "full" THEN "freed" ELSE cut
  /\ pc \in {"header", "footer", "userint"} \/ tpc = "write"
  /\ UNCHANGED <<main, thread, locks, flags, sig, map, section, hist>>

-----------------------------------------------------------------------------

MainStep ==
  \/ OpenFails \/ Open \/ Header \/ NextStep \/ CreateFails
  \/ (\E k \in Kinds : Create(k))
  \/ LockToWait \/ Wait \/ WakeUp \/ TimedOut \/ Relock \/ UnlockWait
  \/ CheckAlarm \/ Branch \/ Reap \/ Join \/ After
  \/ Footer \/ UserInterrupt \/ Exit

CmdStep ==
  \/ PushCleanup \/ LockCleanup \/ Dial \/ Connected \/ ConnectFails
  \/ (\E r \in {"ok", "error"} : Transact(r))
  \/ Write \/ ShortWrite \/ WriteError \/ Close \/ Forget \/ Returned
  \/ LockToSignal \/ SignalMain \/ UnlockSignal \/ PopCleanup
  \/ UnlockCleanup \/ CancelTakesEffect \/ Cleanup

SignalStep(t) == Interrupt(t) \/ Suspend(t) \/ Alarm(t)

HandlerStep(t) ==
  \/ ArmAlarm(t) \/ HandlerLock(t) \/ HandlerSignal(t) \/ AlarmDone(t)

DiagNext ==
  \/ \E f \in installed, d \in {"terminal", "file"} : Invoke(f, d)
  \/ MainStep \/ CmdStep
  \/ \E t \in Threads : SignalStep(t) \/ HandlerStep(t)
  \/ AlarmOutside \/ DiskChanges

-----------------------------------------------------------------------------
(* Properties.                                                             *)

MainOK ==
  /\ pc \in {"idle", "open", "header", "loop", "create", "lock", "locked",
             "wait", "relock", "woken", "alarmchk", "branch", "reap", "join",
             "after", "footer", "userint", "exit"}
  /\ dest \in {"terminal", "file"} /\ return_val \in {"success", "warning"}
  /\ message \in {"none", "captured", "failed"}
  /\ error \in {"none", "timedout"} /\ threadCancelled \in BOOLEAN
  /\ result \in {0, 1} /\ requests \in 0..MaxRequests

ThreadOK ==
  /\ tpc \in {"none", "cleanup", "ended"} \cup Guarded \cup Unguarded
  /\ kind \in {"quick", "slow", "hang"} /\ client \in {"NULL", "open", "freed"}
  /\ reply \in {"none", "ok", "error"} /\ cancelled \in BOOLEAN

LocksOK ==
  /\ waitMutex \in Threads \cup {"none"} /\ cleanupMutex \in {"cmd", "none"}
  /\ waitCond \in BOOLEAN /\ gInterrupt \in BOOLEAN /\ gAlarm \in BOOLEAN
  /\ gFailed \in BOOLEAN

SigOK ==
  /\ alarm \in BOOLEAN /\ signals \in 0..MaxSignals
  /\ handler \in [Threads -> {"none", "int", "tstp", "tstplocked", "alrm",
                              "alrmlocked", "alrmdone"}]

OutputOK ==
  /\ full \in BOOLEAN /\ cut \in {"none", "full", "freed"}
  /\ marks \subseteq {"leak", "twice", "wait", "cleanup"}
  /\ section \in Seq({"none", "partial", "whole"})

NumbersOK ==
  /\ daemon_resp \in 0..daemon_count /\ daemon_count \in 0..Len(section)
  /\ cur \in 0..Len(section) /\ answered \subseteq DOMAIN section

DiagTypeOK == MainOK /\ ThreadOK /\ LocksOK /\ SigOK /\ OutputOK /\ NumbersOK

\* "Diagnostic dump captured for feature" is said only when every daemon of
\* the feature that supports diag-dump has answered and all of its section was
\* written, and there is such a daemon: no timeout, signal, connection that
\* fails or full disk on the way is counted as a daemon that responded. The
\* exception: the code takes a short write for a whole one, so that a section
\* may be cut in a file whose disk filled up and had space again before the
\* next write; a disk that stays full is always noticed.
CapturedIsReal ==
  message = "captured" =>
    /\ Asked(iter) # {} /\ Asked(iter) = answered
    /\ \A i \in answered : section[i] = "whole"
    /\ cut = "none" \/ (dest = "file" /\ cut = "freed")

\* When a request is over no pointer to its connection is left for the next
\* thread or its cleanup handler, and only a thread that was cancelled by the
\* user, or is itself Late, may lose its connection or close it twice: no other
\* timeout does.
ConnectionsClosed ==
  /\ tpc \in {"none", "ended"} => client = "NULL"
  /\ marks \cap {"leak", "twice"} # {} => signals < MaxSignals

\* What can keep a run from returning, and nothing else does: a handler waits
\* for the waitMutex of its own thread, a cancelled thread took a mutex with
\* it, the main thread joins a daemon that hangs without having cancelled it,
\* or an interrupted run writes into a full file again and again.
SelfDeadlock ==
  \E t \in Threads : handler[t] \in {"alrm", "tstp"} /\ waitMutex = t
OrphanedWait    == waitMutex = "cmd" /\ "wait" \in marks
OrphanedCleanup == cleanupMutex = "cmd" /\ "cleanup" \in marks
JoinsHanging ==
  pc = "join" /\ kind = "hang" /\ ~cancelled /\ error = "none"
WritesForEver ==
  pc = "userint" /\ gInterrupt /\ WriteFails

DumpReturns ==
  pc \in {"open", "header"} ~>
    \/ pc = "idle" \/ SelfDeadlock \/ OrphanedWait \/ OrphanedCleanup
    \/ JoinsHanging \/ WritesForEver
=============================================================================
