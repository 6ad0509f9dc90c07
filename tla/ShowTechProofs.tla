--------------------------- MODULE ShowTechProofs ---------------------------
(***************************************************************************)
(* Proofs about ShowTech for every number of commands, runs and signals,   *)
(* every choice of the threads that take signals and of the durations of   *)
(* the commands, with and without spurious wakeups.                        *)
(***************************************************************************)
EXTENDS ShowTechRefinement, FiniteSetTheorems, TLAPS

USE ConstantsAssumption

LEMMA InitIInv == Init => IInv
<1>. SUFFICES ASSUME Init PROVE IInv
  OBVIOUS
<1>1. TypeOK
  <2>1. MainOK
    <3>1. cur \in 0..NCmds + 1
      BY DEF Init
    <3>. QED
      BY <3>1 DEF Init, MainOK
  <2>3. ThreadOK /\ LocksOK
    BY DEF Init, ThreadOK, LocksOK, Guarded, Threads, AllKinds
  <2>2. FlagsOK /\ TtyOK /\ SigOK /\ ReportOK
    BY DEF Init, FlagsOK, TtyOK, SigOK, HandlerStates, ReportOK, Cmds
  <2>. QED
    BY <2>1, <2>2, <2>3 DEF TypeOK
<1>2. CursorInv /\ ThreadInv /\ CancelInv /\ OutcomeInv
  BY DEF Init, CursorInv, ThreadInv, CancelInv, OutcomeInv, Executing, Waiting
<1>3. LateInv /\ FailedInv /\ SuccessIsReal /\ CancelReported
  BY DEF Init, LateInv, FailedInv, SuccessIsReal, CancelReported
<1>. QED
  BY <1>1, <1>2, <1>3 DEF IInv

EnvStep ==
  \/ \E t \in Threads : SignalStep(t) \/ HandlerStep(t)
  \/ AlarmOutside \/ OtherEnter \/ OtherLeave

LEMMA EnvFrame ==
  ASSUME TypeOK, EnvStep
  PROVE  /\ UNCHANGED <<pc, cur, error, threadCancelled, result>>
         /\ UNCHANGED <<tpc, kind, outcome, cancelled>>
         /\ UNCHANGED <<gCommandFailed, gThreadCancelled>>
         /\ UNCHANGED <<mode, dest, runs, failure_count, command_failed, skip,
                        failed, late>>
         /\ gUserInterrupt => gUserInterrupt'
  BY DEF EnvStep, SignalStep, Interrupt, Suspend, Alarm, HandlerStep,
     ArmAlarm, HandlerLock, HandlerSignal, AlarmDone, AlarmOutside,
     OtherEnter, OtherLeave, main, thread, flags, report

LEMMA CmdFrame ==
  ASSUME TypeOK, CmdStep
  PROVE  /\ UNCHANGED <<pc, cur, error, threadCancelled, result>>
         /\ UNCHANGED <<kind, cancelled, gUserInterrupt, gThreadCancelled>>
         /\ UNCHANGED <<mode, dest, runs, failure_count, command_failed,
                        failed, late>>
         /\ gCommandFailed => gCommandFailed'
  BY DEF TypeOK, FlagsOK, CmdStep, PushCleanup, LockCleanup, LockOvsdb, ExecDone,
     LockToSignal, SignalMain, UnlockSignal, PopCleanup, UnlockCleanup,
     CancelTakesEffect, Cleanup, main, flags, report

LEMMA CmdType == ASSUME TypeOK, CmdStep PROVE TypeOK'
<1>. USE DEF CmdStep, PushCleanup, LockCleanup, LockOvsdb, ExecDone,
     LockToSignal, SignalMain, UnlockSignal, PopCleanup, UnlockCleanup,
     CancelTakesEffect, Cleanup
<1>1. MainOK'
  BY CmdFrame DEF TypeOK, MainOK
<1>6. ReportOK'
  BY DEF TypeOK, ReportOK, report
<1>2. ThreadOK'
  BY DEF TypeOK, ThreadOK, Guarded
<1>3. LocksOK'
  BY DEF TypeOK, LocksOK, MainOK, locks, Threads, SignalWaiter
<1>4. FlagsOK'
  BY DEF TypeOK, FlagsOK, flags
<1>5. TtyOK'
  BY DEF TypeOK, TtyOK, tty
<1>7. SigOK'
  BY DEF TypeOK, SigOK, HandlerStates, sig, Threads
<1>. QED
  BY <1>1, <1>2, <1>3, <1>4, <1>5, <1>6, <1>7 DEF TypeOK

LEMMA EnvType == ASSUME TypeOK, EnvStep PROVE TypeOK'
<1>. USE DEF EnvStep, SignalStep, Interrupt, Suspend, Alarm, HandlerStep,
     ArmAlarm, HandlerLock, HandlerSignal, AlarmDone, AlarmOutside,
     OtherEnter, OtherLeave
<1>1. MainOK' /\ ReportOK' /\ ThreadOK'
  BY EnvFrame DEF TypeOK, MainOK, ReportOK, ThreadOK
<1>3. LocksOK'
  <2>1. CASE \E t \in Threads : SignalStep(t)
    BY <2>1 DEF TypeOK, LocksOK, locks
  <2>2. ASSUME NEW t \in Threads, HandlerStep(t) PROVE LocksOK'
    BY <2>2 DEF TypeOK, LocksOK, MainOK, locks, SignalWaiter
  <2>3. CASE AlarmOutside \/ OtherEnter \/ OtherLeave
    BY <2>3 DEF TypeOK, LocksOK, locks
  <2>. QED
    BY <2>1, <2>2, <2>3
<1>4. FlagsOK'
  BY DEF TypeOK, FlagsOK, flags
<1>5. TtyOK' 
  BY DEF TypeOK, TtyOK, tty
<1>6. SigOK' 
  <2>1. ASSUME NEW t \in Threads, SignalStep(t) PROVE SigOK'
    <3>1. CASE Interrupt(t)
      BY <3>1 DEF TypeOK, SigOK, HandlerStates
    <3>2. CASE Suspend(t)
      BY <3>2 DEF TypeOK, SigOK, HandlerStates
    <3>3. CASE Alarm(t)
      BY <3>3 DEF TypeOK, SigOK, HandlerStates
    <3>. QED
      BY <2>1, <3>1, <3>2, <3>3
  <2>2. ASSUME NEW t \in Threads, HandlerStep(t) PROVE SigOK'
    <3>1. CASE ArmAlarm(t)
      BY <3>1 DEF TypeOK, SigOK, HandlerStates
    <3>4. CASE AlarmDone(t)
      BY <3>4 DEF TypeOK, SigOK, HandlerStates
    <3>2. CASE HandlerLock(t)
      BY <3>2 DEF TypeOK, SigOK, HandlerStates
    <3>3. CASE HandlerSignal(t)
      BY <3>3 DEF TypeOK, SigOK, HandlerStates
    <3>. QED
      BY <2>2, <3>1, <3>2, <3>3, <3>4
  <2>3. CASE AlarmOutside \/ OtherEnter \/ OtherLeave
    BY <2>3 DEF TypeOK, SigOK, sig
  <2>. QED
    BY <2>1, <2>2, <2>3
<1>. QED
  BY <1>1, <1>3, <1>4, <1>5, <1>6 DEF TypeOK

LEMMA InvokeType ==
  ASSUME TypeOK, NEW m \in {"all", "feature"}, NEW d \in {"terminal", "file"},
         Invoke(m, d)
  PROVE  TypeOK'
<1>. USE DEF Invoke
<1>1. MainOK' /\ ThreadOK' /\ LocksOK'
  BY DEF TypeOK, MainOK, ThreadOK, LocksOK, thread, locks
<1>2. FlagsOK' /\ TtyOK' /\ SigOK'
  BY DEF TypeOK, FlagsOK, TtyOK, SigOK, sig
<1>3. ReportOK'
  <2>1. command_failed' \in SUBSET Cmds /\ failed' \in SUBSET Cmds
    BY DEF TypeOK, ReportOK
  <2>2. /\ mode' \in {"all", "feature"} /\ dest' \in {"terminal", "file"}
        /\ skip' \in BOOLEAN
    OBVIOUS
  <2>3. runs' \in Nat /\ failure_count' \in Nat /\ late' \in Nat
    BY DEF TypeOK, ReportOK
  <2>. QED
    BY <2>1, <2>2, <2>3 DEF ReportOK
<1>. QED
  BY <1>1, <1>2, <1>3 DEF TypeOK

LEMMA MainType == ASSUME TypeOK, CursorInv, MainStep PROVE TypeOK'
<1>. USE DEF MainStep, NothingToRun, Configured, NextCommand, CreateFails,
     Create, LockToWait, Wait, WakeUp, TimedOut, Relock, UnlockWait,
     CheckAlarm, Branch, ReapTimedOut, ReapInterrupted, Join, After, Report,
     Exit
<1>1. MainOK'
  <2>1. pc' \in {"idle", "config", "loop", "create", "lock", "locked", "wait",
                 "relock", "woken", "alarmchk", "branch", "timedout",
                 "interrupted", "join", "after", "report", "exit"}
    BY DEF TypeOK, MainOK, main
  <2>2. cur' \in 0..NCmds + 1
    BY DEF TypeOK, MainOK, CursorInv, Executing, Waiting, Cmds
  <2>3. error' \in {"none", "timedout"} /\ threadCancelled' \in BOOLEAN
    BY DEF TypeOK, MainOK
  <2>4. result' \in {"none", "success", "warning"}
    BY DEF TypeOK, MainOK, Verdict
  <2>. QED
    BY <2>1, <2>2, <2>3, <2>4 DEF MainOK
<1>2. ThreadOK'
  BY DEF TypeOK, ThreadOK, thread, MustCancel, Guarded, AllKinds
<1>3. LocksOK'
  BY DEF TypeOK, LocksOK, locks, Threads
<1>4. FlagsOK'
  BY DEF TypeOK, FlagsOK, MainOK, flags, CancelNoted
<1>5. TtyOK'
  BY DEF TypeOK, TtyOK, tty, RestoredType
<1>6. SigOK'
  BY DEF TypeOK, SigOK, sig
<1>7. ReportOK'
  <2>1. CASE After
    <3>1. cur \in Cmds
      BY <2>1 DEF CursorInv
    <3>. QED
      BY <2>1, <3>1 DEF TypeOK, ReportOK, Flagged
  <2>2. CASE Report
    BY <2>2 DEF TypeOK, ReportOK
  <2>3. CASE \E k \in Kinds : Create(k)
    BY <2>3 DEF TypeOK, ReportOK
  <2>4. CASE UNCHANGED report
    BY <2>4 DEF TypeOK, ReportOK, report
  <2>. QED
    BY <2>1, <2>2, <2>3, <2>4
<1>. QED
  BY <1>1, <1>2, <1>3, <1>4, <1>5, <1>6, <1>7 DEF TypeOK

-----------------------------------------------------------------------------
(* Every step preserves the inductive invariant.                           *)

LEMMA InvokeIInv ==
  ASSUME IInv, NEW m \in {"all", "feature"}, NEW d \in {"terminal", "file"},
         Invoke(m, d)
  PROVE  IInv'
<1>1. TypeOK'
  BY InvokeType DEF IInv
<1>2. CursorInv' /\ ThreadInv' /\ CancelInv'
  BY DEF IInv, Invoke, CursorInv, ThreadInv, CancelInv, Executing, Waiting,
     thread
<1>3. OutcomeInv'
  BY DEF IInv, Invoke, OutcomeInv, ThreadInv, Executing, Waiting, thread
<1>4. LateInv' /\ SuccessIsReal' /\ CancelReported'
  BY DEF Invoke, LateInv, SuccessIsReal, CancelReported
<1>5. FailedInv'
  BY FS_EmptySet DEF Invoke, FailedInv
<1>. QED
  BY <1>1, <1>2, <1>3, <1>4, <1>5 DEF IInv

LEMMA CmdIInv == ASSUME IInv, CmdStep PROVE IInv'
<1>1. TypeOK'
  BY CmdType DEF IInv
<1>2. CursorInv' /\ LateInv' /\ FailedInv'
  BY CmdFrame DEF IInv, CursorInv, LateInv, FailedInv, Executing, Waiting
<1>3. ThreadInv'
  <2>1. tpc # "none" /\ tpc' # "none"
    BY DEF CmdStep, PushCleanup, LockCleanup, LockOvsdb, ExecDone,
       LockToSignal, SignalMain, UnlockSignal, PopCleanup, UnlockCleanup,
       CancelTakesEffect, Cleanup, Guarded, Unguarded
  <2>. QED
    BY <2>1, CmdFrame DEF IInv, ThreadInv
<1>4. CancelInv'
  BY CmdFrame DEF IInv, CancelInv
<1>5. OutcomeInv'
  BY DEF IInv, TypeOK, FlagsOK, ThreadOK, OutcomeInv, CmdStep, PushCleanup,
     LockCleanup, LockOvsdb, ExecDone, LockToSignal, SignalMain, UnlockSignal,
     PopCleanup, UnlockCleanup, CancelTakesEffect, Cleanup, Guarded,
     Unguarded, flags
<1>6. SuccessIsReal' /\ CancelReported'
  <2>1. pc # "after"
    <3>1. tpc # "none"
      BY DEF CmdStep, PushCleanup, LockCleanup, LockOvsdb, ExecDone,
         LockToSignal, SignalMain, UnlockSignal, PopCleanup, UnlockCleanup,
         CancelTakesEffect, Cleanup, Guarded, Unguarded
    <3>. QED
      BY <3>1 DEF IInv, ThreadInv, Executing, Waiting
  <2>. QED
    BY <2>1, CmdFrame DEF IInv, SuccessIsReal, CancelReported
<1>. QED
  BY <1>1, <1>2, <1>3, <1>4, <1>5, <1>6 DEF IInv

LEMMA EnvIInv == ASSUME IInv, EnvStep PROVE IInv'
<1>1. TypeOK'
  BY EnvType DEF IInv
<1>2. CursorInv' /\ LateInv' /\ FailedInv'
  BY EnvFrame DEF IInv, CursorInv, LateInv, FailedInv, Executing, Waiting
<1>3. ThreadInv' /\ CancelInv' /\ OutcomeInv'
  BY EnvFrame DEF IInv, ThreadInv, CancelInv, OutcomeInv, Executing, Waiting
<1>4. SuccessIsReal' /\ CancelReported'
  BY EnvFrame DEF IInv, SuccessIsReal, CancelReported
<1>. QED
  BY <1>1, <1>2, <1>3, <1>4 DEF IInv

LEMMA MainIInv == ASSUME IInv, MainStep PROVE IInv'
<1>. USE DEF MainStep, NothingToRun, Configured, NextCommand, CreateFails,
     Create, LockToWait, Wait, WakeUp, TimedOut, Relock, UnlockWait,
     CheckAlarm, Branch, ReapTimedOut, ReapInterrupted, Join, After, Report,
     Exit
<1>1. TypeOK'
  BY MainType DEF IInv
<1>2. CursorInv'
  BY DEF IInv, TypeOK, MainOK, CursorInv, EndOfList, Executing, Waiting, Cmds
<1>3. ThreadInv'
  BY DEF IInv, ThreadInv, Executing, Waiting, thread
<1>4. CancelInv'
  <2>1. CASE Branch
    BY <2>1 DEF IInv, TypeOK, FlagsOK, ThreadOK, CancelInv, MustCancel,
       Waiting, flags
  <2>2. CASE ReapTimedOut
    BY <2>2 DEF IInv, CancelInv, Waiting
  <2>3. CASE ReapInterrupted
    BY <2>3 DEF IInv, TypeOK, FlagsOK, MainOK, CancelInv, CancelNoted,
       Waiting, thread
  <2>4. CASE \E k \in Kinds : Create(k)
    BY <2>4 DEF CancelInv, Waiting
  <2>5. CASE ~(Branch \/ ReapTimedOut \/ ReapInterrupted
               \/ \E k \in Kinds : Create(k))
    BY <2>5 DEF IInv, CancelInv, Waiting, thread, flags
  <2>. QED
    BY <2>1, <2>2, <2>3, <2>4, <2>5
<1>5. OutcomeInv'
  BY DEF IInv, OutcomeInv, ThreadInv, CancelInv, Executing, Waiting, thread,
     flags
<1>6. LateInv'
  BY DEF IInv, TypeOK, ReportOK, LateInv, StopRequested, flags, report
<1>7. FailedInv'
  <2>1. CASE After
    <3>1. cur \in Cmds /\ cur \notin 1..cur - 1 /\ IsFiniteSet(1..cur - 1)
      BY <2>1, FS_Interval DEF IInv, TypeOK, MainOK, CursorInv, Cmds
    <3>2. /\ failed \subseteq 1..cur - 1 /\ failed \subseteq command_failed
          /\ failure_count = Cardinality(failed)
      BY <2>1 DEF IInv, FailedInv
    <3>3. IsFiniteSet(failed) /\ cur \notin failed
      BY <3>1, <3>2, FS_Subset
    <3>4. Cardinality(failed \cup {cur}) = Cardinality(failed) + 1
      BY <3>3, FS_AddElement
    <3>5. CASE StopRequested
      BY <2>1, <3>5 DEF FailedInv
    <3>6. CASE ~StopRequested /\ result = "warning"
      <4>1. /\ cur' = cur + 1 /\ failed' = failed \cup {cur}
            /\ command_failed' = command_failed \cup {cur}
            /\ failure_count' = failure_count + 1
        BY <2>1, <3>6 DEF Flagged
      <4>2. failed' \subseteq 1..cur' - 1
        BY ONLY <3>1, <3>2, <4>1, ConstantsAssumption DEF Cmds
      <4>. QED
        BY ONLY <3>2, <3>4, <4>1, <4>2 DEF FailedInv
    <3>7. CASE ~StopRequested /\ result # "warning"
      <4>1. /\ cur' = cur + 1 /\ failed' = failed
            /\ command_failed' = command_failed
            /\ failure_count' = failure_count
        BY <2>1, <3>7 DEF IInv, TypeOK, ReportOK
      <4>2. failed' \subseteq 1..cur' - 1
        BY ONLY <3>1, <3>2, <4>1, ConstantsAssumption DEF Cmds
      <4>. QED
        BY ONLY <3>2, <4>1, <4>2 DEF FailedInv
    <3>. QED
      BY <3>5, <3>6, <3>7
  <2>2. CASE Report \/ Exit
    BY <2>2 DEF FailedInv
  <2>3. CASE ~(After \/ Report \/ Exit)
    BY <2>3 DEF IInv, FailedInv, report
  <2>. QED
    BY <2>1, <2>2, <2>3
<1>8. SuccessIsReal' /\ CancelReported'
  BY DEF IInv, TypeOK, ThreadOK, SuccessIsReal, CancelReported, CancelInv,
     OutcomeInv, Verdict, thread, flags
<1>. QED
  BY <1>1, <1>2, <1>3, <1>4, <1>5, <1>6, <1>7, <1>8 DEF IInv

LEMMA StutterIInv == ASSUME IInv, UNCHANGED vars PROVE IInv'
<1>. USE DEF vars, main, thread, locks, flags, tty, sig, report
<1>1. TypeOK'
  BY DEF IInv, TypeOK, MainOK, ThreadOK, LocksOK, FlagsOK, TtyOK, SigOK,
     ReportOK
<1>2. CursorInv' /\ ThreadInv' /\ CancelInv' /\ OutcomeInv'
  BY DEF IInv, CursorInv, ThreadInv, CancelInv, OutcomeInv
<1>3. LateInv' /\ FailedInv' /\ SuccessIsReal' /\ CancelReported'
  BY DEF IInv, LateInv, FailedInv, SuccessIsReal, CancelReported
<1>. QED
  BY <1>1, <1>2, <1>3 DEF IInv

THEOREM Invariance == Spec => []IInv
<1>1. IInv /\ [Next]_vars => IInv'
  <2>. SUFFICES ASSUME IInv, [Next]_vars PROVE IInv'
    OBVIOUS
  <2>1. CASE \E m \in {"all", "feature"}, d \in {"terminal", "file"} :
               Invoke(m, d)
    BY <2>1, InvokeIInv
  <2>2. CASE MainStep
    BY <2>2, MainIInv
  <2>3. CASE CmdStep
    BY <2>3, CmdIInv
  <2>4. CASE EnvStep
    BY <2>4, EnvIInv
  <2>5. CASE UNCHANGED vars
    BY <2>5, StutterIInv
  <2>. QED
    BY <2>1, <2>2, <2>3, <2>4, <2>5 DEF Next, EnvStep
<1>. QED
  BY <1>1, InitIInv, PTL DEF Spec

\* The variables of ShowTech keep to their types and ranges; the cursor never
\* runs past the end of the list of commands.
THEOREM TypeCorrect == Spec => []TypeOK
<1>1. IInv => TypeOK
  BY DEF IInv
<1>. QED
  BY <1>1, Invariance, PTL

\* exec_showtech_cmd never reports a success of a command that failed, did
\* not end or was cancelled.
THEOREM SuccessCorrect == Spec => []SuccessIsReal
<1>1. IInv => SuccessIsReal
  BY DEF IInv
<1>. QED
  BY <1>1, Invariance, PTL

\* A cancelled command is reported, and noted in gThreadCancelled.
THEOREM CancelCorrect == Spec => []CancelReported
<1>1. IInv => CancelReported
  BY DEF IInv
<1>. QED
  BY <1>1, Invariance, PTL

\* At most one command is begun after the user interrupts.
THEOREM InterruptCorrect == Spec => []InterruptStops
<1>1. IInv => InterruptStops
  BY DEF IInv, LateInv, InterruptStops
<1>. QED
  BY <1>1, Invariance, PTL

\* The printed list misses no failed command and the printed number is theirs.
THEOREM ReportCorrect == Spec => []NoFailureHidden
<1>1. IInv => NoFailureHidden
  BY DEF IInv, FailedInv, NoFailureHidden
<1>. QED
  BY <1>1, Invariance, PTL

\* No command is started while the thread of another is alive.
THEOREM OneCommandCorrect == Spec => []OneCommandAtATime
<1>1. IInv => OneCommandAtATime
  BY DEF IInv, ThreadInv, Executing, Waiting, OneCommandAtATime
<1>. QED
  BY <1>1, Invariance, PTL

LEMMA QuietStep ==
  ASSUME IInv, QuietInv, [Next]_vars
  PROVE  QuietInv'
<1>1. signals \in Nat
  BY DEF IInv, TypeOK, SigOK
<1>2. ASSUME NEW m \in {"all", "feature"}, NEW d \in {"terminal", "file"},
             Invoke(m, d)
      PROVE  QuietInv'
  BY <1>2 DEF Invoke, QuietInv, sig
<1>3. CASE MainStep
  <2>1. signals' = signals /\ handler' = handler /\ dest' = dest
        /\ pc # "idle" /\ gVtyOldType' = gVtyOldType
        /\ gUserInterruptVtyType' = gUserInterruptVtyType
        /\ (alarm' => alarm)
    BY <1>3 DEF MainStep, NothingToRun, Configured, NextCommand, CreateFails,
       Create, LockToWait, Wait, WakeUp, TimedOut, Relock, UnlockWait,
       CheckAlarm, Branch, ReapTimedOut, ReapInterrupted, Join, After, Report,
       Exit, sig, tty, report
  <2>2. Exit \/ (pc' # "idle"
          /\ (vtyType' = vtyType \/ gUserInterruptVtyType # "unset"))
    BY <1>3 DEF MainStep, NothingToRun, Configured, NextCommand, CreateFails,
       Create, LockToWait, Wait, WakeUp, TimedOut, Relock, UnlockWait,
       CheckAlarm, Branch, ReapTimedOut, ReapInterrupted, Join, After, Report,
       tty
  <2>3. CASE Exit
    BY <2>1, <2>3 DEF Exit, RestoredType, QuietInv
  <2>4. CASE ~Exit
    BY <2>1, <2>2, <2>4 DEF QuietInv
  <2>. QED
    BY <2>3, <2>4
<1>4. CASE CmdStep
  <2>1. UNCHANGED <<alarm, signals, vtyType, gUserInterruptVtyType,
                    gVtyOldType, pc, dest>>
    BY <1>4 DEF CmdStep, PushCleanup, LockCleanup, LockOvsdb, ExecDone,
       LockToSignal, SignalMain, UnlockSignal, PopCleanup, UnlockCleanup,
       CancelTakesEffect, Cleanup, sig, tty, main, report
  <2>2. handler' = handler \/ handler' = [handler EXCEPT !["cmd"] = "none"]
    BY <1>4 DEF CmdStep, PushCleanup, LockCleanup, LockOvsdb, ExecDone,
       LockToSignal, SignalMain, UnlockSignal, PopCleanup, UnlockCleanup,
       CancelTakesEffect, Cleanup, sig
  <2>3. handler \in [Threads -> HandlerStates]
    BY DEF IInv, TypeOK, SigOK
  <2>. QED
    BY <2>1, <2>2, <2>3 DEF QuietInv, Threads
<1>5. ASSUME NEW t \in Threads, SignalStep(t)
      PROVE  QuietInv'
  <2>1. CASE Interrupt(t) \/ Suspend(t)
    BY <1>1, <2>1 DEF Interrupt, Suspend, QuietInv
  <2>2. CASE Alarm(t)
    BY <2>2 DEF Alarm, QuietInv
  <2>. QED
    BY <1>5, <2>1, <2>2 DEF SignalStep
<1>6. ASSUME NEW t \in Threads, HandlerStep(t)
      PROVE  QuietInv'
  BY <1>6 DEF HandlerStep, ArmAlarm, HandlerLock, HandlerSignal, AlarmDone,
     QuietInv
<1>7. CASE AlarmOutside
  BY <1>7 DEF AlarmOutside, QuietInv, tty, main, report
<1>8. CASE OtherEnter \/ OtherLeave \/ UNCHANGED vars
  BY <1>8 DEF OtherEnter, OtherLeave, QuietInv, vars, tty, sig, main, report
<1>. QED
  BY <1>2, <1>3, <1>4, <1>5, <1>6, <1>7, <1>8 DEF Next

\* A run that no signal disturbs gives the terminal back and leaves no alarm,
\* timeouts and `localfile' included.
THEOREM QuietCorrect == Spec => []QuietRunLeavesNoTrace
<1>1. Init => QuietInv
  BY DEF Init, QuietInv, Threads
<1>2. QuietInv => QuietRunLeavesNoTrace
  BY DEF QuietInv, QuietRunLeavesNoTrace
<1>3. IInv /\ QuietInv /\ [Next]_vars => QuietInv'
  BY QuietStep
<1>. QED
  BY <1>1, <1>2, <1>3, Invariance, PTL DEF Spec

-----------------------------------------------------------------------------
(* ShowTech implements ShowTechRun.                                        *)

LEMMA InitRefines == Init => Run!Init
  BY DEF Init, Run!Init, Phase

LEMMA InvokeRefines ==
  ASSUME IInv, NEW m \in {"all", "feature"}, NEW d \in {"terminal", "file"},
         Invoke(m, d)
  PROVE  Run!Start
  BY DEF Invoke, Phase, Run!Start, thread

LEMMA CmdRefines == ASSUME IInv, CmdStep PROVE [Run!Next]_Run!vars
<1>1. Phase' = Phase
  BY CmdFrame DEF IInv, Phase
<1>2. CASE \E o \in {"ok", "failed"}, q \in BOOLEAN : ExecDone(o, q)
  <2>1. Phase = "running"
    BY <1>2 DEF IInv, ThreadInv, ExecDone, Phase, Executing, Waiting
  <2>2. outcome = "none" /\ outcome' \in {"ok", "failed"}
    BY <1>2 DEF IInv, OutcomeInv, ExecDone
  <2>. QED
    BY <1>1, <2>1, <2>2, CmdFrame DEF IInv, Run!Next, Run!Perform
<1>3. CASE outcome' = outcome
  BY <1>1, <1>3, CmdFrame DEF IInv, Run!vars
<1>. QED
  BY <1>2, <1>3 DEF CmdStep, PushCleanup, LockCleanup, LockOvsdb,
     LockToSignal, SignalMain, UnlockSignal, PopCleanup, UnlockCleanup,
     CancelTakesEffect, Cleanup

LEMMA EnvRefines == ASSUME IInv, EnvStep PROVE UNCHANGED Run!vars
  BY EnvFrame DEF IInv, Phase, Run!vars

LEMMA MainRefines ==
  ASSUME IInv, IInv', MainStep
  PROVE  [Run!Next]_Run!vars
<1>. USE DEF Phase
<1>1. CASE NothingToRun
  BY <1>1 DEF NothingToRun, Run!Next, Run!Stop, thread, report
<1>2. CASE Configured \/ LockToWait \/ Wait \/ WakeUp \/ TimedOut \/ Relock
  BY <1>2 DEF Configured, LockToWait, Wait, WakeUp, TimedOut, Relock,
     Run!vars, thread, report
<1>3. CASE UnlockWait \/ CheckAlarm \/ ReapTimedOut \/ ReapInterrupted \/ Report
  BY <1>3 DEF UnlockWait, CheckAlarm, ReapTimedOut, ReapInterrupted, Report,
     Run!vars, thread, report
<1>4. CASE NextCommand
  BY <1>4 DEF NextCommand, Run!Next, Run!Stop, Run!vars, thread, report
<1>5. CASE CreateFails
  BY <1>5 DEF IInv, CursorInv, Cmds, CreateFails, Run!Next, Run!Refuse, report
<1>6. CASE \E k \in Kinds : Create(k)
  BY <1>6 DEF IInv, CursorInv, Cmds, Create, Run!Next, Run!Begin
<1>7. CASE Branch
  <2>1. Phase = "running" /\ Phase' = "running" /\ ~cancelled
    BY <1>7 DEF IInv, CancelInv, Waiting, Branch
  <2>2. UNCHANGED <<cur, outcome, result, failed>>
    BY <1>7 DEF Branch, report
  <2>3. cancelled' = TRUE \/ cancelled' = cancelled
    BY <2>1 DEF IInv, TypeOK, ThreadOK
  <2>. QED
    BY <2>1, <2>2, <2>3 DEF Run!Next, Run!Cancel, Run!vars
<1>8. CASE Join
  <2>1. result' \in {"success", "warning"}
    BY <1>8 DEF Join, Verdict
  <2>2. result' = "success" => outcome = "ok" /\ ~cancelled
    BY <1>8 DEF IInv, SuccessIsReal, Join
  <2>. QED
    BY <1>8, <2>1, <2>2 DEF Join, Run!Next, Run!Judge, report
<1>9. CASE After
  BY <1>9 DEF After, Flagged, Run!Next, Run!Stop, Run!Proceed, thread
<1>10. CASE Exit
  BY <1>10 DEF Exit, Run!Next, Run!Close, thread, report
<1>. QED
  BY <1>1, <1>2, <1>3, <1>4, <1>5, <1>6, <1>7, <1>8, <1>9, <1>10 DEF MainStep

\* Whatever the threads, the mutexes and the signals do, show tech runs its
\* commands in order, one at a time, and judges and lists them as promised.
THEOREM Refinement == Spec => ImplementsRun
<1>1. IInv /\ IInv' /\ [Next]_vars => [Run!Next]_Run!vars
  <2>. SUFFICES ASSUME IInv, IInv', [Next]_vars PROVE [Run!Next]_Run!vars
    OBVIOUS
  <2>1. CASE \E m \in {"all", "feature"}, d \in {"terminal", "file"} :
               Invoke(m, d)
    BY <2>1, InvokeRefines DEF Run!Next
  <2>2. CASE MainStep
    BY <2>2, MainRefines
  <2>3. CASE CmdStep
    BY <2>3, CmdRefines
  <2>4. CASE EnvStep
    BY <2>4, EnvRefines
  <2>5. CASE UNCHANGED vars
    BY <2>5 DEF vars, main, thread, report, Run!vars, Phase
  <2>. QED
    BY <2>1, <2>2, <2>3, <2>4, <2>5 DEF Next, EnvStep
<1>. QED
  BY <1>1, InitRefines, Invariance, PTL DEF Spec, ImplementsRun, Run!Spec

=============================================================================
