----------------------------- MODULE DiagProofs -----------------------------
(***************************************************************************)
(* Proofs about Diag, for every set of mapping files, every number of      *)
(* daemons, requests and signals, every choice of the threads that take    *)
(* signals and of the durations of requests.                               *)
(***************************************************************************)
EXTENDS DiagMappingProofs, FiniteSetTheorems, SequenceTheorems, TLAPS

USE DiagAssumption DEF DiagAssumption

-----------------------------------------------------------------------------
(* Sets of daemons.                                                        *)

LEMMA UpTo ==
  ASSUME NEW n \in Nat, NEW S, S \subseteq 1..n
  PROVE  IsFiniteSet(S) /\ Cardinality(S) \in 0..n
<1>1. IsFiniteSet(1..n) /\ Cardinality(1..n) = n
  BY FS_Interval
<1>2. IsFiniteSet(S) /\ Cardinality(S) <= n
  BY <1>1, FS_Subset
<1>3. Cardinality(S) \in Nat
  BY <1>2, FS_CardinalityType
<1> QED
  BY <1>2, <1>3

\* The daemons up to the next one are those before and that one.
LEMMA NextCount ==
  ASSUME NEW W, IsFiniteSet(W), W \subseteq Nat, NEW c \in Nat, NEW d \in W,
         d > c, \A other \in W : other > c => d <= other
  PROVE  Cardinality({i \in W : i <= d}) = Cardinality({i \in W : i <= c}) + 1
<1> DEFINE S == {i \in W : i <= c}
<1>1. IsFiniteSet(S)
  BY FS_Subset
<1>2. {i \in W : i <= d} = S \cup {d}
  <2>1. ASSUME NEW i \in W
        PROVE  i <= d <=> (i <= c \/ i = d)
    <3>1. i \in Nat /\ d \in Nat /\ (i > c => d <= i)
      OBVIOUS
    <3> QED
      BY <3>1
  <2> QED
    BY <2>1
<1>3. d \notin S
  OBVIOUS
<1> QED
  BY <1>1, <1>2, <1>3, FS_AddElement

-----------------------------------------------------------------------------
\* The feature of a run and what it asks.
LEMMA WantedTyped ==
  ASSUME MappingOK, MapInv
  PROVE  /\ Wanted \subseteq Nat \ {0} /\ IsFiniteSet(Wanted)
         /\ pc # "idle" =>
              /\ features[iter].daemons \in Seq(DaemonSet)
              /\ Wanted \subseteq DOMAIN features[iter].daemons
<1>1. CASE pc = "idle"
  BY <1>1, FS_EmptySet DEF Wanted
<1>2. CASE pc # "idle"
  <2>1. features[iter] \in FeatureSet
    BY <1>2 DEF MapInv, MappingOK
  <2>2. features[iter].daemons \in Seq(DaemonSet)
    BY <2>1 DEF FeatureSet
  <2> DEFINE n == Len(features[iter].daemons)
  <2>3. n \in Nat /\ DOMAIN features[iter].daemons = 1..n
    BY <2>2
  <2>4. Wanted \subseteq DOMAIN features[iter].daemons
    BY <1>2 DEF Wanted, Asked
  <2> HIDE DEF n
  <2>5. IsFiniteSet(Wanted) /\ Wanted \subseteq Nat \ {0}
    BY <2>3, <2>4, UpTo
  <2> QED
    BY <1>2, <2>2, <2>4, <2>5
<1> QED
  BY <1>1, <1>2

-----------------------------------------------------------------------------
(* Frames: what the steps leave alone.                                     *)

EnvStep ==
  \/ \E t \in Threads : SignalStep(t) \/ HandlerStep(t)
  \/ AlarmOutside \/ DiskChanges

LEMMA EnvFrame ==
  ASSUME DiagTypeOK, EnvStep
  PROVE  /\ UNCHANGED <<features, installed, pc, iter, cur, daemon_count,
                        daemon_resp, dest, return_val, message, requests,
                        error, threadCancelled, result>>
         /\ UNCHANGED <<tpc, kind, client, reply, cancelled, cleanupMutex,
                        gFailed, section, answered, marks>>
         /\ gInterrupt => gInterrupt'
         /\ \/ UNCHANGED <<cut, full>>
            \/ cut' = IF cut = "full" THEN "freed" ELSE cut
  BY DEF EnvStep, SignalStep, Interrupt, Suspend, Alarm, HandlerStep, ArmAlarm,
     HandlerLock, HandlerSignal, AlarmDone, AlarmOutside, DiskChanges, main,
     show, call, thread, locks, flags, map, output, hist, world

LEMMA CmdFrame ==
  ASSUME LocksOK, CmdStep
  PROVE  /\ UNCHANGED <<features, installed, pc, iter, cur, daemon_count,
                        daemon_resp, dest, return_val, message, requests,
                        error, threadCancelled, result>>
         /\ UNCHANGED <<kind, cancelled, gInterrupt, gAlarm, alarm, signals>>
         /\ \/ UNCHANGED <<cut, full>>
            \/ ShortWrite
         /\ tpc # "none" /\ tpc' # "none"
         /\ marks \subseteq marks'
         /\ gFailed => gFailed'
<1> USE DEF CmdStep, PushCleanup, LockCleanup, Dial, Connected, ConnectFails,
     Transact, Write, ShortWrite, Proceed, WriteError, Close, CloseClient, Forget, Returned,
     LockToSignal, SignalMain, UnlockSignal, PopCleanup, UnlockCleanup,
     CancelTakesEffect, Cleanup
<1>1. UNCHANGED <<features, installed, pc, iter, cur, daemon_count,
                  daemon_resp, dest, return_val, message, requests, error,
                  threadCancelled, result>>
  BY DEF main, show, call, map, world
<1>2. UNCHANGED <<kind, cancelled, gInterrupt, gAlarm, alarm, signals>>
  BY DEF flags, sig
<1>6. UNCHANGED <<cut, full>> \/ ShortWrite
  BY DEF output, world
<1>3. tpc # "none" /\ tpc' # "none"
  BY DEF Guarded, Unguarded
<1>4. marks \subseteq marks'
  BY DEF hist, world
<1>5. gFailed => gFailed'
  BY DEF LocksOK, flags
<1> QED
  BY <1>1, <1>2, <1>3, <1>4, <1>5, <1>6

LEMMA MainFrame ==
  ASSUME MainStep
  PROVE  /\ UNCHANGED <<features, installed, requests, signals, handler>>
         /\ pc # "idle"
         /\ Exit \/ (UNCHANGED <<iter, section, answered, dest, cut, full>>
                         /\ pc' # "idle")
         /\ UNCHANGED cur \/ NextStep \/ Exit
         /\ UNCHANGED <<client, marks>>
  BY DEF MainStep, OpenFails, Open, Header, NextStep, CreateFails, Create,
     LockToWait, Wait, WakeUp, TimedOut, Relock, UnlockWait, CheckAlarm,
     Branch, Reap, Join, After, Footer, UserInterrupt, Exit, main, show, call,
     thread, locks, flags, sig, map, output, hist, world, aside

-----------------------------------------------------------------------------
(* Types, without the numbers.                                             *)

LEMMA EnvType ==
  ASSUME DiagTypeOK, EnvStep
  PROVE  MainOK' /\ ThreadOK' /\ LocksOK' /\ SigOK' /\ OutputOK' /\ NumbersOK'
<1> USE DEF DiagTypeOK
<1>1. MainOK' /\ ThreadOK' /\ NumbersOK'
  BY EnvFrame DEF MainOK, ThreadOK, NumbersOK
<1>2. ASSUME NEW t \in Threads, SignalStep(t)
      PROVE  LocksOK' /\ SigOK'
  <2> USE DEF SignalStep, Interrupt, Suspend, Alarm
  <2>1. LocksOK'
    BY <1>2 DEF LocksOK, locks, flags
  <2>2. alarm' \in BOOLEAN
    BY <1>2 DEF SigOK
  <2>3. signals' \in 0..MaxSignals
    BY <1>2 DEF SigOK
  <2>4. handler' = handler \/ \E h \in {"int", "tstp", "alrm"} :
          handler' = [handler EXCEPT ![t] = h]
    BY <1>2
  <2> QED
    BY <2>1, <2>2, <2>3, <2>4 DEF SigOK
<1>3. ASSUME NEW t \in Threads, HandlerStep(t)
      PROVE  LocksOK' /\ SigOK'
  <2> USE DEF HandlerStep, ArmAlarm, HandlerLock, HandlerSignal, AlarmDone
  <2>1. LocksOK'
    BY <1>3 DEF LocksOK, locks, flags, SignalWaiter
  <2>2. alarm' \in BOOLEAN /\ signals' = signals
    BY <1>3 DEF SigOK
  <2>3. \E h \in {"none", "alrmlocked", "tstplocked", "alrmdone"} :
          handler' = [handler EXCEPT ![t] = h]
    BY <1>3
  <2> QED
    BY <2>1, <2>2, <2>3 DEF SigOK
<1>4. ASSUME AlarmOutside
      PROVE  LocksOK' /\ SigOK'
  <2>1. LocksOK'
    BY <1>4 DEF AlarmOutside, LocksOK, locks, flags
  <2>2. UNCHANGED <<handler, signals>>
    BY <1>4 DEF AlarmOutside
  <2>3. alarm' \in BOOLEAN
    BY <1>4 DEF AlarmOutside
  <2> QED
    BY <2>1, <2>2, <2>3 DEF SigOK
<1>5. ASSUME DiskChanges
      PROVE  LocksOK' /\ SigOK'
  <2>1. LocksOK'
    BY <1>5 DEF DiskChanges, LocksOK, locks, flags
  <2>2. UNCHANGED <<handler, signals>>
    BY <1>5 DEF DiskChanges, sig
  <2>3. alarm' \in BOOLEAN
    BY <1>5 DEF DiskChanges, sig, SigOK
  <2> QED
    BY <2>1, <2>2, <2>3 DEF SigOK
<1>6. LocksOK' /\ SigOK'
  BY <1>2, <1>3, <1>4, <1>5 DEF EnvStep
<1>7. full' = full \/ full' = ~full
  BY DEF EnvStep, SignalStep, Interrupt, Suspend, Alarm, HandlerStep, ArmAlarm,
     HandlerLock, HandlerSignal, AlarmDone, AlarmOutside, DiskChanges, world,
     output
<1>8. full' \in BOOLEAN /\ cut' \in {"none", "full", "freed"}
  <2>1. full' \in BOOLEAN
    BY <1>7 DEF OutputOK
  <2>2. cut' \in {"none", "full", "freed"}
    BY EnvFrame DEF OutputOK
  <2> QED
    BY <2>1, <2>2
<1> QED
  BY <1>1, <1>6, <1>8, EnvFrame DEF OutputOK

LEMMA CmdType ==
  ASSUME DiagTypeOK, cur \in Wanted, CmdStep
  PROVE  MainOK' /\ ThreadOK' /\ LocksOK' /\ SigOK' /\ OutputOK'
<1> USE DEF DiagTypeOK, CmdStep, PushCleanup, LockCleanup, Dial, Connected,
     ConnectFails, Transact, Write, ShortWrite, Proceed, WriteError, Close,
     CloseClient, Forget,
     Returned, LockToSignal, SignalMain, UnlockSignal, PopCleanup,
     UnlockCleanup, CancelTakesEffect, Cleanup
<1>1. MainOK'
  BY CmdFrame DEF MainOK
<1>2. ThreadOK'
  <2>1. tpc' \in {"none", "cleanup", "ended"} \cup Guarded \cup Unguarded
    BY DEF ThreadOK, Guarded, Unguarded
  <2>2. client' \in {"NULL", "open", "freed"}
    BY DEF ThreadOK
  <2>3. reply' \in {"none", "ok", "error"}
    BY DEF ThreadOK
  <2> QED
    BY <2>1, <2>2, <2>3, CmdFrame DEF ThreadOK
<1>3. LocksOK'
  BY DEF LocksOK, MainOK, locks, flags, Threads, SignalWaiter
<1>4. SigOK'
  BY DEF SigOK, sig, Threads
<1>5. OutputOK'
  <2>1. full' \in BOOLEAN /\ cut' \in {"none", "full", "freed"}
    BY CmdFrame DEF OutputOK
  <2>2. marks' \subseteq {"leak", "twice", "wait", "cleanup"}
    BY DEF OutputOK, hist, world, Left, ClosedTwice
  <2>3. \/ UNCHANGED section
        \/ \E x \in {"partial", "whole"} : section' = [section EXCEPT ![cur] = x]
    BY DEF output, world
  <2>4. section' \in Seq({"none", "partial", "whole"})
    <3>1. section \in Seq({"none", "partial", "whole"})
      BY DEF OutputOK
    <3>2. ASSUME NEW x \in {"partial", "whole"},
                 section' = [section EXCEPT ![cur] = x]
          PROVE  section' \in Seq({"none", "partial", "whole"})
      BY ONLY <3>1, <3>2, PutElement
    <3> QED
      BY ONLY <2>3, <3>1, <3>2
  <2> QED
    BY ONLY <2>1, <2>2, <2>4 DEF OutputOK
<1> QED
  BY <1>1, <1>2, <1>3, <1>4, <1>5

LEMMA InvokeType ==
  ASSUME DiagTypeOK, MappingOK, MapInv, boot = "up", ~parsing,
         NEW f \in installed, NEW d \in {"terminal", "file"}, Invoke(f, d)
  PROVE  MainOK' /\ ThreadOK' /\ LocksOK' /\ SigOK' /\ OutputOK' /\ NumbersOK'
<1> USE DEF DiagTypeOK, Invoke
<1>1. MainOK'
  <2>1. features[f] \in FeatureSet
    BY DEF MappingOK, MapInv
  <2>2. features[f].daemons \in Seq(DaemonSet)
    BY <2>1 DEF FeatureSet
  <2>3. Cardinality(Asked(f)) \in Nat
    <3> DEFINE n == Len(features[f].daemons)
    <3>1. n \in Nat /\ Asked(f) \subseteq 1..n
      BY <2>2 DEF Asked
    <3> HIDE DEF n
    <3> QED
      BY <3>1, UpTo
  <2>4. requests' \in 0..MaxRequests
    BY <2>3 DEF MainOK
  <2> QED
    BY <2>4 DEF MainOK, call
<1>2. ThreadOK'
  BY DEF ThreadOK, thread
<1>4. LocksOK'
  BY DEF LocksOK, locks
<1>5. SigOK'
  BY DEF SigOK, sig
<1>3. OutputOK' /\ NumbersOK'
  <2>1. features[f] \in FeatureSet
    BY DEF MappingOK, MapInv
  <2>2. features[f].daemons \in Seq(DaemonSet)
    BY <2>1 DEF FeatureSet
  <2>3. section' \in Seq({"none", "partial", "whole"})
    BY <2>2
  <2>4. OutputOK'
    BY <2>3 DEF OutputOK
  <2>5. Len(section') \in Nat
    BY <2>3
  <2>6. /\ daemon_resp' = 0 /\ daemon_count' = 0 /\ cur' = 0
        /\ answered' = {}
    OBVIOUS
  <2>7. NumbersOK'
    BY ONLY <2>5, <2>6 DEF NumbersOK
  <2> QED
    BY <2>4, <2>7
<1> QED
  BY <1>1, <1>2, <1>3, <1>4, <1>5

LEMMA MainType ==
  ASSUME DiagTypeOK, MainStep
  PROVE  MainOK' /\ ThreadOK' /\ LocksOK' /\ SigOK' /\ OutputOK'
<1> USE DEF DiagTypeOK, MainStep, OpenFails, Open, Header, NextStep,
     CreateFails, Create, LockToWait, Wait, WakeUp, TimedOut, Relock,
     UnlockWait, CheckAlarm, Branch, Reap, Join, After, Footer,
     UserInterrupt, Exit, aside
<1>1. MainOK'
  <2>1. pc' \in {"idle", "open", "header", "loop", "create", "lock", "locked",
             "wait", "relock", "woken", "alarmchk", "branch", "reap", "join",
             "after", "footer", "userint", "exit"}
    OBVIOUS
  <2>2. dest' \in {"terminal", "file"} /\ return_val' \in {"success", "warning"}
    BY DEF MainOK, show
  <2>3. message' \in {"none", "captured", "failed"}
    BY DEF MainOK, show
  <2>4. error' \in {"none", "timedout"} /\ threadCancelled' \in BOOLEAN
    BY DEF MainOK, call
  <2>5. result' \in {0, 1} /\ requests' \in 0..MaxRequests
    BY MainFrame DEF MainOK, call
  <2> QED
    BY <2>1, <2>2, <2>3, <2>4, <2>5 DEF MainOK
<1>2. ThreadOK'
  <2>1. tpc' \in {"none", "cleanup", "ended"} \cup Guarded \cup Unguarded
    BY DEF ThreadOK, thread, Unguarded
  <2>2. kind' \in {"quick", "slow", "hang"} /\ client' \in {"NULL", "open", "freed"}
    BY MainFrame DEF ThreadOK, thread
  <2>3. reply' \in {"none", "ok", "error"} /\ cancelled' \in BOOLEAN
    BY DEF ThreadOK, thread, MustCancel
  <2> QED
    BY <2>1, <2>2, <2>3 DEF ThreadOK
<1>3. LocksOK'
  BY DEF LocksOK, MainOK, locks, flags, Threads
<1>4. SigOK'
  BY DEF SigOK, sig
<1>5. OutputOK'
  <2>1. marks' \subseteq {"leak", "twice", "wait", "cleanup"}
    BY DEF OutputOK, hist, world
  <2>2. Exit \/ UNCHANGED output
    BY DEF world
  <2>3. CASE Exit
    <3>1. full' = FALSE /\ section' = <<>> /\ cut' = "none"
      BY <2>3
    <3>2. full' \in BOOLEAN /\ cut' \in {"none", "full", "freed"}
      BY ONLY <3>1
    <3>3. section' \in Seq({"none", "partial", "whole"})
      BY ONLY <3>1, EmptySeq
    <3> QED
      BY ONLY <2>1, <3>2, <3>3 DEF OutputOK
  <2>4. CASE UNCHANGED output
    BY <2>1, <2>4 DEF OutputOK, output
  <2> QED
    BY <2>2, <2>3, <2>4
<1> QED
  BY <1>1, <1>2, <1>3, <1>4, <1>5

-----------------------------------------------------------------------------
(* The environment.                                                        *)

LEMMA EnvInv ==
  ASSUME DiagInv, EnvStep
  PROVE  /\ MappingOK' => PlaceInv' /\ CountInv' /\ ThreadInv' /\ ClientInv'
         /\ DiagTypeOK'
<1> USE DEF DiagInv, TypeOK
<1>1. DiagTypeOK'
  BY EnvType DEF DiagTypeOK
<1> HIDE DEF TypeOK
<1>2. Wanted' = Wanted /\ Before' = Before
  BY EnvFrame DEF TypeOK, Wanted, Before, Asked
<1>3. PlaceInv'
  BY <1>2, EnvFrame DEF TypeOK, PlaceInv, Started, Asking, Over
<1>4. CountInv'
  BY <1>2, EnvFrame DEF TypeOK, CountInv, Started, Asking, Over
<1>5. ThreadInv'
  BY EnvFrame DEF TypeOK, ThreadInv, Started, Finished, MustCancel
<1>6. ClientInv'
  <2>1. signals' <= signals /\ (gInterrupt' => signals' < MaxSignals)
    BY DEF TypeOK, DiagTypeOK, SigOK, LocksOK, ClientInv, EnvStep, SignalStep,
       Interrupt, Suspend, Alarm, HandlerStep, ArmAlarm, HandlerLock,
       HandlerSignal, AlarmDone, AlarmOutside, DiskChanges, flags, sig
  <2>2. signals < MaxSignals => signals' < MaxSignals
    BY <1>1, <2>1 DEF TypeOK, DiagTypeOK, SigOK
  <2> QED
    BY <2>1, <2>2, EnvFrame DEF TypeOK, ClientInv, Started
<1> QED
  BY <1>1, <1>3, <1>4, <1>5, <1>6

-----------------------------------------------------------------------------
(* The command thread.                                                     *)

LEMMA CmdInv ==
  ASSUME DiagInv, CmdStep
  PROVE  PlaceInv' /\ CountInv' /\ ThreadInv' /\ ClientInv' /\ DiagTypeOK'
<1> USE DEF DiagInv, TypeOK, DiagTypeOK
<1>1. /\ Started /\ pc # "idle" /\ ~Over /\ cur \in Wanted /\ message = "none"
      /\ pc \notin {"open", "header", "footer"}
  BY CmdFrame DEF PlaceInv, Started, Asking, Over, MainOK
<1>2. Wanted' = Wanted /\ Before' = Before
  BY CmdFrame DEF Wanted, Before, Asked
<1>3. /\ cur \in DOMAIN section /\ cur \in Before /\ cur \in Nat
      /\ answered \subseteq DOMAIN section
  BY <1>1, WantedTyped DEF PlaceInv, Before, NumbersOK
<1>4. MainOK' /\ ThreadOK' /\ LocksOK' /\ SigOK' /\ OutputOK'
  BY <1>1, CmdType
<1> USE DEF CmdStep, PushCleanup, LockCleanup, Dial, Connected, ConnectFails,
     Transact, Write, ShortWrite, Proceed, WriteError, Close, CloseClient, Forget, Returned,
     LockToSignal, SignalMain, UnlockSignal, PopCleanup, UnlockCleanup,
     CancelTakesEffect, Cleanup
<1>5. /\ DOMAIN section' = DOMAIN section
      /\ \A i \in DOMAIN section : section[i] = "whole" => section'[i] = "whole"
  <2>1. \/ UNCHANGED section
        \/ section' = [section EXCEPT ![cur] = IF @ = "none" THEN "partial"
                                                             ELSE "whole"]
    BY DEF output, world
  <2> QED
    BY ONLY <2>1, <1>3
<1>6. answered' = answered \/ answered' = answered \cup {cur}
  BY DEF hist, world
<1>7. cur \in answered' => cur \in answered \/ section[cur] = "whole"
  BY DEF ThreadInv, hist, world
<1>8. PlaceInv'
  <2>1. answered' \subseteq Before
    BY <1>3, <1>6 DEF PlaceInv
  <2>2. \A i \in answered' : section'[i] = "whole"
    BY <1>3, <1>5, <1>6, <1>7 DEF PlaceInv
  <2>3. UNCHANGED <<pc, iter, cur, features, message>> /\ tpc' # "none"
    BY CmdFrame
  <2> HIDE DEF CmdStep
  <2> QED
    BY <1>1, <1>2, <1>5, <2>1, <2>2, <2>3
    DEF PlaceInv, Started, Asking, Over
<1>9. CountInv'
  <2>1. answered' \ {cur} = answered \ {cur}
    BY <1>6
  <2> HIDE DEF CmdStep
  <2> QED
    BY <1>1, <1>2, <2>1, CmdFrame DEF CountInv, Started, Asking, Over
<1>10. NumbersOK'
  <2>1. answered' \subseteq DOMAIN section'
    BY <1>3, <1>5, <1>6
  <2>2. Len(section') = Len(section)
    BY ONLY <1>4, <1>5, DiagTypeOK DEF DiagTypeOK, OutputOK
  <2> HIDE DEF CmdStep
  <2> QED
    BY <2>1, <2>2, CmdFrame DEF NumbersOK
<1>11. ThreadInv'
  <2> USE DEF ThreadInv
  <2>1. tpc' \in {"close", "closed", "returned"} /\ reply' = "ok" =>
          section'[cur'] = "whole"
    BY <1>3, CmdFrame DEF output, world
  <2>2. tpc' \in Finished \/ (tpc' \in {"ended", "cleanup"} /\ ~cancelled') =>
          gFailed' \/ cur' \in answered'
    <3>1. CASE Returned
      <4>1. reply = "ok" => cur \in answered'
        BY <3>1
      <4>2. reply # "ok" => gFailed'
        BY <3>1
      <4> QED
        BY <4>1, <4>2, CmdFrame
    <3>2. CASE CancelTakesEffect \/ Cleanup
      <4>1. cancelled'
        BY <3>2 DEF ClientInv
      <4>2. tpc' \notin Finished
        BY <3>2 DEF Finished
      <4> QED
        BY ONLY <4>1, <4>2
    <3>3. CASE ~Returned /\ ~CancelTakesEffect /\ ~Cleanup
      <4>1. tpc' \in Finished \cup {"ended", "cleanup"} => tpc \in Finished
        BY <3>3 DEF Finished
      <4>2. UNCHANGED <<gFailed, answered, cur>>
        BY <3>3 DEF flags, hist, world, main, show
      <4> QED
        BY ONLY <4>1, <4>2, ThreadInv DEF ThreadInv
    <3> QED
      BY ONLY <3>1, <3>2, <3>3
  <2>3. UNCHANGED <<pc, cancelled, error, gInterrupt, threadCancelled>>
    BY CmdFrame
  <2>4. result' = result /\ (gFailed => gFailed') /\ answered \subseteq answered'
        /\ cur' = cur
    BY CmdFrame, <1>6
  <2> HIDE DEF CmdStep
  <2> QED
    BY <2>1, <2>2, <2>3, <2>4 DEF Started, MustCancel
<1>12. ClientInv'
  <2> USE DEF ClientInv
  <2>0. UNCHANGED <<pc, cancelled, error, gInterrupt, threadCancelled, kind,
                    signals>> /\ marks \subseteq marks'
    BY CmdFrame
  <2>1. /\ client' = "open" => tpc' \in {"request", "write", "close", "cleanup"}
        /\ client' = "freed" => tpc' \in {"closed", "cleanup"}
        /\ tpc' = "cleanup" => cancelled'
        /\ tpc' \in {"request", "write", "close"} => client' = "open"
    <3>1. tpc' = "cleanup" => CancelTakesEffect
      OBVIOUS
    <3>2. CASE CancelTakesEffect
      <4>2. tpc' \in {"cleanup", "ended"} /\ cancelled'
        BY <3>2
      <4>4. client \in {"NULL", "open", "freed"}
        BY DEF ThreadOK
      <4>5. tpc \in {"begin", "popped"} => client = "NULL"
        BY <4>4
      <4>6. tpc \in {"begin", "popped"} \/ tpc' = "cleanup"
        BY <3>2 DEF Unguarded
      <4>7. client' = client
        BY <3>2
      <4> QED
        BY ONLY <4>2, <4>4, <4>5, <4>6, <4>7
    <3>3. CASE ~CancelTakesEffect /\ tpc # "cleanup"
      BY <3>3, <3>1 DEF ThreadOK
    <3>4. CASE Cleanup
      BY <3>4
    <3>5. CASE tpc = "cleanup" /\ ~CancelTakesEffect /\ ~Cleanup
      BY <3>5
    <3> QED
      BY ONLY <3>2, <3>3, <3>4, <3>5
  <2>2. cancelled => gInterrupt \/ error = "timedout"
    BY <1>1 DEF ThreadInv, MustCancel
  <2>3. Started' /\ error' = "timedout" =>
       \/ gInterrupt' \/ kind' = "slow"
       \/ tpc' = "request" /\ kind' = "hang"
       \/ tpc' = "pushed" /\ cleanupMutex' = "cmd"
       \/ tpc' = "cleanup" /\ client' # "freed"
       \/ tpc' = "ended"
    BY <1>1, <2>0 DEF Guarded, Started, locks
  <2>4. marks' \cap {"leak", "twice"} # {} => signals' < MaxSignals
    BY <1>1, <2>0, <2>2 DEF hist, world, Left, Late, ClosedTwice
  <2> QED
    BY <2>0, <2>1, <2>3, <2>4
<1> QED
  BY <1>4, <1>8, <1>9, <1>10, <1>11, <1>12

-----------------------------------------------------------------------------
(* The main thread.                                                        *)

\* The daemons asked so far, and the answers, are counted right.
LEMMA NextStepInv ==
  ASSUME DiagInv, NextStep
  PROVE  /\ cur' = 0 \/ cur' \in Wanted
         /\ cur' \in 0..Len(section) /\ daemon_count' \in 0..Len(section)
         /\ daemon_resp \in 0..daemon_count'
         /\ Wanted' = Wanted /\ Before \subseteq Before'
         /\ daemon_count' = Cardinality(Before')
         /\ daemon_resp <= Cardinality(IF pc' = "footer" THEN answered
                                                         ELSE answered \ {cur'})
         /\ pc' = "footer" => Wanted' = Before'
         /\ pc' \in {"create", "userint"} => cur' # 0
<1> USE DEF DiagInv, TypeOK, DiagTypeOK
<1>1. pc = "loop" /\ features' = features /\ iter' = iter /\ pc' # "idle"
      /\ answered' = answered /\ section' = section /\ daemon_resp' = daemon_resp
  BY DEF NextStep, aside, world, hist, map, output
<1>2. Wanted = Asked(iter) /\ Wanted' = Wanted
  BY <1>1 DEF Wanted, Asked
<1>3. IsFiniteSet(Wanted) /\ Wanted \subseteq DOMAIN section
      /\ Wanted \subseteq Nat \ {0}
  BY <1>1, WantedTyped DEF PlaceInv
<1>4. cur \in Nat /\ daemon_count = Cardinality(Before)
      /\ daemon_resp <= Cardinality(answered) /\ answered \subseteq Before
      /\ daemon_resp \in 0..daemon_count /\ daemon_count \in 0..Len(section)
  BY <1>1 DEF NumbersOK, CountInv, PlaceInv, Over, Asking, Started
<1>5. Len(section) \in Nat /\ DOMAIN section = 1..Len(section)
  BY DEF OutputOK
<1>6. CASE /\ \A d \in Asked(iter) : d <= cur
           /\ pc' = "footer" /\ UNCHANGED <<cur, daemon_count>>
  <2>1. Before' = Before
    BY <1>2, <1>6 DEF Before
  <2>2. Wanted = Before
    BY <1>2, <1>6 DEF Before
  <2>3. cur \in 0..Len(section) /\ (cur = 0 \/ cur \in Wanted)
    BY DEF NumbersOK, PlaceInv
  <2> QED
    BY ONLY <1>2, <1>4, <1>6, <2>1, <2>2, <2>3
<1>7. ASSUME NEW d \in Asked(iter), IsNext(d), cur' = d,
             daemon_count' = daemon_count + 1, pc' \in {"userint", "create"}
      PROVE  /\ cur' \in Wanted /\ cur' # 0
             /\ cur' \in 0..Len(section) /\ daemon_count' \in 0..Len(section)
             /\ daemon_resp \in 0..daemon_count'
             /\ Before \subseteq Before'
             /\ daemon_count' = Cardinality(Before')
             /\ daemon_resp <= Cardinality(answered \ {cur'})
  <2>1. d \in Wanted /\ d > cur /\ d \in Nat \ {0}
    BY <1>2, <1>3, <1>7 DEF IsNext
  <2>2. Before' = {i \in Wanted : i <= d}
    BY <1>2, <1>7 DEF Before
  <2>3. \A other \in Wanted : other > cur => d <= other
    BY <1>2, <1>7 DEF IsNext
  <2>4. Cardinality({i \in Wanted : i <= d})
          = Cardinality({i \in Wanted : i <= cur}) + 1
    BY ONLY <1>3, <1>4, <2>1, <2>3, NextCount
  <2>5. daemon_count' = Cardinality(Before')
    BY ONLY <1>4, <1>7, <2>2, <2>4 DEF Before
  <2>6. Before' \subseteq 1..Len(section)
    BY <1>3, <1>5, <2>2
  <2>7. Cardinality(Before') \in 0..Len(section)
    BY ONLY <1>5, <2>6, UpTo
  <2>8. d \in 1..Len(section)
    BY <1>3, <1>5, <2>1
  <2>9. answered \ {d} = answered
    BY ONLY <1>4, <2>1 DEF Before
  <2>10. Before \subseteq Before'
    <3>1. \A i \in Wanted : i <= cur => i <= d
      BY ONLY <1>3, <1>4, <2>1
    <3> QED
      BY ONLY <2>2, <3>1 DEF Before
  <2>11. daemon_resp \in 0..daemon_count'
    BY ONLY <1>4, <1>5, <1>7
  <2>12. daemon_resp <= Cardinality(answered \ {cur'})
    BY ONLY <1>4, <1>7, <2>9
  <2> QED
    BY <1>5, <1>7, <2>1, <2>5, <2>7, <2>8, <2>10, <2>11, <2>12
<1>8. \/ /\ \A d \in Asked(iter) : d <= cur
         /\ pc' = "footer" /\ UNCHANGED <<cur, daemon_count>>
      \/ \E d \in Asked(iter) :
           /\ IsNext(d) /\ cur' = d /\ daemon_count' = daemon_count + 1
           /\ pc' \in {"userint", "create"}
  BY DEF NextStep
<1> QED
  BY ONLY <1>2, <1>6, <1>7, <1>8

\* A daemon that responded has answered, and adds to the answers of the others.
LEMMA AfterInv ==
  ASSUME DiagInv, After
  PROVE  /\ daemon_resp' \in 0..daemon_count
         /\ daemon_resp' <= Cardinality(answered)
<1> USE DEF DiagInv, TypeOK, DiagTypeOK
<1>1. pc = "after" /\ daemon_resp' = daemon_resp + (1 - result)
  BY DEF After
<1>2. /\ daemon_count = Cardinality(Before) /\ answered \subseteq Before
      /\ daemon_resp <= Cardinality(answered \ {cur})
      /\ daemon_resp \in Nat /\ daemon_count \in Nat /\ result \in {0, 1}
      /\ result = 0 => cur \in answered
  <2>1. Len(section) \in Nat
    BY DEF OutputOK
  <2> QED
    BY <1>1, <2>1 DEF CountInv, PlaceInv, ThreadInv, NumbersOK, MainOK, Over,
       Asking
<1>3. IsFiniteSet(Before)
  BY WantedTyped, FS_Subset DEF Before
<1>4. IsFiniteSet(answered) /\ Cardinality(answered) <= Cardinality(Before)
      /\ Cardinality(answered) \in Nat /\ Cardinality(Before) \in Nat
  BY <1>2, <1>3, FS_Subset, FS_CardinalityType
<1>5. CASE result = 0
  <2>1. Cardinality(answered \ {cur}) = Cardinality(answered) - 1
    BY <1>2, <1>4, <1>5, FS_RemoveElement
  <2> QED
    BY ONLY <1>1, <1>2, <1>4, <1>5, <2>1
<1>6. CASE result = 1
  <2>1. Cardinality(answered \ {cur}) <= Cardinality(answered)
        /\ Cardinality(answered \ {cur}) \in Nat
    BY <1>4, FS_Subset, FS_CardinalityType
  <2> QED
    BY ONLY <1>1, <1>2, <1>4, <1>6, <2>1
<1> QED
  BY <1>2, <1>5, <1>6

\* Captured is said when the counts agree: then the answers are all there are.
LEMMA FooterInv ==
  ASSUME DiagInv, Footer, message' = "captured"
  PROVE  Wanted = answered
<1> USE DEF DiagInv, TypeOK, DiagTypeOK
<1>1. pc = "footer" /\ message = "none"
  BY DEF Footer, PlaceInv, Over
<1>2. daemon_count = daemon_resp
  BY <1>1 DEF Footer
<1>3. /\ daemon_count = Cardinality(Before) /\ Wanted = Before
      /\ daemon_resp <= Cardinality(answered) /\ answered \subseteq Before
  BY <1>1 DEF CountInv, PlaceInv, Over, Asking, Started
<1>4. IsFiniteSet(Wanted)
  BY WantedTyped
<1>5. /\ Cardinality(answered) <= Cardinality(Wanted)
      /\ Cardinality(Wanted) = Cardinality(answered) => Wanted = answered
      /\ Cardinality(answered) \in Nat /\ Cardinality(Wanted) \in Nat
  BY <1>3, <1>4, FS_Subset, FS_CardinalityType
<1> QED
  BY ONLY <1>2, <1>3, <1>5

LEMMA ExitInv ==
  ASSUME DiagInv, Exit
  PROVE  PlaceInv' /\ CountInv' /\ ThreadInv' /\ ClientInv' /\ NumbersOK'
<1> USE DEF DiagInv, TypeOK, DiagTypeOK
<1>1. pc = "exit" /\ tpc = "none" /\ client = "NULL"
  BY DEF Exit, PlaceInv, ClientInv, Started, ThreadOK
<1>2. /\ pc' = "idle" /\ cur' = 0 /\ section' = <<>> /\ answered' = {}
      /\ message' = "none" /\ daemon_count' = 0 /\ daemon_resp' = 0
      /\ tpc' = "none" /\ client' = "NULL" /\ cancelled' = FALSE
      /\ UNCHANGED <<gInterrupt, signals, marks>>
  BY <1>1 DEF Exit, flags, sig
<1>3. Wanted' = {}
  BY <1>2 DEF Wanted
<1>4. PlaceInv'
  BY <1>2, <1>3 DEF PlaceInv, Started, Asking, Over
<1>5. CountInv'
  BY <1>2 DEF CountInv
<1>6. ThreadInv'
  BY <1>2 DEF ThreadInv, Started, Finished
<1>7. ClientInv'
  BY <1>2 DEF ClientInv, Started
<1>8. Len(section') = 0 /\ 0 \in 0..0
  BY <1>2
<1>9. NumbersOK'
  BY <1>2, <1>8 DEF NumbersOK
<1> QED
  BY <1>4, <1>5, <1>6, <1>7, <1>9

LEMMA MainInv ==
  ASSUME DiagInv, MainStep, ~Exit
  PROVE  PlaceInv' /\ CountInv' /\ ThreadInv' /\ ClientInv' /\ NumbersOK'
<1> USE DEF DiagInv, TypeOK, DiagTypeOK
<1>1. /\ UNCHANGED <<features, installed, iter, section, answered, client>>
      /\ pc # "idle" /\ pc' # "idle" /\ (UNCHANGED cur \/ NextStep)
  BY MainFrame
<1>2. Wanted' = Wanted
  BY <1>1 DEF Wanted, Asked
<1>3. Before \subseteq Before'
  BY <1>1, <1>2, NextStepInv DEF Before
<1> DEFINE Rest == MainStep /\ ~NextStep /\ ~Exit
<1>4. /\ pc' \in {"open", "header"} => pc \in {"open", "header"} /\ Rest
      /\ NextStep => pc = "loop" /\ pc' \in {"create", "footer", "userint"}
      /\ Rest /\ ~After => UNCHANGED daemon_resp
      /\ Rest => UNCHANGED daemon_count
      /\ After => pc = "after" /\ pc' \in {"loop", "userint"}
      /\ Footer => pc = "footer" /\ pc' = "userint"
      /\ Rest => pc' # "footer"
      /\ message' # message => Footer
  BY DEF MainStep, OpenFails, Open, Header, NextStep, CreateFails, Create,
     LockToWait, Wait, WakeUp, TimedOut, Relock, UnlockWait, CheckAlarm,
     Branch, Reap, Join, After, Footer, UserInterrupt, show
<1>5. /\ (tpc' = "none") = ~Started'
      /\ Rest /\ Asking' => Asking
  BY DEF MainStep, OpenFails, Open, Header, NextStep, CreateFails, Create,
     LockToWait, Wait, WakeUp, TimedOut, Relock, UnlockWait, CheckAlarm,
     Branch, Reap, Join, After, Footer, UserInterrupt, PlaceInv, Started,
     Asking, thread, aside
<1>6. /\ Over => Over'
      /\ Rest /\ Asking /\ ~Asking' => After
  BY DEF MainStep, OpenFails, Open, Header, NextStep, CreateFails, Create,
     LockToWait, Wait, WakeUp, TimedOut, Relock, UnlockWait, CheckAlarm,
     Branch, Reap, Join, After, Footer, UserInterrupt, Over, Started, Asking
<1>7. PlaceInv'
  <2>1. pc' \in {"open", "header"} =>
          cur' = 0 /\ answered' = {} /\ daemon_count' = 0 /\ daemon_resp' = 0
    BY <1>1, <1>4 DEF PlaceInv, After
  <2>2. DOMAIN section' = DOMAIN features'[iter'].daemons
    BY <1>1 DEF PlaceInv
  <2>3. cur' = 0 \/ cur' \in Wanted'
    BY <1>1, <1>2, NextStepInv DEF PlaceInv
  <2>4. answered' \subseteq Before'
    BY <1>1, <1>3 DEF PlaceInv
  <2>5. \A i \in answered' : section'[i] = "whole"
    BY <1>1 DEF PlaceInv
  <2>6. Asking' => cur' # 0
    <3>1. CASE NextStep
      BY <1>4, <3>1, NextStepInv DEF Asking, Started
    <3>2. CASE ~NextStep
      BY <1>1, <1>5, <3>2 DEF PlaceInv
    <3> QED
      BY <3>1, <3>2
  <2>7. message' # "none" => Over'
    BY <1>4, <1>6 DEF PlaceInv, Over
  <2> QED
    BY <1>1, <1>5, <2>1, <2>2, <2>3, <2>4, <2>5, <2>6, <2>7 DEF PlaceInv
<1>8. CountInv' /\ NumbersOK'
  <2>0. Len(section) \in Nat
    BY DEF OutputOK
  <2>1. CASE NextStep
    <3>1. message' = "none" /\ pc = "loop"
      BY <1>4, <2>1 DEF PlaceInv, Over
    <3>2. pc' = "footer" => ~Asking'
      BY DEF Asking, Started
    <3>3. pc' = "create" => Asking'
      BY DEF Asking
    <3>4. daemon_resp' = daemon_resp
      BY <2>1 DEF NextStep
    <3>5. CountInv'
      <4>1. pc' \in {"create", "footer"} \/ Over'
        BY <1>4, <2>1 DEF Over
      <4>2. /\ daemon_count' = Cardinality(Before')
            /\ pc' = "footer" => Wanted' = Before'
            /\ daemon_resp' <= Cardinality(IF pc' = "footer" THEN answered
                                            ELSE answered \ {cur'})
        BY <2>1, <3>4, NextStepInv
      <4>3. ASSUME ~Over'
            PROVE  daemon_resp' <= Cardinality(IF Asking' THEN answered' \ {cur'}
                                                         ELSE answered')
        <5>1. CASE pc' = "create"
          BY <1>1, <3>3, <4>2, <5>1
        <5>2. CASE pc' = "footer"
          BY <1>1, <3>2, <4>2, <5>2
        <5> QED
          BY <4>1, <4>3, <5>1, <5>2
      <4> QED
        BY <3>1, <4>2, <4>3 DEF CountInv
    <3>6. NumbersOK'
      BY <1>1, <2>1, <3>4, NextStepInv DEF NumbersOK
    <3> QED
      BY <3>5, <3>6
  <2>2. CASE After
    <3>1. ~Asking' /\ pc' # "footer" /\ ~Footer
      BY <1>4, <2>2 DEF Asking, Started
    <3>2. message' = message /\ cur' = cur /\ daemon_count' = daemon_count
      BY <2>2 DEF After
    <3>3. Before' = Before
      BY <1>2, <3>2 DEF Before
    <3>4. pc = "after"
      BY <1>4, <2>2
    <3>5. CountInv'
      BY <1>1, <1>2, <2>2, <3>1, <3>2, <3>3, <3>4, AfterInv DEF CountInv, Over
    <3>6. NumbersOK'
      BY <1>1, <2>2, <3>2, AfterInv DEF NumbersOK
    <3> QED
      BY <3>5, <3>6
  <2>3. CASE ~NextStep /\ ~After
    <3>1. UNCHANGED <<cur, daemon_count, daemon_resp>> /\ Before' = Before
      BY <1>1, <1>2, <1>4, <2>3 DEF Before
    <3>2. Asking' = Asking
      <4>1. Asking' => Asking
        BY <1>5, <2>3
      <4>2. Asking => Asking'
        BY <1>6, <2>3
      <4> QED
        BY <4>1, <4>2 DEF Asking, Started
    <3>3. message' = "captured" => Wanted' = answered'
      BY <1>1, <1>2, <1>4, FooterInv DEF CountInv
    <3>4. pc' # "footer"
      BY <1>4, <2>3
    <3>5. CountInv'
      BY <1>1, <1>6, <3>1, <3>2, <3>3, <3>4 DEF CountInv
    <3>6. NumbersOK'
      BY <1>1, <3>1 DEF NumbersOK
    <3> QED
      BY <3>5, <3>6
  <2> QED
    BY <2>1, <2>2, <2>3
<1> USE DEF MainStep, OpenFails, Open, Header, NextStep, CreateFails, Create,
     LockToWait, Wait, WakeUp, TimedOut, Relock, UnlockWait, CheckAlarm,
     Branch, Reap, Join, After, Footer, UserInterrupt, thread, flags, call,
     aside
<1>9. ThreadInv'
  <2> USE DEF ThreadInv
  <2>00. gFailed \in BOOLEAN
    BY DEF LocksOK
  <2>01. pc \in {"loop", "create"} => tpc = "none"
    BY DEF PlaceInv, Started
  <2>0. tpc # "none" => cur' = cur
    <3> HIDE DEF MainStep
    <3> QED
      BY <1>1, <1>4, <2>01
  <2>1. tpc' \in {"close", "closed", "returned"} /\ reply' = "ok" =>
          section'[cur'] = "whole"
    BY <1>1, <2>0
  <2>2. tpc' \in Finished \/ (tpc' \in {"ended", "cleanup"} /\ ~cancelled') =>
          gFailed' \/ cur' \in answered'
    <3>1. CASE Reap
      BY <1>1, <2>00, <2>0, <3>1
    <3>2. CASE Create(kind') \/ CreateFails \/ Join
      <4>1. tpc' \in {"begin", "none"}
        BY <2>01, <3>2
      <4> QED
        BY ONLY <4>1 DEF Finished
    <3>3. CASE Branch
      <4>1. ~cancelled /\ UNCHANGED <<tpc, gFailed, cur, answered>>
        BY <1>1, <3>3 DEF Started, show
      <4> QED
        BY ONLY <4>1, ThreadInv DEF ThreadInv
    <3>4. CASE ~Reap /\ ~Create(kind') /\ ~CreateFails /\ ~Join /\ ~Branch
      <4>1. UNCHANGED <<tpc, gFailed, cancelled, answered>>
        BY <1>1, <3>4
      <4>2. cur' = cur \/ tpc = "none"
        BY <2>0
      <4> QED
        BY ONLY <4>1, <4>2, ThreadInv DEF ThreadInv, Finished
    <3> QED
      BY ONLY <3>1, <3>2, <3>3, <3>4
  <2>3. pc' \in {"reap", "join"} /\ cancelled' => MustCancel'
    BY DEF MustCancel
  <2>4. pc' = "join" /\ error' = "timedout" => gFailed'
    BY <2>00 DEF MustCancel
  <2>5. Started' /\ pc' \notin {"reap", "join"} => ~cancelled'
    BY DEF Started
  <2>6. pc' = "after" /\ result' = 0 => cur' \in answered'
    <3>1. ASSUME Join, result' = 0
          PROVE  cur \in answered
      <4>1. pc = "join" /\ tpc = "ended" /\ ~gFailed
            /\ ~(gInterrupt /\ threadCancelled)
        BY <2>00, <3>1
      <4>2. ~cancelled
        BY <4>1 DEF MustCancel, MainOK
      <4> QED
        BY <4>1, <4>2
    <3>2. pc' = "after" => Join \/ result' = 1
      OBVIOUS
    <3> QED
      BY <1>1, <3>1, <3>2
  <2> HIDE DEF MainStep
  <2> QED
    BY <2>1, <2>2, <2>3, <2>4, <2>5, <2>6
<1>10. ClientInv'
  <2> USE DEF ClientInv
  <2>1. /\ client' = "open" => tpc' \in {"request", "write", "close", "cleanup"}
        /\ client' = "freed" => tpc' \in {"closed", "cleanup"}
        /\ tpc' \in {"request", "write", "close"} => client' = "open"
    <3>1. \/ tpc' = tpc
          \/ tpc = "none" /\ tpc' = "begin"
          \/ tpc = "ended" /\ tpc' = "none"
      BY DEF PlaceInv, Started
    <3> HIDE DEF MainStep
    <3> QED
      BY <1>1, <3>1 DEF ThreadOK
  <2>2. tpc' = "cleanup" => cancelled'
    BY DEF ThreadInv, Started
  <2>3. gInterrupt' => signals' < MaxSignals
    BY MainFrame
  <2>4. Started' /\ error' = "timedout" =>
       \/ gInterrupt' \/ kind' = "slow"
       \/ tpc' = "request" /\ kind' = "hang"
       \/ tpc' = "pushed" /\ cleanupMutex' = "cmd"
       \/ tpc' = "cleanup" /\ client' # "freed"
       \/ tpc' = "ended"
    <3>1. CASE TimedOut
      <4>1. client' = client /\ UNCHANGED <<tpc, kind, cleanupMutex>>
        BY <1>1, <3>1 DEF locks
      <4>2. tpc = "ended" \/ (tpc = "request" /\ kind = "hang")
              \/ (tpc = "pushed" /\ cleanupMutex = "cmd") \/ kind = "slow"
        BY <3>1
      <4> QED
        BY ONLY <4>1, <4>2
    <3>2. CASE Create(kind')
      BY <3>2
    <3>3. CASE Join
      <4>1. ~Started'
        BY <3>3 DEF Started
      <4> QED
        BY ONLY <4>1
    <3>4. CASE ~TimedOut /\ ~Create(kind') /\ ~Join
      <4>1. Started' /\ ~Create(kind') => Started
        BY <3>4 DEF Started
      <4>2. UNCHANGED <<tpc, kind, cleanupMutex, gInterrupt, error, client>>
              \/ CreateFails
        BY <1>1, <3>4 DEF locks
      <4>3. CreateFails => ~Started'
        BY DEF Started
      <4> QED
        BY ONLY <3>4, <4>1, <4>2, <4>3, ClientInv DEF ClientInv
    <3> QED
      BY ONLY <3>1, <3>2, <3>3, <3>4
  <2>5. marks' \cap {"leak", "twice"} # {} => signals' < MaxSignals
    BY MainFrame
  <2> HIDE DEF MainStep
  <2> QED
    BY <2>1, <2>2, <2>3, <2>4, <2>5
<1> QED
  BY <1>7, <1>8, <1>9, <1>10

LEMMA InvokeInv ==
  ASSUME DiagInv, boot = "up", ~parsing,
         NEW f \in installed, NEW d \in {"terminal", "file"}, Invoke(f, d)
  PROVE  PlaceInv' /\ CountInv' /\ ThreadInv' /\ ClientInv'
<1> USE DEF DiagInv, TypeOK, DiagTypeOK
<1>1. /\ pc = "idle" /\ pc' \in {"open", "header"} /\ iter' = f /\ cur' = 0
      /\ daemon_count' = 0 /\ daemon_resp' = 0 /\ answered' = {}
      /\ message' = "none" /\ gInterrupt' = FALSE /\ features' = features
      /\ DOMAIN section' = DOMAIN features[f].daemons
      /\ UNCHANGED <<tpc, client, error, cancelled, marks, signals>>
  BY DEF Invoke, thread, call, map, sig
<1>2. tpc = "none" /\ client = "NULL"
  BY <1>1 DEF PlaceInv, ClientInv, ThreadOK, Started
<1>3. Asked(f) \subseteq Nat \ {0}
  <2>1. features[f] \in FeatureSet
    BY DEF MappingOK, MapInv
  <2>2. features[f].daemons \in Seq(DaemonSet)
    BY <2>1 DEF FeatureSet
  <2> QED
    BY <2>2 DEF Asked
<1>4. Before' = {}
  <2>1. Wanted' = Asked(f)
    BY <1>1 DEF Wanted, Asked
  <2> QED
    BY <1>1, <1>3, <2>1 DEF Before
<1>5. PlaceInv'
  BY <1>1, <1>2 DEF PlaceInv, Started, Asking, Over
<1>6. CountInv'
  BY <1>1, <1>4, FS_EmptySet DEF CountInv, Started, Asking
<1>7. ThreadInv'
  BY <1>1, <1>2 DEF ThreadInv, Started, Finished
<1>8. ClientInv'
  BY <1>1, <1>2 DEF ClientInv, Started
<1> QED
  BY <1>5, <1>6, <1>7, <1>8

\* A section is cut only in a file, while a thread writes it, and the last line
\* is a write that fails if the disk is still full.
LEMMA CutKept ==
  ASSUME DiagInv, DiagNext
  PROVE  CutInv'
<1> USE DEF DiagInv, TypeOK, DiagTypeOK
<1>1. ASSUME NEW f \in installed, NEW d \in {"terminal", "file"}, Invoke(f, d)
      PROVE  CutInv'
  BY <1>1 DEF Invoke, CutInv
<1>2. CASE MainStep
  <2>1. CASE Exit
    BY <2>1 DEF Exit, CutInv
  <2>2. CASE Footer
    <3>1. pc' = "userint" /\ UNCHANGED <<dest, full, cut>>
            /\ (message' = "captured" => ~WriteFails)
      BY <2>2 DEF Footer, aside, world, output, PlaceInv, Over
    <3>2. cut = "full" => WriteFails
      BY DEF CutInv, WriteFails
    <3> QED
      BY ONLY <3>1, <3>2, CutInv DEF CutInv
  <2>3. CASE ~Exit /\ ~Footer
    <3>1. message' = message
      BY <1>2, <2>3 DEF MainStep, OpenFails, Open, Header, NextStep,
         CreateFails, Create, LockToWait, Wait, WakeUp, TimedOut, Relock,
         UnlockWait, CheckAlarm, Branch, Reap, Join, After, UserInterrupt, show
    <3>2. pc' # "idle" /\ UNCHANGED <<dest, full, cut>>
      BY <1>2, <2>3, MainFrame
    <3> QED
      BY ONLY <3>1, <3>2, CutInv DEF CutInv
  <2> QED
    BY <2>1, <2>2, <2>3
<1>3. CASE CmdStep
  <2>1. UNCHANGED <<pc, dest, message>> /\ Started /\ pc # "idle"
    BY <1>3, CmdFrame DEF PlaceInv, Started
  <2>2. CASE UNCHANGED <<cut, full>>
    BY ONLY <2>1, <2>2, CutInv DEF CutInv
  <2>3. CASE ShortWrite
    <3>1. dest = "file" /\ full' = TRUE
      BY <2>3 DEF ShortWrite
    <3>2. message = "none"
      BY <2>1 DEF PlaceInv, Started, Over
    <3> QED
      BY <2>1, <3>1, <3>2 DEF CutInv
  <2> QED
    BY <1>3, <2>2, <2>3, CmdFrame
<1>4. CASE EnvStep
  <2>1. UNCHANGED <<pc, dest, message>>
    BY <1>4, EnvFrame
  <2>2. CASE DiskChanges
    BY <2>1, <2>2 DEF DiskChanges, CutInv, PlaceInv, Started
  <2>3. CASE ~DiskChanges
    <3>1. UNCHANGED <<cut, full>>
      BY <1>4, <2>3 DEF EnvStep, SignalStep, Interrupt, Suspend, Alarm,
         HandlerStep, ArmAlarm, HandlerLock, HandlerSignal, AlarmDone,
         AlarmOutside, output, world
    <3> QED
      BY ONLY <2>1, <3>1, CutInv DEF CutInv
  <2> QED
    BY <2>2, <2>3
<1> QED
  BY <1>1, <1>2, <1>3, <1>4 DEF DiagNext, EnvStep

-----------------------------------------------------------------------------
(* The inductive invariant.                                                *)

LEMMA InitInv == DiagInit => DiagInv
<1> SUFFICES ASSUME DiagInit
             PROVE  DiagInv
  OBVIOUS
<1> USE DEF DiagInit, Init
<1>1. MainOK /\ ThreadOK /\ LocksOK /\ SigOK /\ OutputOK
  <2>0. 0 \in 0..MaxRequests /\ MaxSignals \in 0..MaxSignals
    OBVIOUS
  <2>1. MainOK
    <3>1. threadCancelled \in BOOLEAN /\ result \in {0, 1}
          /\ requests \in 0..MaxRequests
      BY <2>0
    <3> QED
      BY <3>1 DEF MainOK
  <2>2. ThreadOK
    BY DEF ThreadOK
  <2>3. LocksOK
    BY DEF LocksOK
  <2>4. SigOK
    <3>1. alarm \in BOOLEAN /\ signals = MaxSignals
      OBVIOUS
    <3>2. handler = [t \in Threads |-> "none"]
      OBVIOUS
    <3> QED
      BY ONLY <2>0, <3>1, <3>2 DEF SigOK
  <2>5. OutputOK
    <3>1. full \in BOOLEAN /\ marks = {} /\ section = <<>> /\ cut = "none"
      OBVIOUS
    <3> QED
      BY ONLY <3>1, EmptySeq DEF OutputOK
  <2> QED
    BY <2>1, <2>2, <2>3, <2>4, <2>5
<1>2. NumbersOK
  BY DEF NumbersOK
<1>3. MappingOK /\ features = <<>> /\ parsing = FALSE
  BY StartInv DEF Mapping!MapInit
<1>4. TypeOK
  BY <1>1, <1>2, <1>3 DEF TypeOK, DiagTypeOK
<1>5. MapInv
  BY <1>3 DEF MapInv
<1>6. PlaceInv /\ CountInv
  BY DEF PlaceInv, CountInv, Started, Asking, Over, Wanted
<1>7. ThreadInv /\ ClientInv
  BY DEF ThreadInv, ClientInv, Started, Finished
<1>8. CutInv
  BY DEF CutInv
<1> QED
  BY <1>3, <1>4, <1>5, <1>6, <1>7, <1>8 DEF DiagInv

\* The mapping is read while no run is under way.
LEMMA BootInv ==
  ASSUME DiagInv, BootStep
  PROVE  DiagInv'
<1> USE DEF DiagInv, TypeOK
<1>1. MappingOK' /\ MapInv' /\ boot' \in {"start", "read", "up"}
  BY BootMapping
<1>2. parsing' \in BOOLEAN
  BY DEF BootStep, Read, Parse, InstallDiagDump, parser, Mapping!GetMapping,
     Mapping!ParseStep, Mapping!ReadKey, Mapping!AddFeature, Mapping!AddDesc,
     Mapping!AddDaemon, Mapping!AddFlag, Mapping!Value, Mapping!ParseEnd,
     Mapping!ParseError
<1>3. pc = "idle" /\ UNCHANGED <<main, thread, locks, flags, sig, output, hist>>
  BY DEF BootStep, Read, Parse, InstallDiagDump, others, MapInv,
     Mapping!ParseStep, Mapping!ReadKey, Mapping!AddFeature, Mapping!AddDesc,
     Mapping!AddDaemon, Mapping!AddFlag, Mapping!Value, Mapping!ParseEnd,
     Mapping!ParseError
<1>4. DiagTypeOK'
  BY <1>3 DEF DiagTypeOK, MainOK, ThreadOK, LocksOK, SigOK, OutputOK,
     NumbersOK, main, show, call, thread, locks, flags, sig, output, hist
<1>5. TypeOK'
  BY <1>1, <1>2, <1>4 DEF MapInv
<1>6. Wanted = {} /\ Wanted' = {} /\ Before = {} /\ Before' = {}
  BY <1>3 DEF Wanted, Before, main
<1>7. PlaceInv' /\ CountInv'
  BY <1>3, <1>6 DEF PlaceInv, CountInv, Started, Asking, Over, main, show,
     thread, output, hist
<1>8. ThreadInv' /\ ClientInv'
  BY <1>3 DEF ThreadInv, ClientInv, Started, Finished, MustCancel, main, show,
     call, thread, locks, flags, sig, output, hist
<1>9. CutInv'
  BY <1>3 DEF CutInv, main, show, output
<1> QED
  BY <1>1, <1>5, <1>7, <1>8, <1>9

LEMMA RunInv ==
  ASSUME DiagInv, boot = "up", ~parsing, DiagNext, UNCHANGED <<boot, parser>>
  PROVE  DiagInv'
<1> USE DEF DiagInv
<1>1. UNCHANGED <<features, installed>>
  <2>1. ASSUME NEW f \in installed, NEW d \in {"terminal", "file"}, Invoke(f, d)
        PROVE  UNCHANGED <<features, installed>>
    BY <2>1 DEF Invoke, map
  <2> QED
    BY <2>1, MainFrame, CmdFrame, EnvFrame DEF DiagNext, EnvStep, TypeOK,
       DiagTypeOK
<1>2. MappingOK' /\ boot' = "up" /\ ~parsing'
  BY <1>1, MappingKept DEF parser
<1>3. pc' # "idle" => iter' \in installed
  <2>1. ASSUME NEW f \in installed, NEW d \in {"terminal", "file"}, Invoke(f, d)
        PROVE  iter' \in installed
    BY <2>1 DEF Invoke
  <2>2. MainStep \/ CmdStep \/ EnvStep =>
          pc' = "idle" \/ (pc # "idle" /\ iter' = iter)
            \/ (pc' = pc /\ iter' = iter)
    <3>1. Exit => pc' = "idle"
      BY DEF Exit
    <3> QED
      BY <3>1, MainFrame, CmdFrame, EnvFrame DEF TypeOK, DiagTypeOK
  <2> QED
    BY <2>1, <2>2 DEF DiagNext, EnvStep, MapInv
<1>4. MapInv'
  BY <1>1, <1>2, <1>3 DEF MapInv
<1>5. PlaceInv' /\ CountInv' /\ ThreadInv' /\ ClientInv' /\ DiagTypeOK'
  <2>1. ASSUME NEW f \in installed, NEW d \in {"terminal", "file"}, Invoke(f, d)
        PROVE  PlaceInv' /\ CountInv' /\ ThreadInv' /\ ClientInv' /\ DiagTypeOK'
    BY <2>1, InvokeInv, InvokeType DEF TypeOK, DiagTypeOK
  <2>2. CASE MainStep
    <3>1. MainOK' /\ ThreadOK' /\ LocksOK' /\ SigOK' /\ OutputOK'
      BY <2>2, MainType DEF TypeOK
    <3> QED
      BY <2>2, <3>1, MainInv, ExitInv DEF DiagTypeOK
  <2>3. CASE CmdStep
    BY <2>3, CmdInv
  <2>4. CASE EnvStep
    BY <1>2, <2>4, EnvInv
  <2> QED
    BY <2>1, <2>2, <2>3, <2>4 DEF DiagNext, EnvStep
<1>6. TypeOK'
  <2>1. installed' \subseteq DOMAIN features'
    BY <1>4 DEF MapInv
  <2>2. boot' \in {"start", "read", "up"} /\ parsing' \in BOOLEAN
    BY <1>2 DEF TypeOK, parser
  <2> QED
    BY <1>5, <2>1, <2>2 DEF TypeOK
<1>7. CutInv'
  BY CutKept
<1> QED
  BY <1>2, <1>4, <1>5, <1>6, <1>7

\* DiagInv holds in every state: the mapping stays what the run began with,
\* each daemon is asked once and in order, an answer is a section written to
\* its end, cut or not, and a connection belongs to one thread.
THEOREM Invariance == Spec => []DiagInv
<1>1. DiagInv /\ [Next]_vars => DiagInv'
  <2> SUFFICES ASSUME DiagInv, [Next]_vars
               PROVE  DiagInv'
    OBVIOUS
  <2>1. CASE Next
    BY <2>1, BootInv, RunInv DEF Next, BootStep
  <2>2. CASE UNCHANGED vars
    <3>1. UNCHANGED <<boot, file, parsing, pos, state, daemon, features>>
      BY <2>2 DEF vars, parser, dvars, aside, world, map
    <3>2. MappingOK'
      BY <3>1, MappingKept DEF DiagInv
    <3>3. TypeOK' /\ MapInv'
      BY <2>2, <3>1 DEF vars, dvars, main, show, call, thread, locks, flags,
         sig, output, hist, map, world, aside, DiagInv, TypeOK, DiagTypeOK,
         MainOK, ThreadOK, LocksOK, SigOK, OutputOK, NumbersOK, MapInv
    <3>4. PlaceInv' /\ CountInv' /\ ThreadInv' /\ ClientInv'
      BY <2>2 DEF vars, dvars, main, show, call, thread, locks, flags, sig,
         output, hist, map, world, aside, DiagInv, PlaceInv, CountInv,
         ThreadInv, ClientInv, Started, Asking, Over, Finished, Before, Wanted,
         Asked, MustCancel
    <3>5. CutInv'
      BY <2>2 DEF vars, dvars, main, show, output, world, aside, DiagInv, CutInv
    <3> QED
      BY <3>2, <3>3, <3>4, <3>5 DEF DiagInv
  <2> QED
    BY <2>1, <2>2
<1> QED
  BY <1>1, InitInv, PTL DEF Spec

-----------------------------------------------------------------------------
(* The properties.                                                         *)

\* Every variable of vtysh, of its threads and of the mapping keeps its type;
\* in particular daemon_resp never passes daemon_count, and daemon_count never
\* the daemons of the feature.
THEOREM TypeCorrect == Spec => []TypeOK
BY Invariance, PTL DEF DiagInv

\* A connection to a daemon is closed before the next thread starts, and is
\* lost or closed twice only after the user interrupted or a daemon answered
\* just at the timeout.
THEOREM ConnectionsCorrect == Spec => []ConnectionsClosed
<1>1. DiagInv => ConnectionsClosed
  BY DEF DiagInv, ClientInv, ConnectionsClosed, TypeOK, DiagTypeOK, ThreadOK
<1> QED
  BY <1>1, Invariance, PTL

\* What the parser has stored is the file up to where it has come, whatever the
\* file is and wherever an error ends it.
THEOREM MappingCorrect == Spec => []MappingIsPrefix
<1>1. DiagInv => MappingIsPrefix
  BY PrefixHolds DEF DiagInv
<1> QED
  BY <1>1, Invariance, PTL

\* Every feature that vtysh installs a command for can be described and has a
\* daemon to ask.
THEOREM InstalledCorrect == Spec => []InstalledCanDump
<1>1. DiagInv => InstalledCanDump
  BY CanDumpHolds DEF DiagInv
<1> QED
  BY <1>1, Invariance, PTL

\* "Diagnostic dump captured" is true of the output, whatever the threads, the
\* signals and the disk do, but for a section that a short write has cut in a
\* file whose disk had space again before the next write.
THEOREM CapturedCorrect == Spec => []CapturedIsReal
<1>1. DiagInv => CapturedIsReal
  <2> SUFFICES ASSUME DiagInv, message = "captured"
               PROVE  /\ Asked(iter) # {} /\ Asked(iter) = answered
                      /\ \A i \in answered : section[i] = "whole"
                      /\ cut = "none" \/ (dest = "file" /\ cut = "freed")
    BY DEF CapturedIsReal
  <2>1. pc # "idle"
    BY DEF DiagInv, PlaceInv, Over
  <2>2. Asked(iter) = answered
    BY <2>1 DEF DiagInv, CountInv, Wanted
  <2>3. iter \in DOMAIN features /\ features[iter].dump /\ ~parsing
    BY <2>1 DEF DiagInv, MapInv
  <2>4. InstalledCanDump
    BY CanDumpHolds DEF DiagInv
  <2>5. Asked(iter) # {}
    BY <2>3, <2>4 DEF InstalledCanDump, Mapping!InstalledCanDump, Asked
  <2>6. \A i \in answered : section[i] = "whole"
    BY DEF DiagInv, PlaceInv
  <2>7. cut = "none" \/ (dest = "file" /\ cut = "freed")
    BY DEF DiagInv, CutInv, TypeOK, DiagTypeOK, OutputOK
  <2> QED
    BY <2>2, <2>5, <2>6, <2>7
<1> QED
  BY <1>1, Invariance, PTL

-----------------------------------------------------------------------------
(* The refinement.                                                         *)

LEMMA MainRefines ==
  ASSUME DiagInv, MainStep
  PROVE  Run!RunNext \/ UNCHANGED Run!rvars
<1> USE DEF DiagInv, TypeOK, DiagTypeOK
<1>1. CASE Exit
  <2>1. /\ pc = "exit" /\ pc' = "idle" /\ cur' = 0 /\ answered' = {}
        /\ message' = "none" /\ section' = <<>>
        /\ dest' = "terminal" /\ cut' = "none"
    BY <1>1 DEF Exit
  <2>2. Phase = "over" /\ Phase' = "idle" /\ Wanted' = {} /\ Written' = {}
    BY <2>1 DEF Phase, Wanted, Written
  <2> QED
    BY <2>1, <2>2 DEF Run!RunNext, Run!Return
<1>2. ASSUME ~Exit
      PROVE  /\ UNCHANGED <<Wanted, Written, answered, dest, cut>>
             /\ pc # "idle" /\ pc' # "idle"
  BY <1>2, MainFrame DEF Wanted, Written, Asked
<1>3. CASE NextStep
  <2>1. pc = "loop" /\ UNCHANGED message /\ Phase = "running"
        /\ Wanted = Asked(iter) /\ ~Exit
    BY <1>3 DEF NextStep, Exit, Phase, Wanted
  <2>2. CASE pc' = "footer" /\ UNCHANGED cur
    <3>1. Phase' = Phase
      BY <2>1, <2>2 DEF Phase
    <3> QED
      BY <1>2, <2>1, <2>2, <3>1 DEF Run!rvars
  <2>3. ASSUME NEW d \in Asked(iter), IsNext(d), cur' = d,
               pc' \in {"userint", "create"}
        PROVE  Run!RunNext
    <3>1. Run!IsNext(d)
      BY <2>1, <2>3 DEF IsNext, Run!IsNext
    <3>2. CASE pc' = "create"
      <4>1. Phase' = "running"
        BY <3>2 DEF Phase
      <4>2. Run!Ask(d)
        BY <1>2, <2>1, <2>3, <3>1, <4>1 DEF Run!Ask
      <4> QED
        BY <2>1, <4>2 DEF Run!RunNext
    <3>3. CASE pc' = "userint"
      <4>1. Phase' = "over"
        BY <3>3 DEF Phase
      <4>2. Run!Stop
        BY <1>2, <2>1, <2>3, <3>1, <4>1 DEF Run!Stop
      <4> QED
        BY <4>2 DEF Run!RunNext
    <3> QED
      BY <2>3, <3>2, <3>3
  <2> QED
    BY <1>3, <2>2, <2>3 DEF NextStep
<1>4. CASE Footer
  <2>1. /\ pc = "footer" /\ pc' = "userint" /\ cur' = cur /\ message = "none"
        /\ message' \in {"none", "captured", "failed"} /\ ~Exit
    BY <1>4 DEF Footer, Exit, PlaceInv, Over
  <2>2. Phase = "running" /\ Phase' = "over"
    BY <2>1 DEF Phase
  <2>3. CASE message' = "none"
    BY <1>2, <2>1, <2>2, <2>3 DEF Run!RunNext, Run!Stop
  <2>4. CASE message' # "none"
    <3>1. \A d \in Wanted : d <= cur
      BY <2>1 DEF CountInv, Before
    <3>2. message' = "captured" => answered = Wanted /\ cut # "full"
      <4>1. message' = "captured" => ~WriteFails
        BY <1>4, <2>1 DEF Footer
      <4>2. cut = "full" => WriteFails
        BY DEF CutInv, WriteFails
      <4> QED
        BY <1>4, <4>1, <4>2, FooterInv
    <3>3. Run!Conclude(message')
      BY <1>2, <2>1, <2>2, <2>4, <3>1, <3>2 DEF Run!Conclude
    <3> QED
      BY <2>1, <2>4, <3>3 DEF Run!RunNext
  <2> QED
    BY <2>3, <2>4
<1>5. CASE ~Exit /\ ~NextStep /\ ~Footer
  <2>1. cur' = cur
    BY <1>5, MainFrame
  <2>2. message' = message
    BY <1>5 DEF MainStep, OpenFails, Open, Header, CreateFails, Create,
       LockToWait, Wait, WakeUp, TimedOut, Relock, UnlockWait, CheckAlarm,
       Branch, Reap, Join, After, UserInterrupt, show
  <2>3. Phase' = Phase \/ (Phase = "running" /\ Phase' = "over")
    BY <1>5 DEF Phase, MainStep, OpenFails, Open, Header, CreateFails, Create,
       LockToWait, Wait, WakeUp, TimedOut, Relock, UnlockWait, CheckAlarm,
       Branch, Reap, Join, After, UserInterrupt
  <2> QED
    BY <1>2, <1>5, <2>1, <2>2, <2>3 DEF Run!RunNext, Run!Stop, Run!rvars
<1> QED
  BY <1>1, <1>3, <1>4, <1>5

LEMMA CmdRefines ==
  ASSUME DiagInv, CmdStep
  PROVE  Run!RunNext \/ UNCHANGED Run!rvars
<1> USE DEF DiagInv, TypeOK, DiagTypeOK
<1>1. /\ Started /\ cur \in Wanted /\ cur \in DOMAIN section
  <2>1. Started /\ cur # 0
    BY CmdFrame DEF PlaceInv, Asking
  <2> QED
    BY <2>1, WantedTyped DEF PlaceInv, Started
<1>2. Phase = "running" /\ UNCHANGED <<Phase, Wanted, cur, dest, message>>
  BY <1>1, CmdFrame DEF Phase, Wanted, Asked, Started
<1>3. CASE Write \/ ShortWrite
  <2>1. answered' = answered
    BY <1>3 DEF Write, ShortWrite, hist
  <2>2. section' = [section EXCEPT ![cur] = IF @ = "none" THEN "partial"
                                                          ELSE "whole"]
    BY <1>3 DEF Write, ShortWrite, Proceed
  <2>4. \/ UNCHANGED cut
        \/ dest = "file" /\ cut = "none" /\ cut' = "full"
    BY <1>3 DEF Write, ShortWrite
  <2>3. Written' = Written \/ Written' = Written \cup {cur}
    BY <1>1, <2>2 DEF Written
  <2> QED
    BY <1>1, <1>2, <2>1, <2>3, <2>4 DEF Run!RunNext, Run!WriteSection
<1>4. CASE Returned
  <2>1. Written' = Written /\ cut' = cut
    BY <1>4 DEF Returned, Written, output
  <2>2. CASE reply = "ok"
    <3>1. cur \in Written
      BY <1>1, <1>4, <2>2 DEF Returned, ThreadInv, Written
    <3>2. answered' = answered \cup {cur}
      BY <1>4, <2>2 DEF Returned
    <3> QED
      BY <1>2, <2>1, <3>1, <3>2 DEF Run!RunNext, Run!Answer
  <2>3. CASE reply # "ok"
    <3>1. answered' = answered
      BY <1>4, <2>3 DEF Returned
    <3> QED
      BY <1>2, <2>1, <3>1 DEF Run!rvars
  <2> QED
    BY <2>2, <2>3
<1>5. CASE ~Write /\ ~ShortWrite /\ ~Returned
  <2>1. UNCHANGED <<section, cut, answered>>
    BY <1>5 DEF CmdStep, PushCleanup, LockCleanup, Dial, Connected,
       ConnectFails, Transact, WriteError, Close, Forget, LockToSignal,
       SignalMain, UnlockSignal, PopCleanup, UnlockCleanup, CancelTakesEffect,
       Cleanup, output, hist, world
  <2> QED
    BY <1>2, <2>1 DEF Written, Run!rvars
<1> QED
  BY <1>3, <1>4, <1>5

LEMMA InvokeRefines ==
  ASSUME DiagInv, NEW f \in installed, NEW d \in {"terminal", "file"},
         Invoke(f, d)
  PROVE  Run!Start
<1> USE DEF DiagInv
<1>1. /\ pc = "idle" /\ pc' \in {"open", "header"} /\ iter' = f /\ cur' = 0
      /\ answered' = {} /\ message' = "none" /\ features' = features
      /\ section' = [i \in DOMAIN features[f].daemons |-> "none"]
      /\ dest' = d /\ cut' = "none"
  BY DEF Invoke, map
<1>2. cur = 0 /\ section = <<>> /\ answered = {} /\ message = "none"
        /\ cut = "none"
  BY <1>1 DEF PlaceInv, CutInv
<1>3. Asked(f) \subseteq Nat
  <2>1. features[f] \in FeatureSet
    BY DEF MappingOK, MapInv
  <2>2. features[f].daemons \in Seq(DaemonSet)
    BY <2>1 DEF FeatureSet
  <2> QED
    BY <2>2 DEF Asked
<1>4. Wanted' \in SUBSET Nat
  BY <1>1, <1>3 DEF Wanted, Asked
<1>5. Written = {} /\ Written' = {}
  BY <1>1, <1>2 DEF Written
<1>6. Phase = "idle" /\ Phase' = "running"
  BY <1>1 DEF Phase
<1> QED
  BY <1>1, <1>2, <1>4, <1>5, <1>6 DEF Run!Start

LEMMA StutterRefines ==
  ASSUME DiagInv, BootStep \/ EnvStep \/ UNCHANGED vars
  PROVE  Run!RunNext \/ UNCHANGED Run!rvars
<1> USE DEF DiagInv, TypeOK
<1>1. CASE BootStep
  <2>1. pc = "idle" /\ UNCHANGED <<main, output, hist>>
    BY <1>1 DEF BootStep, Read, Parse, InstallDiagDump, others, MapInv,
       Mapping!ParseStep, Mapping!ReadKey, Mapping!AddFeature,
       Mapping!AddDesc, Mapping!AddDaemon, Mapping!AddFlag, Mapping!Value,
       Mapping!ParseEnd, Mapping!ParseError
  <2> QED
    BY <2>1 DEF main, show, output, hist, Phase, Wanted, Written, Run!rvars
<1>2. CASE EnvStep
  <2>1. UNCHANGED <<Phase, Wanted, cur, dest, Written, answered, message>>
    BY <1>2, EnvFrame DEF Phase, Wanted, Written, Asked
  <2>2. CASE cut' = cut
    BY <2>1, <2>2 DEF Run!rvars
  <2>3. CASE cut' # cut
    <3>1. cut = "full" /\ cut' = "freed"
      BY <1>2, <2>3, EnvFrame
    <3>2. Phase # "idle"
      BY <3>1 DEF CutInv, Phase
    <3> QED
      BY <2>1, <3>1, <3>2 DEF Run!RunNext, Run!Free
  <2> QED
    BY <2>2, <2>3
<1>3. CASE UNCHANGED vars
  BY <1>3 DEF vars, dvars, aside, world, map, main, show, output, hist, Phase,
     Wanted, Written, Asked, Run!rvars
<1> QED
  BY <1>1, <1>2, <1>3

\* Whatever the threads, the locks, the connections and the signal handlers
\* do, `diag-dump' asks the daemons of the feature in their order, counts as
\* answers sections written to their end, which only a disk that fills up
\* cuts, and says that the diagnostics are captured only after an answer of
\* each, and never while the disk is still full.
THEOREM Refinement == Spec => ImplementsDiagRun
<1>1. DiagInit => Run!RunInit
  BY DEF DiagInit, Init, Phase, Wanted, Written, Run!RunInit
<1>2. DiagInv /\ [Next]_vars => [Run!RunNext]_(Run!rvars)
  <2> SUFFICES ASSUME DiagInv, [Next]_vars
               PROVE  Run!RunNext \/ UNCHANGED Run!rvars
    OBVIOUS
  <2>1. ASSUME NEW f \in installed, NEW d \in {"terminal", "file"}, Invoke(f, d)
        PROVE  Run!RunNext
    BY <2>1, InvokeRefines DEF Run!RunNext
  <2>2. \/ BootStep \/ EnvStep \/ MainStep \/ CmdStep \/ UNCHANGED vars
        \/ \E f \in installed, d \in {"terminal", "file"} : Invoke(f, d)
    BY DEF Next, BootStep, EnvStep, DiagNext
  <2> QED
    BY <2>1, <2>2, MainRefines, CmdRefines, StutterRefines
<1> QED
  BY <1>1, <1>2, Invariance, PTL DEF Spec, ImplementsDiagRun, Run!RunSpec
=============================================================================
