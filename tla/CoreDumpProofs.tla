--------------------------- MODULE CoreDumpProofs ---------------------------
(***************************************************************************)
(* Proofs about CoreDump and, in CoreDumps, about the commands on core     *)
(* files: for every set of core files, any number of crashes and whatever  *)
(* the user types.                                                         *)
(***************************************************************************)
EXTENDS CoreDumps, TLAPS

LEMMA InitInv == Init => IInv
<1> SUFFICES ASSUME Init
             PROVE  IInv
  OBVIOUS
<1>1. TypeOK
  <2>1. logged \in [Cores -> Nat] /\ crashes \in 0..MaxCrashes
    BY CoreAssumption DEF Init, CoreAssumption
  <2> QED
    BY <2>1 DEF Init, TypeOK
<1>2. ListInv
  BY DEF Init, ListInv, Processing
<1>3. LoggedInv
  BY DEF Init, LoggedInv, Named
<1>4. RepeatInv
  BY <1>1 DEF Init, RepeatInv
<1> QED
  BY <1>1, <1>2, <1>3, <1>4 DEF IInv

\* One step of the type invariant.
LEMMA TypeStep == TypeOK /\ [Next]_vars => TypeOK'
<1> SUFFICES ASSUME TypeOK, [Next]_vars
             PROVE  TypeOK'
  OBVIOUS
<1> USE CoreAssumption DEF TypeOK, CoreAssumption
<1>1. CASE UNCHANGED vars
  BY <1>1 DEF vars
<1>2. ASSUME NEW c \in Cores, Dump(c) \/ Delete(c)
      PROVE  TypeOK'
  BY <1>2 DEF Dump, Delete
<1>3. CASE Crash
  <2>1. crashes' \in 0..MaxCrashes
    BY <1>3 DEF Crash
  <2> QED
    BY <1>3, <2>1 DEF Crash
<1>4. CASE AddWatch \/ Glob \/ Open
  BY <1>4 DEF AddWatch, Glob, Open
<1>5. ASSUME NEW c \in Cores, Scan(c)
      PROVE  TypeOK'
  <2>1. logged' \in [Cores -> Nat]
    BY <1>5 DEF Scan
  <2> QED
    BY <1>5, <2>1 DEF Scan
<1>6. CASE ScanFails \/ ScanDone
  BY <1>6 DEF ScanFails, ScanDone
<1>7. CASE Truncate \/ Write \/ Wake
  BY <1>7 DEF Truncate, Write, NowProcessed, Wake
<1> QED
  BY <1>1, <1>2, <1>3, <1>4, <1>5, <1>6, <1>7 DEF Next, Daemon

\* A file that names some cores exists.
LEMMA FileExists ==
  TypeOK => {} # NoFile /\ list # NoFile
<1>1. {} \in SUBSET Cores /\ (TypeOK => list \in SUBSET Cores)
  BY DEF TypeOK
<1> QED
  BY <1>1, NoFileAssumption

LEMMA ListStep == IInv /\ [Next]_vars => ListInv'
<1> SUFFICES ASSUME IInv, [Next]_vars
             PROVE  ListInv'
  OBVIOUS
<1> USE DEF IInv, ListInv, Named, Processing
<1>1. CASE UNCHANGED vars
  BY <1>1 DEF vars
<1>2. ASSUME NEW c \in Cores, Dump(c) \/ Delete(c)
      PROVE  ListInv'
  BY <1>2 DEF Dump, Delete, TypeOK
<1>3. CASE Crash
  BY <1>3 DEF Crash
<1>4. CASE AddWatch \/ Glob \/ Open
  BY <1>4, FileExists DEF AddWatch, Glob, Open, ListInv
<1>5. ASSUME NEW c \in Cores, Scan(c)
      PROVE  ListInv'
  BY <1>5 DEF Scan
<1>6. CASE ScanFails \/ ScanDone
  BY <1>6 DEF ScanFails, ScanDone
<1>7. CASE Truncate \/ Write \/ Wake
  BY <1>7, FileExists DEF Truncate, Write, NowProcessed, Wake
<1> QED
  BY <1>1, <1>2, <1>3, <1>4, <1>5, <1>6, <1>7 DEF Next, Daemon

LEMMA LoggedStep == IInv /\ [Next]_vars => LoggedInv'
<1> SUFFICES ASSUME IInv, [Next]_vars
             PROVE  LoggedInv'
  OBVIOUS
<1> USE DEF IInv, LoggedInv, Named
<1>1. CASE UNCHANGED vars
  BY <1>1 DEF vars
<1>2. ASSUME NEW c \in Cores, Dump(c) \/ Delete(c)
      PROVE  LoggedInv'
  BY <1>2 DEF Dump, Delete, TypeOK
<1>3. CASE Crash
  BY <1>3 DEF Crash
<1>4. CASE AddWatch \/ Glob \/ Open
  BY <1>4, FileExists DEF AddWatch, Glob, Open, ListInv
<1>5. ASSUME NEW c \in Cores, Scan(c)
      PROVE  LoggedInv'
  <2>1. \A x \in Cores : logged'[x] >= logged[x] /\ logged'[x] \in Nat
    BY <1>5 DEF Scan, TypeOK
  <2>2. c \in (folder \cap Valid) \ skipped => logged'[c] > 0
    BY <1>5 DEF Scan, Reported, TypeOK, ListInv
  <2> QED
    BY <1>5, <2>1, <2>2, CoreAssumption DEF Scan, TypeOK, CoreAssumption
<1>6. CASE ScanFails \/ ScanDone
  BY <1>6 DEF ScanFails, ScanDone, ListInv, TypeOK
<1>7. CASE Truncate \/ Write \/ Wake
  BY <1>7, FileExists DEF Truncate, Write, NowProcessed, Wake
<1> QED
  BY <1>1, <1>2, <1>3, <1>4, <1>5, <1>6, <1>7 DEF Next, Daemon

LEMMA RepeatStep == IInv /\ [Next]_vars => RepeatInv'
<1> SUFFICES ASSUME IInv, [Next]_vars
             PROVE  RepeatInv'
  OBVIOUS
<1> USE DEF IInv, RepeatInv, Remembered, Named
<1>1. CASE UNCHANGED vars
  BY <1>1 DEF vars
<1>2. ASSUME NEW c \in Cores, Dump(c) \/ Delete(c)
      PROVE  RepeatInv'
  BY <1>2 DEF Dump, Delete, TypeOK
<1>3. CASE Crash
  BY <1>3 DEF Crash, TypeOK
<1>4. CASE AddWatch \/ Glob \/ Open
  BY <1>4, FileExists DEF AddWatch, Glob, Open, ListInv
<1>5. ASSUME NEW c \in Cores, Scan(c)
      PROVE  RepeatInv'
  <2>1. c \in folder => (logged[c] = crashes + 1 => c \in processed)
    BY <1>5 DEF Scan, ListInv
  <2>2. \A x \in Cores \ {c} : logged'[x] = logged[x]
    BY <1>5 DEF Scan, TypeOK
  <2>3. logged'[c] = IF c \notin processed /\ Reported(c)
                       THEN logged[c] + 1 ELSE logged[c]
    BY <1>5 DEF Scan, TypeOK
  <2>4. logged[c] \in Nat /\ crashes \in Nat
    BY DEF TypeOK
  <2>5. UNCHANGED <<folder, dumped, pc, list, processed, crashes>>
        /\ pc = "scan" /\ c \in todo /\ todo' = todo \ {c}
        /\ found' = (found \/ c \notin processed)
    BY <1>5 DEF Scan
  <2>6. c \in list /\ c \in dumped
    BY <2>5 DEF TypeOK
  <2>7. logged'[c] <= crashes + 1 /\ logged'[c] \in Nat
    BY <2>1, <2>3, <2>4 DEF Reported
  <2>8. logged'[c] = crashes + 1 => (c \in folder => Remembered(c)')
    BY <2>1, <2>3, <2>4, <2>5, <2>6 DEF ListInv
  <2>9. \A x \in Cores \ {c} : Remembered(x) => Remembered(x)'
    BY <2>5
  <2> QED
    BY <2>2, <2>5, <2>6, <2>7, <2>8, <2>9
<1>6. CASE ScanFails \/ ScanDone
  BY <1>6 DEF ScanFails, ScanDone, ListInv, Processing, TypeOK
<1>7. CASE Truncate \/ Write \/ Wake
  BY <1>7, FileExists DEF Truncate, Write, NowProcessed, Wake
<1> QED
  BY <1>1, <1>2, <1>3, <1>4, <1>5, <1>6, <1>7 DEF Next, Daemon

\* The invariant is inductive, errors of reading included.
THEOREM Invariance == Spec => []IInv
<1>1. IInv /\ [Next]_vars => IInv'
  BY TypeStep, ListStep, LoggedStep, RepeatStep DEF IInv
<1> QED
  BY <1>1, InitInv, PTL DEF Spec

\* Every variable of the daemon keeps its type.
THEOREM TypeCorrect == Spec => []TypeOK
BY Invariance, PTL DEF IInv

\* process_coredumps repeats the event of a core only after a crash.
THEOREM RepeatCorrect == Spec => []RepeatedOnlyByCrash
<1>1. IInv => RepeatedOnlyByCrash
  BY DEF IInv, TypeOK, RepeatInv, RepeatedOnlyByCrash
<1> QED
  BY <1>1, Invariance, PTL

\* No core is named as processed before its event is logged, wherever the
\* daemon crashes, unless a failing loop did not reach it.
THEOREM ProcessedCorrect == Spec => []ProcessedIsLogged
<1>1. IInv => ProcessedIsLogged
  BY DEF IInv, LoggedInv, Named, ProcessedIsLogged
<1> QED
  BY <1>1, Invariance, PTL

\* The commands of the users only read what the daemon keeps: every behaviour of
\* the whole is one of the daemon, so that all of the above holds of it.
THEOREM CommandsOnlyRead == CoresSpec => Spec
<1>1. CoresInit => Init
  BY DEF CoresInit
<1>2. [CoresNext]_<<vars, command>> => [Next]_vars
  <2>1. Cli!CopyNext => UNCHANGED folder
    BY DEF Cli!CopyNext, Cli!TypeShow, Cli!TypeCopy, Cli!TypeInstance, Cli!Type,
           Cli!Refuse, Cli!List, Cli!Put, Cli!PutFails, Cli!ShowRow,
           Cli!ShowKernel, Cli!ShowFails, Cli!Return
  <2> QED
    BY <2>1 DEF CoresNext, vars
<1> QED
  BY <1>1, <1>2, PTL DEF CoresSpec, Spec

-----------------------------------------------------------------------------
(* The commands.                                                           *)

\* A core that had been dumped is not in the folder again.
LEMMA FolderShrinks ==
  ASSUME TypeOK, Next
  PROVE  /\ dumped \subseteq dumped'
         /\ folder' \cap dumped \subseteq folder
BY DEF TypeOK, Next, Daemon, AddWatch, Glob, Open, Scan, ScanFails, ScanDone,
   Truncate, Write, Wake, Crash, Dump, Delete

LEMMA FolderKept ==
  ASSUME Cli!CopyNext
  PROVE  UNCHANGED folder
BY DEF Cli!CopyNext, Cli!TypeShow, Cli!TypeCopy, Cli!TypeInstance, Cli!Type,
   Cli!Refuse, Cli!List, Cli!Put, Cli!PutFails, Cli!ShowRow, Cli!ShowKernel,
   Cli!ShowFails, Cli!Return

\* Two kernel cores are not both the first.
LEMMA OneFirst ==
  ASSUME NEW c \in KernelCores, NEW d \in KernelCores, First(c), First(d)
  PROVE  c = d
<1> DEFINE At(e) == CHOOSE i \in DOMAIN Sorted : Sorted[i] = e
<1>1. \A e \in KernelCores : At(e) \in DOMAIN Sorted /\ Sorted[At(e)] = e
  BY NamesAssumption
<1>2. At(c) \in Nat /\ At(d) \in Nat
  BY <1>1, NamesAssumption
<1>3. At(c) <= At(d) /\ At(d) <= At(c)
  BY DEF First, Cli!IsFirst, Cli!Place
<1>4. At(c) = At(d)
  <2> HIDE DEF At
  <2> QED
    BY <1>2, <1>3
<1> QED
  BY <1>1, <1>4

\* The core that a row names fits the row.
LEMMA RowFits ==
  ASSUME NEW c \in Cores
  PROVE  LET fields == NameOf[c].fields
         IN  Cli!EndsField(c, fields[3]) /\ Cli!Row(c).instance = fields[3]
             /\ Cli!Row(c).daemon = NameOf[c].daemon
<1>1. /\ 3 \in DOMAIN NameOf[c].fields /\ Len(NameOf[c].fields[3]) \in Nat
      /\ c \notin KernelCores
  BY NamesAssumption
<1> DEFINE s == NameOf[c].fields[3]
<1>2. Cli!IsSuffix(s, s)
  <2>1. Len(Cli!Reverse(s)) = Len(s)
    BY <1>1 DEF Cli!Reverse
  <2> QED
    BY <1>1, <2>1 DEF Cli!IsSuffix, Cli!IsPrefix
<1> QED
  BY <1>1, <1>2 DEF Cli!EndsField, Cli!Row

LEMMA DaemonKeeps ==
  ASSUME TypeOK, CoresInv, Next, UNCHANGED command
  PROVE  CoresInv'
<1> USE DEF CoresInv
<1>1. /\ UNCHANGED <<cpc, request, files, server, rows, return_val, wanted>>
      /\ dumped \subseteq dumped' /\ folder' \cap dumped \subseteq folder
  BY FolderShrinks DEF command
<1>2. wanted \subseteq dumped \cup KernelCores
  BY DEF WantedInv
<1>3. \A c \in wanted \cap (folder' \cup KernelCores) :
        c \in wanted \cap (folder \cup KernelCores)
  BY <1>1, <1>2
<1>4. /\ \A c : Cli!Fits(c)' = Cli!Fits(c) /\ Cli!Copied(c)' = Cli!Copied(c)
      /\ Cli!Kernel' = Cli!Kernel /\ \A c : Cli!FileName(c)' = Cli!FileName(c)
  BY <1>1 DEF Cli!Fits, Cli!Copied, Cli!Kernel, Cli!FileName
<1>5. WantedInv'
  BY <1>1, <1>4 DEF WantedInv
<1>6. CopyInv'
  BY <1>1, <1>3, <1>4 DEF CopyInv
<1>7. CopyIsComplete'
  BY <1>1, <1>3, <1>4 DEF CopyIsComplete, Cli!CopyIsComplete
<1> QED
  BY <1>5, <1>6, <1>7

\* Typing a command starts with nothing on the server.
LEMMA TypeKeeps ==
  ASSUME CoresInv, NEW r, NEW cores, Cli!Type(r, cores),
         UNCHANGED dumped, cores \subseteq dumped \cup {c \in KernelCores : First(c)},
         \A c \in cores : IF c \in KernelCores THEN Cli!Kernel'
                          ELSE ~Cli!Kernel' /\ Cli!Fits(c)',
         r = Cli!Show => cores = {}
  PROVE  CoresInv'
<1> USE DEF Cli!Type
<1>1. cpc = "idle" /\ cpc' = "check" /\ request' = r /\ wanted' = cores
      /\ rows' = {} /\ server' = server /\ folder' = folder
  OBVIOUS
<1>2. server = <<>>
  BY <1>1 DEF CoresInv, CopyInv
<1>3. WantedInv'
  BY <1>1 DEF WantedInv, First, Cli!IsFirst
<1>4. CopyInv' /\ CopyIsComplete'
  BY <1>1, <1>2 DEF CopyInv, CopyIsComplete, Cli!CopyIsComplete, Cli!Show
<1> QED
  BY <1>3, <1>4 DEF CoresInv

LEMMA TypedKeeps ==
  ASSUME TypeOK, CoresInv, UNCHANGED dumped,
         \/ Cli!TypeShow \/ (\E d \in Daemons : Cli!TypeCopy(d))
         \/ \E c \in rows, f \in FileNames : Cli!TypeInstance(c, f)
  PROVE  CoresInv'
<1>1. CASE Cli!TypeShow
  BY <1>1, TypeKeeps DEF Cli!TypeShow
<1>2. ASSUME NEW d \in Daemons, Cli!TypeCopy(d)
      PROVE  CoresInv'
  <2> DEFINE r == [daemon |-> d, instance |-> NotGiven, file |-> NotGiven]
             cores == {c \in folder : NameOf[c].daemon = d}
  <2>1. Cli!Type(r, cores) /\ request' = r
    BY <1>2 DEF Cli!TypeCopy, Cli!Type
  <2>2. cores \subseteq Cores /\ cores \subseteq dumped
    BY DEF TypeOK
  <2>3. \A c \in cores : c \notin KernelCores /\ ~Cli!Kernel' /\ Cli!Fits(c)'
    BY <2>1, <2>2, NamesAssumption DEF Cli!Kernel, Cli!Fits
  <2>4. r # Cli!Show
    BY NamesAssumption DEF Cli!Show
  <2> HIDE DEF r, cores
  <2> QED
    BY <2>1, <2>2, <2>3, <2>4, TypeKeeps
<1>3. ASSUME NEW c \in rows, NEW f \in FileNames, Cli!TypeInstance(c, f)
      PROVE  CoresInv'
  <2> DEFINE r == [daemon |-> Cli!Row(c).daemon,
                   instance |-> Cli!Row(c).instance, file |-> f]
  <2>1. Cli!Type(r, {c}) /\ request' = r
    BY <1>3 DEF Cli!TypeInstance, Cli!Type
  <2>2. c \in dumped \cup {k \in KernelCores : First(k)}
    BY <1>3 DEF CoresInv, WantedInv
  <2>3. CASE c \in KernelCores
    <3>1. r.daemon = "kernel" /\ Cli!Kernel' /\ r # Cli!Show
      BY <2>1, <2>3, NamesAssumption DEF Cli!Row, Cli!Kernel, Cli!Show
    <3> HIDE DEF r
    <3> QED
      BY <2>1, <2>2, <2>3, <3>1, TypeKeeps
  <2>4. CASE c \notin KernelCores
    <3>1. c \in Cores
      BY <2>2, <2>4 DEF TypeOK
    <3>2. r.daemon = NameOf[c].daemon /\ r.instance = NameOf[c].fields[3]
      BY <3>1, RowFits
    <3>3. Cli!Fits(c)'
      BY <2>1, <3>1, <3>2, RowFits DEF Cli!Fits, Cli!EndsField
    <3>4. ~Cli!Kernel'
      BY <2>1, <3>1, <3>2, NamesAssumption DEF Cli!Kernel
    <3>5. r # Cli!Show
      BY <3>1, <3>2, NamesAssumption DEF Cli!Show
    <3> HIDE DEF r
    <3> QED
      BY <2>1, <2>2, <2>4, <3>3, <3>4, <3>5, TypeKeeps
  <2> QED
    BY <2>3, <2>4
<1> QED
  BY <1>1, <1>2, <1>3

\* What a list holds, and what it has left out.
LEMMA ListKeeps ==
  ASSUME TypeOK, CoresInv, UNCHANGED dumped, Cli!List
  PROVE  CoresInv'
<1> USE DEF Cli!List
<1>1. /\ UNCHANGED <<folder, request, server, rows, wanted>> /\ cpc = "check"
      /\ files' = Cli!Listed /\ server = <<>>
      /\ IF Cli!Listed = {} /\ request # Cli!Show
           THEN cpc' = "done" ELSE cpc' = "file"
  BY DEF Cli!Finish, CoresInv, CopyInv
<1>2. /\ \A c : Cli!Fits(c)' = Cli!Fits(c)
      /\ Cli!Kernel' = Cli!Kernel
  BY <1>1 DEF Cli!Fits, Cli!Kernel
<1>3. WantedInv'
  BY <1>1, <1>2 DEF CoresInv, WantedInv, First, Cli!IsFirst
<1>4. \A c \in wanted \cap (folder \cup KernelCores) : c \in Cli!Listed
  <2> SUFFICES ASSUME NEW c \in wanted \cap (folder \cup KernelCores)
               PROVE  c \in Cli!Listed
    OBVIOUS
  <2>1. CASE c \in KernelCores
    BY <2>1 DEF CoresInv, WantedInv, Cli!Listed
  <2>2. CASE c \notin KernelCores
    BY <2>2 DEF CoresInv, WantedInv, Cli!Listed
  <2> QED
    BY <2>1, <2>2
<1>5. /\ Cli!Kernel => Cli!Listed = KernelCores
      /\ ~Cli!Kernel => /\ Cli!Listed \subseteq folder
                        /\ \A c \in Cli!Listed : Cli!Fits(c)
  BY DEF Cli!Listed
<1>6. folder \subseteq dumped /\ folder \cap KernelCores = {}
  BY NamesAssumption DEF TypeOK
<1>7. request = Cli!Show => ~Cli!Kernel
  BY NamesAssumption DEF Cli!Show, Cli!Kernel
<1>8. request' = Cli!Show => wanted' = {}
  BY <1>1 DEF CoresInv, CopyInv
<1>9. CopyInv'
  BY <1>1, <1>2, <1>4, <1>5, <1>6, <1>7, <1>8 DEF CopyInv
<1>10. CopyIsComplete'
  <2>1. cpc' = "done" => wanted' \cap (folder' \cup KernelCores) = {}
    BY <1>1, <1>4
  <2> QED
    BY <2>1 DEF CopyIsComplete, Cli!CopyIsComplete
<1> QED
  BY <1>3, <1>9, <1>10 DEF CoresInv

\* A file more is on the server, under its own name or the one given.
LEMMA PutKeeps ==
  ASSUME TypeOK, CoresInv, UNCHANGED dumped, NEW c \in files, Cli!Put(c)
  PROVE  CoresInv'
<1> DEFINE name == Cli!FileName(c)
           Left(d) == d \in wanted \cap (folder \cup KernelCores)
<1>1. /\ UNCHANGED <<folder, request, rows, wanted>> /\ cpc = "file"
      /\ request # Cli!Show /\ Cli!IsFirst(c, files)
      /\ \/ (files = {c} \/ Cli!Kernel) /\ cpc' = "done"
         \/ cpc' = "file" /\ files' = files \ {c} /\ ~Cli!Kernel
  BY DEF Cli!Put, Cli!Advance, Cli!Finish
<1>2. /\ DOMAIN server' = DOMAIN server \cup {name}
      /\ server'[name] = c
      /\ \A n \in DOMAIN server \ {name} : server'[n] = server[n]
  BY DEF Cli!Put
<1> HIDE DEF name
<1>3. /\ \A d : Cli!Fits(d)' = Cli!Fits(d) /\ Cli!FileName(d)' = Cli!FileName(d)
      /\ Cli!Kernel' = Cli!Kernel
  BY <1>1 DEF Cli!Fits, Cli!FileName, Cli!Kernel
<1>4. WantedInv'
  BY <1>1, <1>3 DEF CoresInv, WantedInv, First, Cli!IsFirst
<1>5. /\ files = IF Cli!Kernel THEN KernelCores ELSE files \ KernelCores
      /\ Cli!Kernel => server = <<>>
      /\ ~Cli!Kernel => \A d \in files : Cli!Fits(d)
      /\ \A n \in DOMAIN server : n = Cli!FileName(server[n])
      /\ ~Cli!Kernel => \A n \in DOMAIN server : Cli!Fits(server[n])
      /\ \A d : Left(d) => d \in files \/ Cli!Copied(d)
  BY <1>1 DEF CoresInv, CopyInv
<1>6. \A n \in DOMAIN server' : n = Cli!FileName(server'[n])
  BY <1>2, <1>5 DEF name
<1>7. ~Cli!Kernel => \A n \in DOMAIN server' : Cli!Fits(server'[n])
  BY <1>2, <1>5
<1>8. \A d : Left(d) => (~Cli!Kernel /\ d \in files \ {c}) \/ Cli!Copied(d)'
  <2> SUFFICES ASSUME NEW d, Left(d)
               PROVE  (~Cli!Kernel /\ d \in files \ {c}) \/ Cli!Copied(d)'
    OBVIOUS
  <2>1. d \in files \/ Cli!Copied(d)
    BY <1>5
  <2>2. Cli!Kernel => d = c
    <3>1. ASSUME Cli!Kernel
          PROVE  d = c
      <4>1. d \in KernelCores /\ First(d)
        BY <3>1, NamesAssumption DEF CoresInv, WantedInv, TypeOK
      <4>2. c \in KernelCores /\ First(c)
        BY <1>1, <1>5, <3>1 DEF First
      <4> QED
        BY <4>1, <4>2, OneFirst
    <3> QED
      BY <3>1
  <2>3. CASE request.file = NotGiven
    <3>1. name = c
      BY <2>3 DEF name, Cli!FileName
    <3>2. request'.file = NotGiven
      BY <1>1, <2>3
    <3>3. CASE d = c
      BY <1>2, <3>1, <3>2, <3>3 DEF Cli!Copied
    <3>4. CASE d # c
      <4>1. ~Cli!Kernel /\ (d \in files \/ (d \in DOMAIN server /\ server[d] = d))
        BY <2>1, <2>2, <2>3, <3>4 DEF Cli!Copied
      <4>2. d \in DOMAIN server /\ server[d] = d
              => d \in DOMAIN server' /\ server'[d] = d
        BY <1>2, <3>1, <3>4
      <4> QED
        BY <3>2, <3>4, <4>1, <4>2 DEF Cli!Copied
    <3> QED
      BY <3>3, <3>4
  <2>4. CASE request.file # NotGiven
    <3>1. name = request.file /\ request'.file = request.file
      BY <1>1, <2>4 DEF name, Cli!FileName
    <3>2. DOMAIN server' = {request.file}
      BY <1>2, <1>5, <2>4, <3>1 DEF Cli!FileName
    <3>3. c = d \/ (d \notin KernelCores /\ Cli!Fits(c))
      <4>1. CASE Cli!Kernel
        BY <2>2, <4>1
      <4>2. CASE ~Cli!Kernel
        BY <1>5, <4>2 DEF CoresInv, WantedInv
      <4> QED
        BY <4>1, <4>2
    <3> QED
      BY <1>1, <1>2, <1>3, <2>4, <3>1, <3>2, <3>3 DEF Cli!Copied
  <2> QED
    BY <2>3, <2>4
<1>9. CASE cpc' = "done"
  <2>1. \A d : Left(d) => Cli!Copied(d)'
    BY <1>1, <1>8, <1>9
  <2>2. CopyIsComplete'
    BY <1>1, <2>1 DEF CopyIsComplete, Cli!CopyIsComplete
  <2>3. CopyInv'
    BY <1>1, <1>9 DEF CoresInv, CopyInv
  <2> QED
    BY <1>4, <2>2, <2>3 DEF CoresInv
<1>10. CASE cpc' = "file"
  <2>1. files' = files \ {c} /\ ~Cli!Kernel
    BY <1>1, <1>10
  <2>2. CopyInv'
    BY <1>1, <1>3, <1>5, <1>6, <1>7, <1>8, <1>10, <2>1 DEF CopyInv
  <2>3. CopyIsComplete'
    BY <1>10 DEF CopyIsComplete, Cli!CopyIsComplete
  <2> QED
    BY <1>4, <2>2, <2>3 DEF CoresInv
<1> QED
  BY <1>1, <1>9, <1>10

LEMMA ShowKeeps ==
  ASSUME TypeOK, CoresInv, UNCHANGED dumped,
         Cli!ShowKernel \/ \E c \in files : Cli!ShowRow(c)
  PROVE  CoresInv'
<1>1. /\ UNCHANGED <<folder, request, server, wanted>>
      /\ cpc = "file" /\ request = Cli!Show /\ cpc' \in {"file", "done"}
      /\ files' \subseteq files
      /\ rows' \subseteq rows \cup files
                \cup {c \in KernelCores : Cli!IsFirst(c, KernelCores)}
  BY DEF Cli!ShowKernel, Cli!ShowRow, Cli!Finish
<1>2. files \subseteq dumped /\ wanted = {}
  BY <1>1 DEF CoresInv, CopyInv
<1>3. WantedInv'
  BY <1>1, <1>2 DEF CoresInv, WantedInv, First, Cli!IsFirst
<1>4. CopyInv' /\ CopyIsComplete'
  BY <1>1, <1>2 DEF CopyInv, CopyIsComplete, Cli!CopyIsComplete
<1> QED
  BY <1>3, <1>4 DEF CoresInv

LEMMA EndKeeps ==
  ASSUME TypeOK, CoresInv, UNCHANGED dumped,
         Cli!Refuse \/ Cli!PutFails \/ Cli!ShowFails \/ Cli!Return
  PROVE  CoresInv'
<1>1. CASE Cli!Refuse \/ Cli!PutFails \/ Cli!ShowFails
  <2>1. /\ cpc' = "done" /\ return_val' = "warning"
        /\ UNCHANGED <<folder, request, rows, wanted>>
    BY <1>1 DEF Cli!Refuse, Cli!PutFails, Cli!ShowFails, Cli!Finish
  <2>2. WantedInv'
    BY <2>1 DEF CoresInv, WantedInv, First, Cli!IsFirst, Cli!Kernel, Cli!Fits
  <2>3. CopyInv' /\ CopyIsComplete'
    BY <2>1 DEF CoresInv, CopyInv, CopyIsComplete, Cli!CopyIsComplete
  <2> QED
    BY <2>2, <2>3 DEF CoresInv
<1>2. CASE Cli!Return
  <2>1. /\ cpc' = "idle" /\ wanted' = {} /\ server' = <<>>
        /\ UNCHANGED <<folder, rows>>
    BY <1>2 DEF Cli!Return
  <2> QED
    BY <2>1 DEF CoresInv, WantedInv, CopyInv, CopyIsComplete,
       Cli!CopyIsComplete, First, Cli!IsFirst
<1> QED
  BY <1>1, <1>2

\* `copy core-dump' succeeds only with every core that was wanted and is still
\* there on the server, for every set of cores, whatever comes and goes while
\* it runs.
THEOREM CopyCorrect == CoresSpec => []CopyIsComplete
<1>1. CoresInit => CoresInv
  BY DEF CoresInit, Cli!CopyInit, CoresInv, WantedInv, CopyInv,
     CopyIsComplete, Cli!CopyIsComplete
<1>2. TypeOK /\ CoresInv /\ [CoresNext]_<<vars, command>> => CoresInv'
  <2> SUFFICES ASSUME TypeOK, CoresInv, [CoresNext]_<<vars, command>>
               PROVE  CoresInv'
    OBVIOUS
  <2>1. CASE Next /\ UNCHANGED command
    BY <2>1, DaemonKeeps
  <2>2. CASE Cli!CopyNext /\ UNCHANGED dumped
    BY <2>2, TypedKeeps, ListKeeps, PutKeeps, ShowKeeps, EndKeeps
    DEF Cli!CopyNext
  <2>3. CASE UNCHANGED <<vars, command>>
    BY <2>3 DEF vars, command, CoresInv, WantedInv, CopyInv, CopyIsComplete,
       Cli!CopyIsComplete, Cli!Kernel, Cli!Fits, Cli!FileName, Cli!Copied,
       First, Cli!IsFirst
  <2> QED
    BY <2>1, <2>2, <2>3 DEF CoresNext
<1>3. CoresSpec => []TypeOK
  BY CommandsOnlyRead, TypeCorrect
<1>4. CoresInv => CopyIsComplete
  BY DEF CoresInv
<1> QED
  BY <1>1, <1>2, <1>3, <1>4, PTL DEF CoresSpec
=============================================================================
