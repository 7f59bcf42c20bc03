--------------------------- MODULE JobMgtProofs ---------------------------
(***************************************************************************)
(* The job file of run6/JobMgt.cpp for any number of shells, processes and *)
(* commands, when the file is not empty at the start.                      *)
(*                                                                         *)
(* The argument: the file never shrinks, so every size that a shell reads  *)
(* is at least one and every two regions share the first record            *)
(* (SizeOk). Hence one shell at a time scans (OneScanner), and the record  *)
(* it chose to overwrite stays one that no recorded job is known by until  *)
(* it has written it (ChosenInv): a job becomes known by its number only   *)
(* when its own shell writes. A kill that reads a record has locked it     *)
(* outside of the region of the shell that scans (KillApart), so a write   *)
(* is refused only past the size that was read.                            *)
(***************************************************************************)
EXTENDS JobMgt, TLAPS

States == {"none", "suspended", "job", "other", "ended"}
ActiveStates == {"suspended", "job", "other"}

(* The region of a shell is not empty once it has read the size. *)
SizeOk(s) == pc[s] \in Scanning \cup {"add.lock", "list.lock"} => size[s] >= 1

PlaceOk(s) ==
  /\ pc[s] \in Scanning => pos[s] \in 1 .. Len(file) + 1
  /\ At(s, "list.clear") => pos[s] <= Len(file)

(* What a shell holds while it adds a job is the process it will record; *)
(* it holds none between commands, while it lists, and before kill has   *)
(* found its process.                                                    *)
OwnOk(s) ==
  /\ pc[s] \in {"add.open", "add.lock"} \cup Adding => using[s] \subseteq {target[s]}
  /\ pc[s] \in {"prompt", "list.lock", "kill.lock", "kill.read", "kill.open"} \cup Listing
       => using[s] = {}

ShellInv == \A s \in Shell : SizeOk(s) /\ PlaceOk(s) /\ OwnOk(s)

(* No recorded job is known by the record a shell has chosen to overwrite. *)
ChosenInv ==
  \A s \in Shell : pc[s] \in {"add.write", "list.clear"} =>
    \A p \in Pid : Recorded(p) => number[p] # pos[s]

(* The shared lock of kill and the region of a shell that scans are apart. *)
KillApart ==
  \A s, t \in Shell : pc[s] \in Scanning /\ At(t, "kill.read") => pos[t] \notin Region(s)

IInv ==
  /\ TypeOK
  /\ file # << >>
  /\ ShellInv /\ OneScanner /\ KillApart
  /\ ChosenInv /\ NumberNames

-----------------------------------------------------------------------------
(* Reaping changes ended processes only. *)
LEMMA ReapedFacts ==
  ASSUME NEW state \in [Pid -> States], NEW kept, NEW used
  PROVE  /\ Reaped(state, kept, used) \in [Pid -> States]
         /\ \A p \in Pid : Reaped(state, kept, used)[p] \in ActiveStates =>
                             Reaped(state, kept, used)[p] = state[p]
  BY DEF Reaped, States, ActiveStates

LEMMA WriteFacts ==
  ASSUME file \in Seq(Pid \cup {Free}), NEW id \in Pid \cup {Free},
         NEW i \in 1 .. Len(file) + 1
  PROVE  /\ Write(i, id) \in Seq(Pid \cup {Free})
         /\ Write(i, id) # << >>
         /\ Len(Write(i, id)) >= Len(file)
         /\ i \in 1 .. Len(Write(i, id)) /\ Write(i, id)[i] = id
         /\ \A j \in 1 .. Len(file) : j # i => Write(i, id)[j] = file[j]
         /\ i <= Len(file) => Len(Write(i, id)) = Len(file)
  <1>1. CASE i <= Len(file)
    <2>1. i \in DOMAIN file /\ Write(i, id) = [file EXCEPT ![i] = id]
      BY <1>1 DEF Write
    <2> QED  BY <1>1, <2>1
  <1>2. CASE i = Len(file) + 1
    <2>1. Write(i, id) = Append(file, id)
      BY <1>2 DEF Write
    <2> QED  BY <1>2, <2>1
  <1> QED  BY <1>1, <1>2

(* Every two regions share the first record. *)
LEMMA RegionsOverlap ==
  ASSUME NEW s \in Shell, NEW t \in Shell, s # t, TypeOK, ShellInv,
         pc[s] \in {"add.lock", "list.lock"}, GrantedRegion(s)
  PROVE  pc[t] \notin Scanning
  <1> SUFFICES ASSUME pc[t] \in Scanning PROVE FALSE
    OBVIOUS
  <1>1. 1 \in Region(s) /\ 1 \in Region(t)
    BY DEF ShellInv, SizeOk, Region, TypeOK
  <1>2. Locked(t) = Region(t)
    BY DEF Locked, Exclusive, At, Scanning, Adding, Listing
  <1> QED  BY <1>1, <1>2 DEF GrantedRegion

-----------------------------------------------------------------------------
(* Type correctness: files hold records, handles are of processes. *)

LEMMA TypeInit == Init => TypeOK
  BY FilesAssumption, CommandsAssumption DEF Init, TypeOK, Free

(* The conjuncts of TypeOK about a command alone. *)
LEMMA ReturnType ==
  ASSUME TypeOK, NEW s \in Shell, Return(s)
  PROVE  /\ pc' \in [Shell -> Commands \cup {"prompt", "gone"}]
         /\ size' \in [Shell -> Nat] /\ pos' \in [Shell -> Nat]
         /\ target' \in [Shell -> Pid \cup {Free}]
  BY DEF TypeOK, Return, Goto

LEMMA GotoType ==
  ASSUME TypeOK, NEW s \in Shell, NEW l \in Commands \cup {"prompt", "gone"}, Goto(s, l)
  PROVE  pc' \in [Shell -> Commands \cup {"prompt", "gone"}]
  BY DEF TypeOK, Goto

LEMMA AdvanceType ==
  ASSUME TypeOK, NEW s \in Shell, Advance(s)
  PROVE  pos' \in [Shell -> Nat]
  <1>1. pos[s] + 1 \in Nat
    BY DEF TypeOK
  <1> QED  BY <1>1 DEF Advance, TypeOK

LEMMA LeakType ==
  ASSUME TypeOK, NEW s \in Shell, NEW p \in Pid \cup {Free}, Leak(s, p)
  PROVE  handles' \in [Shell -> SUBSET Pid]
  <1>1. Opens(s, p) => p \in Pid
    BY DEF Opens
  <1>2. (IF Opens(s, p) THEN handles[s] \cup {p} ELSE handles[s]) \in SUBSET Pid
    BY <1>1 DEF TypeOK
  <1> QED  BY <1>2 DEF Leak, TypeOK

LEMMA ReadSizeType ==
  ASSUME TypeOK, NEW s \in Shell, ReadSize(s)
  PROVE  size' \in [Shell -> Nat]
  <1>1. Len(file) \in Nat
    BY DEF TypeOK
  <1> QED  BY <1>1 DEF ReadSize, TypeOK

LEMMA CloseType ==
  ASSUME TypeOK, NEW s \in Shell, NEW state \in [Pid -> States], CloseProcess(s, state)
  PROVE  /\ using' \in [Shell -> SUBSET Pid]
         /\ proc' \in [Pid -> States]
         /\ \A p \in Pid : proc'[p] \in ActiveStates => proc'[p] = state[p]
  <1>1. using' \in [Shell -> SUBSET Pid]
    BY DEF TypeOK, CloseProcess
  <1> QED  BY <1>1, ReapedFacts DEF CloseProcess

(* Adding a job keeps the types. *)
LEMMA AddType ==
  ASSUME TypeOK, ShellInv, NEW s \in Shell,
         \/ Jobbg(s) \/ JobbgOfNothing(s) \/ AddOpen(s) \/ AddFails(s) \/ AddLock(s)
         \/ AddScan(s) \/ AddWrite(s) \/ AddResume(s)
  PROVE  TypeOK'
  <1> USE DEF vars, store, processes, local
  <1>1. CASE Jobbg(s)
    BY <1>1, CommandsAssumption DEF Jobbg, Type, TypeOK, Goto, Commands
  <1>2. CASE JobbgOfNothing(s)
    BY <1>2, CommandsAssumption DEF JobbgOfNothing, Type, TypeOK, Goto, Commands
  <1>3. CASE AddOpen(s)
    BY <1>3 DEF AddOpen, ReadSize, TypeOK, Goto, Commands
  <1>4. CASE AddFails(s)
    <2>1. [p \in Pid |-> IF p \in using[s] THEN "ended" ELSE proc[p]] \in [Pid -> States]
      BY DEF TypeOK, States
    <2>2. handles' \in [Shell -> SUBSET Pid] /\ using' \in [Shell -> SUBSET Pid]
      BY <1>4 DEF AddFails, TypeOK
    <2> QED  BY <1>4, <2>1, <2>2, ReturnType DEF AddFails, TypeOK, States
  <1>5. CASE AddLock(s)
    BY <1>5 DEF AddLock, TypeOK, Goto, Commands, Scanning, Adding
  <1>6. CASE AddScan(s)
    <2>1. pc' \in [Shell -> Commands \cup {"prompt", "gone"}]
      BY <1>6, ReturnType DEF AddScan, TypeOK, Goto, Commands, Scanning, Adding
    <2>2. pos' \in [Shell -> Nat]
      <3>1. pos' = pos \/ Advance(s)
        BY <1>6 DEF AddScan
      <3> QED  BY <3>1, AdvanceType DEF TypeOK
    <2>3. handles' \in [Shell -> SUBSET Pid]
      <3>1. CASE AtEnd(s)
        BY <1>6, <3>1 DEF AddScan, TypeOK
      <3>2. CASE ~AtEnd(s)
        <4>1. pos[s] \in DOMAIN file
          BY <1>6, <3>2 DEF AddScan, At, AtEnd, ShellInv, PlaceOk, TypeOK, Scanning, Adding
        <4>2. Record(s) \in Pid \cup {Free}
          BY <4>1 DEF TypeOK, Record
        <4>3. Leak(s, Record(s))
          BY <1>6, <3>2 DEF AddScan
        <4> QED  BY <4>2, <4>3, LeakType
      <3> QED  BY <3>1, <3>2
    <2> QED  BY <1>6, <2>1, <2>2, <2>3 DEF AddScan, TypeOK
  <1>7. CASE AddWrite(s)
    <2>1. pos[s] \in 1 .. Len(file) + 1 /\ target[s] \in Pid \cup {Free}
      BY <1>7 DEF AddWrite, At, ShellInv, PlaceOk, TypeOK, Scanning, Adding
    <2>2. file' \in Seq(Pid \cup {Free})
      BY <1>7, <2>1, WriteFacts DEF AddWrite, TypeOK
    <2>3. number' \in [Pid -> Nat]
      BY <1>7 DEF AddWrite, TypeOK
    <2>4. refused' \subseteq Pid
      BY <1>7 DEF AddWrite, TypeOK
    <2> QED  BY <1>7, <2>2, <2>3, <2>4 DEF AddWrite, TypeOK, Goto, Commands
  <1>8. CASE AddResume(s)
    <2>1. [p \in Pid |-> IF p \in using[s] /\ proc[p] = "suspended" THEN "job" ELSE proc[p]]
            \in [Pid -> States]
      BY DEF TypeOK, States
    <2> QED  BY <1>8, <2>1, CloseType, ReturnType DEF AddResume, TypeOK, States
  <1> QED  BY <1>1, <1>2, <1>3, <1>4, <1>5, <1>6, <1>7, <1>8

(* Listing and killing jobs, and the processes by themselves. *)
LEMMA OtherType ==
  ASSUME TypeOK, ShellInv, NEW s \in Shell,
         \/ Jobs(s) \/ ListLock(s) \/ ListScan(s) \/ ListClear(s)
         \/ Kill(s) \/ KillLock(s) \/ KillRead(s) \/ KillOpen(s) \/ KillWait(s) \/ Quit(s)
  PROVE  TypeOK'
  <1> USE DEF vars, store, processes, local
  <1>1. CASE Jobs(s)
    <2>1. size' \in [Shell -> Nat]
      BY <1>1, ReadSizeType DEF Jobs, TypeOK
    <2>2. pc' \in [Shell -> Commands \cup {"prompt", "gone"}]
      BY <1>1, GotoType DEF Jobs, TypeOK, Commands
    <2>3. issued' \in 0 .. MaxCommands
      BY <1>1, CommandsAssumption DEF Jobs, Type, TypeOK
    <2> QED  BY <1>1, <2>1, <2>2, <2>3 DEF Jobs, TypeOK
  <1>2. CASE ListLock(s)
    BY <1>2 DEF ListLock, TypeOK, Goto, Commands, Scanning, Listing
  <1>3. CASE ListScan(s)
    <2>1. CASE AtEnd(s)
      BY <1>3, <2>1, ReturnType DEF ListScan, TypeOK
    <2>2. CASE ~AtEnd(s)
      <3>1. pos[s] \in DOMAIN file
        BY <1>3, <2>2 DEF ListScan, At, AtEnd, ShellInv, PlaceOk, TypeOK, Scanning, Listing
      <3>2. Record(s) \in Pid \cup {Free}
        BY <3>1 DEF TypeOK, Record
      <3>3. handles' \in [Shell -> SUBSET Pid]
        <4>1. Leak(s, Record(s))
          BY <1>3, <2>2 DEF ListScan
        <4> QED  BY <3>2, <4>1, LeakType
      <3>4. pc' = pc \/ Goto(s, "list.clear")
        BY <1>3, <2>2 DEF ListScan
      <3>5. pc' \in [Shell -> Commands \cup {"prompt", "gone"}]
        BY <3>4, GotoType DEF TypeOK, Commands, Scanning, Listing
      <3>6. pos' = pos \/ Advance(s)
        BY <1>3, <2>2 DEF ListScan
      <3>7. pos' \in [Shell -> Nat]
        BY <3>6, AdvanceType DEF TypeOK
      <3> QED  BY <1>3, <2>2, <3>3, <3>5, <3>7 DEF ListScan, TypeOK
    <2> QED  BY <2>1, <2>2
  <1>4. CASE ListClear(s)
    <2>1. pos[s] \in 1 .. Len(file) + 1
      BY <1>4 DEF ListClear, At, ShellInv, PlaceOk, Scanning, Listing
    <2>2. file' \in Seq(Pid \cup {Free})
      BY <1>4, <2>1, WriteFacts DEF ListClear, TypeOK, Free
    <2>3. pos' = pos \/ Advance(s)
      BY <1>4 DEF ListClear
    <2>4. pos' \in [Shell -> Nat]
      BY <2>3, AdvanceType DEF TypeOK
    <2>5. pc' \in [Shell -> Commands \cup {"prompt", "gone"}]
      BY <1>4, GotoType DEF ListClear, Commands, Scanning, Listing
    <2> QED  BY <1>4, <2>2, <2>4, <2>5 DEF ListClear, TypeOK
  <1>5. CASE Kill(s)
    <2>1. \A n \in 0 .. Len(file) + 1 : n \in Nat
      OBVIOUS
    <2> QED  BY <1>5, <2>1, CommandsAssumption DEF Kill, Type, TypeOK, Goto, Commands
  <1>6. CASE KillLock(s)
    BY <1>6 DEF KillLock, TypeOK, Goto, Commands
  <1>7. CASE KillRead(s)
    BY <1>7 DEF KillRead, TypeOK, Goto, Commands
  <1>8. CASE KillOpen(s)
    <2>1. CASE ~Opens(s, target[s])
      BY <1>8, <2>1, ReturnType DEF KillOpen, TypeOK
    <2>2. CASE Opens(s, target[s])
      <3>1. target[s] \in Pid
        BY <2>2 DEF Opens, TypeOK
      <3>2. using' \in [Shell -> SUBSET Pid]
        <4>1. {target[s]} \in SUBSET Pid
          BY <3>1
        <4>2. using' = [using EXCEPT ![s] = {target[s]}]
          BY <1>8, <2>2 DEF KillOpen
        <4> QED  BY <4>1, <4>2 DEF TypeOK
      <3>3. proc' \in [Pid -> States]
        BY <1>8, <2>2, <3>1 DEF KillOpen, TypeOK, States
      <3>4. pc' \in [Shell -> Commands \cup {"prompt", "gone"}]
        BY <1>8, <2>2, GotoType DEF KillOpen, Commands
      <3> QED  BY <1>8, <2>2, <3>2, <3>3, <3>4 DEF KillOpen, TypeOK, States
    <2> QED  BY <2>1, <2>2
  <1>9. CASE KillWait(s)
    <2>1. proc \in [Pid -> States]
      BY DEF TypeOK, States
    <2> QED  BY <1>9, <2>1, CloseType, ReturnType DEF KillWait, TypeOK, States
  <1>10. CASE Quit(s)
    <2>1. proc' \in [Pid -> States]
      BY <1>10, ReapedFacts DEF Quit, TypeOK, States
    <2> QED  BY <1>10, <2>1 DEF Quit, TypeOK, States, Free
  <1> QED
    BY <1>1, <1>2, <1>3, <1>4, <1>5, <1>6, <1>7, <1>8, <1>9, <1>10

LEMMA ProcessType ==
  ASSUME TypeOK, NEW p \in Pid, Exit(p) \/ Start(p)
  PROVE  TypeOK'
  <1> USE DEF vars, store, processes, local
  <1>1. CASE Exit(p)
    <2>1. [proc EXCEPT ![p] = "ended"] \in [Pid -> States]
      BY DEF TypeOK, States
    <2>2. proc' \in [Pid -> States]
      BY <1>1, <2>1, ReapedFacts DEF Exit
    <2> QED  BY <1>1, <2>2 DEF Exit, TypeOK, States
  <1>2. CASE Start(p)
    BY <1>2 DEF Start, TypeOK
  <1> QED  BY <1>1, <1>2

-----------------------------------------------------------------------------
(* What one step of a shell does *)

ShellStep(s) ==
  Jobbg(s) \/ JobbgOfNothing(s) \/ Jobs(s) \/ Kill(s) \/ Quit(s) \/ Proceed(s)

LEMMA ShellStepType ==
  ASSUME TypeOK, ShellInv, NEW s \in Shell, ShellStep(s)
  PROVE  TypeOK'
  BY AddType, OtherType DEF ShellStep, Proceed

(* A step of one shell leaves the variables of the others alone. *)
LEMMA OthersStay ==
  ASSUME TypeOK, NEW s \in Shell, ShellStep(s), NEW t \in Shell \ {s}
  PROVE  /\ pc'[t] = pc[t] /\ size'[t] = size[t]
         /\ pos'[t] = pos[t] /\ target'[t] = target[t] /\ using'[t] = using[t]
  <1> USE DEF vars, store, processes, local, TypeOK, Goto, Return, CloseProcess
  <1>1. CASE Jobbg(s) \/ JobbgOfNothing(s) \/ Jobs(s) \/ Kill(s)
    BY <1>1 DEF Jobbg, JobbgOfNothing, Jobs, Kill, Type, ReadSize
  <1>2. CASE Quit(s)
    BY <1>2 DEF Quit
  <1>3. CASE AddOpen(s) \/ AddFails(s) \/ AddLock(s) \/ AddScan(s)
    BY <1>3 DEF AddOpen, AddFails, AddLock, AddScan, ReadSize, Advance
  <1>4. CASE AddWrite(s) \/ AddResume(s) \/ ListLock(s)
    BY <1>4 DEF AddWrite, AddResume, ListLock
  <1>5. CASE ListScan(s) \/ ListClear(s)
    BY <1>5 DEF ListScan, ListClear, Advance
  <1>6. CASE KillLock(s) \/ KillRead(s) \/ KillOpen(s) \/ KillWait(s)
    BY <1>6 DEF KillLock, KillRead, KillOpen, KillWait
  <1> QED  BY <1>1, <1>2, <1>3, <1>4, <1>5, <1>6 DEF ShellStep, Proceed

(* The file changes at the record of a scanning shell, and never shrinks. *)
LEMMA FileStep ==
  ASSUME TypeOK, ShellInv, file # << >>, NEW s \in Shell, ShellStep(s)
  PROVE  /\ file' # << >> /\ Len(file') >= Len(file)
         /\ pc[s] \in {"add.write", "list.clear"} \/ file' = file
         /\ \A j \in 1 .. Len(file) : j # pos[s] => file'[j] = file[j]
  <1> USE DEF vars, store, processes, local
  <1>1. CASE AddWrite(s)
    <2>1. pc[s] = "add.write" /\ pos[s] \in 1 .. Len(file) + 1
      BY <1>1 DEF AddWrite, At, ShellInv, PlaceOk, Scanning, Adding
    <2>2. target[s] \in Pid \cup {Free}
      BY DEF TypeOK
    <2>3. file' = file \/ file' = Write(pos[s], target[s])
      BY <1>1 DEF AddWrite
    <2>4. file \in Seq(Pid \cup {Free}) /\ Len(file) \in Nat
      BY DEF TypeOK
    <2>5. CASE file' = file
      BY <2>1, <2>4, <2>5
    <2>6. CASE file' = Write(pos[s], target[s])
      BY <2>1, <2>2, <2>4, <2>6, WriteFacts
    <2> QED  BY <2>3, <2>5, <2>6
  <1>2. CASE ListClear(s)
    <2>1. pc[s] = "list.clear" /\ pos[s] \in 1 .. Len(file) + 1
      BY <1>2 DEF ListClear, At, ShellInv, PlaceOk, Scanning, Listing
    <2>2. Free \in Pid \cup {Free}
      OBVIOUS
    <2>3. file' = file \/ file' = Write(pos[s], Free)
      BY <1>2 DEF ListClear
    <2>4. file \in Seq(Pid \cup {Free}) /\ Len(file) \in Nat
      BY DEF TypeOK
    <2>5. CASE file' = file
      BY <2>1, <2>4, <2>5
    <2>6. CASE file' = Write(pos[s], Free)
      BY <2>1, <2>2, <2>4, <2>6, WriteFacts
    <2> QED  BY <2>3, <2>5, <2>6
  <1>3. CASE ~AddWrite(s) /\ ~ListClear(s)
    <2>1. file' = file
      BY <1>3 DEF ShellStep, Proceed, Jobbg, JobbgOfNothing, Jobs, Kill, Quit, AddOpen, AddFails,
                  AddLock, AddScan, AddResume, ListLock, ListScan, KillLock, KillRead, KillOpen,
                  KillWait, Type
    <2>2. Len(file) \in Nat
      BY DEF TypeOK
    <2> QED  BY <2>1, <2>2
  <1> QED  BY <1>1, <1>2, <1>3

(* Only one shell scans: a shell begins to scan when no other does. *)
LEMMA ScanStep ==
  ASSUME TypeOK, ShellInv, OneScanner, NEW s \in Shell, ShellStep(s), pc'[s] \in Scanning,
         NEW t \in Shell \ {s}
  PROVE  pc[t] \notin Scanning
  <1>1. CASE pc[s] \in Scanning
    BY <1>1 DEF OneScanner
  <1>2. CASE AddLock(s) \/ ListLock(s)
    <2>1. pc[s] \in {"add.lock", "list.lock"} /\ GrantedRegion(s)
      BY <1>2 DEF AddLock, ListLock, At
    <2> QED  BY <2>1, RegionsOverlap
  <1>3. CASE pc[s] \notin Scanning /\ ~AddLock(s) /\ ~ListLock(s)
    <2> USE DEF TypeOK, Goto, At, Scanning, Adding, Listing
    <2>1. CASE Jobbg(s) \/ JobbgOfNothing(s) \/ Jobs(s) \/ Kill(s) \/ Quit(s)
      BY <1>3, <2>1 DEF Jobbg, JobbgOfNothing, Jobs, Kill, Type, Quit
    <2>2. CASE AddOpen(s) \/ AddFails(s) \/ AddResume(s)
      BY <1>3, <2>2 DEF AddOpen, AddFails, AddResume, Return
    <2>3. CASE KillLock(s) \/ KillRead(s) \/ KillOpen(s) \/ KillWait(s)
      BY <1>3, <2>3 DEF KillLock, KillRead, KillOpen, KillWait, Return
    <2>4. CASE AddScan(s) \/ AddWrite(s) \/ ListScan(s) \/ ListClear(s)
      BY <1>3, <2>4 DEF AddScan, AddWrite, ListScan, ListClear
    <2> QED  BY <1>3, <2>1, <2>2, <2>3, <2>4 DEF ShellStep, Proceed
  <1> QED  BY <1>1, <1>2, <1>3

(* A job that is recorded after a step was recorded under the same number, *)
(* or its record has just been written.                                    *)
LEMMA RecordedStep ==
  ASSUME TypeOK, NEW s \in Shell, ShellStep(s), NEW p \in Pid, Recorded(p)'
  PROVE  \/ Recorded(p) /\ number'[p] = number[p]
         \/ AddWrite(s) /\ p \in using[s] /\ file' = Write(pos[s], target[s]) /\ number'[p] = pos[s]
  <1> USE DEF vars, store, processes, local
  <1>1. CASE Jobbg(s)
    BY <1>1 DEF Jobbg, TypeOK, Recorded, Active
  <1>2. CASE AddFails(s)
    BY <1>2 DEF AddFails, Recorded, Active
  <1>3. CASE AddWrite(s)
    BY <1>3 DEF AddWrite, TypeOK, Recorded, Active
  <1>4. CASE AddResume(s)
    <2>1. [q \in Pid |-> IF q \in using[s] /\ proc[q] = "suspended" THEN "job" ELSE proc[q]]
            \in [Pid -> States]
      BY DEF TypeOK, States
    <2> QED  BY <1>4, <2>1, CloseType DEF AddResume, Recorded, Active, ActiveStates
  <1>5. CASE KillOpen(s)
    <2>1. proc' = proc \/ proc' = [proc EXCEPT ![target[s]] = "ended"]
      BY <1>5 DEF KillOpen
    <2> QED  BY <1>5, <2>1 DEF KillOpen, TypeOK, Recorded, Active
  <1>6. CASE KillWait(s)
    <2>1. proc \in [Pid -> States]
      BY DEF TypeOK, States
    <2> QED  BY <1>6, <2>1, CloseType DEF KillWait, Recorded, Active, ActiveStates
  <1>7. CASE Quit(s)
    <2>1. proc \in [Pid -> States] /\ proc' = Reaped(proc, handles', using')
      BY <1>7 DEF Quit, TypeOK, States
    <2>2. proc'[p] \in ActiveStates => proc'[p] = proc[p]
      BY <2>1, ReapedFacts
    <2> QED  BY <1>7, <2>2 DEF Quit, Recorded, Active, ActiveStates
  <1>8. CASE UNCHANGED <<proc, number, refused>>
    BY <1>8 DEF Recorded, Active
  <1> QED
    BY <1>1, <1>2, <1>3, <1>4, <1>5, <1>6, <1>7, <1>8
    DEF ShellStep, Proceed, JobbgOfNothing, Jobs, Kill, AddOpen, AddLock, AddScan, ListLock,
        ListScan, ListClear, KillLock, KillRead

(* A lock of kill and a region that were apart stay so: whichever of the *)
(* two is asked for last is granted only then.                           *)
LEMMA KillApartStep ==
  ASSUME TypeOK, ShellInv, KillApart, NEW s \in Shell, ShellStep(s)
  PROVE  KillApart'
  <1>1. \A t \in Shell \ {s} : pc'[t] = pc[t] /\ size'[t] = size[t] /\ pos'[t] = pos[t]
    BY OthersStay
  <1>2. ASSUME pc'[s] \in Scanning, NEW t \in Shell \ {s}, At(t, "kill.read")
        PROVE  size'[s] = size[s] /\ pos[t] \notin Region(s)
    <2> USE DEF vars, store, processes, local
    <2>1. CASE AddLock(s) \/ ListLock(s)
      <3>1. GrantedRegion(s) /\ size' = size
        BY <2>1 DEF AddLock, ListLock
      <3>2. Locked(t) = {pos[t]} \ {0} /\ 0 \notin Region(s)
        BY <1>2 DEF Locked, Region, TypeOK
      <3> QED  BY <3>1, <3>2 DEF GrantedRegion
    <2>2. CASE AddScan(s) \/ AddWrite(s) \/ ListScan(s) \/ ListClear(s)
      <3>1. pc[s] \in Scanning
        BY <2>2 DEF AddScan, AddWrite, ListScan, ListClear, At, Scanning, Adding, Listing
      <3>2. size' = size
        BY <1>2, <2>2 DEF AddScan, AddWrite, ListScan, ListClear, Return, Goto, TypeOK, Scanning,
                          Adding, Listing
      <3> QED  BY <1>2, <3>1, <3>2 DEF KillApart
    <2>3. CASE Jobbg(s) \/ JobbgOfNothing(s) \/ Jobs(s) \/ Kill(s) \/ Quit(s)
      BY <1>2, <2>3 DEF Jobbg, JobbgOfNothing, Jobs, Kill, Type, Quit, TypeOK, Goto, At, Scanning,
                        Adding, Listing
    <2>4. CASE AddOpen(s) \/ AddFails(s) \/ AddResume(s)
      BY <1>2, <2>4 DEF AddOpen, AddFails, AddResume, Return, TypeOK, Goto, At, Scanning,
                        Adding, Listing
    <2>5. CASE KillLock(s) \/ KillRead(s) \/ KillOpen(s) \/ KillWait(s)
      BY <1>2, <2>5 DEF KillLock, KillRead, KillOpen, KillWait, Return, TypeOK, Goto, At, Scanning,
                        Adding, Listing
    <2> QED  BY <2>1, <2>2, <2>3, <2>4, <2>5 DEF ShellStep, Proceed
  <1>3. ASSUME pc'[s] = "kill.read", NEW t \in Shell \ {s}, pc[t] \in Scanning
        PROVE  pos'[s] \notin Region(t)
    <2> USE DEF vars, store, processes, local
    <2>1. CASE KillLock(s)
      BY <1>3, <2>1 DEF KillLock, Exclusive
    <2>2. CASE Jobbg(s) \/ JobbgOfNothing(s) \/ Jobs(s) \/ Kill(s) \/ Quit(s)
      BY <1>3, <2>2 DEF Jobbg, JobbgOfNothing, Jobs, Kill, Type, Quit, TypeOK, Goto, At
    <2>3. CASE AddOpen(s) \/ AddFails(s) \/ AddLock(s) \/ AddScan(s) \/ AddWrite(s) \/ AddResume(s)
      BY <1>3, <2>3 DEF AddOpen, AddFails, AddLock, AddScan, AddWrite, AddResume, Return, TypeOK,
                        Goto, At
    <2>4. CASE ListLock(s) \/ ListScan(s) \/ ListClear(s)
      BY <1>3, <2>4 DEF ListLock, ListScan, ListClear, Return, TypeOK, Goto, At
    <2>5. CASE KillRead(s) \/ KillOpen(s) \/ KillWait(s)
      BY <1>3, <2>5 DEF KillRead, KillOpen, KillWait, Return, TypeOK, Goto, At
    <2> QED  BY <2>1, <2>2, <2>3, <2>4, <2>5 DEF ShellStep, Proceed
  <1> SUFFICES ASSUME NEW u \in Shell, NEW t \in Shell, pc'[u] \in Scanning, pc'[t] = "kill.read"
               PROVE  pos'[t] \notin Region(u)'
    BY DEF KillApart, At
  <1>4. u # t
    BY DEF Scanning, Adding, Listing
  <1>5. CASE u = s
    BY <1>1, <1>2, <1>4, <1>5 DEF Region, At
  <1>6. CASE t = s
    BY <1>1, <1>3, <1>4, <1>6 DEF Region
  <1>7. CASE u # s /\ t # s
    BY <1>1, <1>7 DEF Region, KillApart, At
  <1> QED  BY <1>5, <1>6, <1>7

(* A write is refused only past the size, by a kill of the same number. *)
LEMMA Refused ==
  ASSUME IInv
  PROVE  RefusedPastSize
  <1> SUFFICES ASSUME NEW s \in Shell, NEW t \in Shell, At(s, "add.write"), t # s,
                      pos[s] \in Locked(t)
               PROVE  At(t, "kill.read") /\ pos[t] = pos[s] /\ pos[s] > size[s]
    BY DEF RefusedPastSize
  <1>1. pc[s] \in Scanning /\ pc[t] \notin Scanning
    BY DEF IInv, OneScanner, At, Scanning, Adding
  <1>2. At(t, "kill.read") /\ pos[s] = pos[t] /\ pos[s] # 0
    BY <1>1 DEF Locked, Exclusive
  <1>3. pos[s] \notin Region(s)
    BY <1>1, <1>2 DEF IInv, KillApart
  <1>4. pos[s] \in Nat /\ size[s] \in Nat
    BY DEF IInv, TypeOK
  <1> QED  BY <1>2, <1>3, <1>4 DEF Region

-----------------------------------------------------------------------------
(* The invariant is inductive. *)

LEMMA AddOk ==
  ASSUME TypeOK, TypeOK', ShellInv, file # << >>, NEW s \in Shell, Len(file') >= Len(file),
         \/ Jobbg(s) \/ JobbgOfNothing(s) \/ AddOpen(s) \/ AddFails(s) \/ AddLock(s)
         \/ AddScan(s) \/ AddWrite(s) \/ AddResume(s)
  PROVE  SizeOk(s)' /\ PlaceOk(s)' /\ OwnOk(s)'
  <1>0. SizeOk(s) /\ PlaceOk(s) /\ OwnOk(s) /\ Len(file) \in Nat /\ Len(file) >= 1
    BY DEF ShellInv, TypeOK
  <1> USE DEF vars, store, processes, local, TypeOK, Goto, At, Scanning, Adding, Listing,
              SizeOk, PlaceOk, OwnOk
  <1>1. CASE Jobbg(s)
    BY <1>0, <1>1 DEF Jobbg, Type
  <1>2. CASE JobbgOfNothing(s)
    BY <1>0, <1>2 DEF JobbgOfNothing, Type
  <1>3. CASE AddOpen(s)
    BY <1>0, <1>3 DEF AddOpen, ReadSize
  <1>4. CASE AddFails(s)
    BY <1>0, <1>4 DEF AddFails, CloseProcess, Return
  <1>5. CASE AddLock(s)
    BY <1>0, <1>5 DEF AddLock
  <1>6. CASE AddScan(s)
    <2>1. SizeOk(s)' /\ OwnOk(s)'
      BY <1>0, <1>6 DEF AddScan
    <2>2. PlaceOk(s)'
      BY <1>0, <1>6 DEF AddScan, AtEnd, Advance
    <2> QED  BY <2>1, <2>2
  <1>7. CASE AddWrite(s)
    BY <1>0, <1>7 DEF AddWrite
  <1>8. CASE AddResume(s)
    BY <1>0, <1>8 DEF AddResume, CloseProcess, Return
  <1> QED  BY <1>1, <1>2, <1>3, <1>4, <1>5, <1>6, <1>7, <1>8

LEMMA OtherOk ==
  ASSUME TypeOK, TypeOK', ShellInv, file # << >>, NEW s \in Shell, Len(file') >= Len(file),
         \/ Jobs(s) \/ ListLock(s) \/ ListScan(s) \/ ListClear(s)
         \/ Kill(s) \/ KillLock(s) \/ KillRead(s) \/ KillOpen(s) \/ KillWait(s) \/ Quit(s)
  PROVE  SizeOk(s)' /\ PlaceOk(s)' /\ OwnOk(s)'
  <1>0. SizeOk(s) /\ PlaceOk(s) /\ OwnOk(s) /\ Len(file) \in Nat /\ Len(file) >= 1
    BY DEF ShellInv, TypeOK
  <1> USE DEF vars, store, processes, local, TypeOK, Goto, At, Scanning, Adding, Listing,
              SizeOk, PlaceOk, OwnOk
  <1>1. CASE Jobs(s)
    BY <1>0, <1>1 DEF Jobs, Type, ReadSize
  <1>2. CASE ListLock(s)
    BY <1>0, <1>2 DEF ListLock
  <1>3. CASE ListScan(s)
    <2>1. SizeOk(s)' /\ OwnOk(s)'
      BY <1>0, <1>3 DEF ListScan, Return
    <2>2. PlaceOk(s)'
      BY <1>0, <1>3 DEF ListScan, Return, AtEnd, Advance
    <2> QED  BY <2>1, <2>2
  <1>4. CASE ListClear(s)
    <2>1. SizeOk(s)' /\ OwnOk(s)'
      BY <1>0, <1>4 DEF ListClear
    <2>2. PlaceOk(s)'
      BY <1>0, <1>4 DEF ListClear, Advance
    <2> QED  BY <2>1, <2>2
  <1>5. CASE Kill(s)
    BY <1>0, <1>5 DEF Kill, Type
  <1>6. CASE KillLock(s) \/ KillRead(s)
    BY <1>0, <1>6 DEF KillLock, KillRead
  <1>7. CASE KillOpen(s)
    BY <1>0, <1>7 DEF KillOpen, Return
  <1>8. CASE KillWait(s)
    BY <1>0, <1>8 DEF KillWait, CloseProcess, Return
  <1>9. CASE Quit(s)
    BY <1>0, <1>9 DEF Quit
  <1> QED  BY <1>1, <1>2, <1>3, <1>4, <1>5, <1>6, <1>7, <1>8, <1>9

(* A chosen record: either chosen before, or found to name no active process. *)
LEMMA ChosenNow ==
  ASSUME IInv, NEW s \in Shell, ShellStep(s), pc'[s] \in {"add.write", "list.clear"},
         NEW p \in Pid, Recorded(p)
  PROVE  number[p] # pos'[s]
  <1> USE DEF IInv, TypeOK, Goto, At
  <1>1. number[p] \in 1 .. Len(file) /\ file[number[p]] = p
    BY DEF NumberNames
  <1>5. Opens(s, p) /\ Active(p)
    BY DEF Recorded, Active, Opens
  <1>2. CASE AddScan(s)
    <2>1. pos'[s] = pos[s] /\ (AtEnd(s) \/ ~IsActive(s, Record(s)))
      BY <1>2 DEF AddScan, Advance
    <2>3. pos[s] = number[p] => Record(s) = p
      BY <1>1 DEF Record
    <2>4. AtEnd(s) => pos[s] # number[p]
      <3>1. \A t \in Shell \ {s} : Exclusive(t) = {}
        BY <1>2 DEF AddScan, OneScanner, Exclusive, Scanning, Adding
      <3> QED  BY <1>1, <3>1 DEF AtEnd, MayRead
    <2> QED  BY <1>5, <2>1, <2>3, <2>4 DEF IsActive
  <1>3. CASE ListScan(s)
    <2>1. pos'[s] = pos[s] /\ IsStale(s, Record(s))
      BY <1>3 DEF ListScan, Return
    <2>2. pos[s] = number[p] => Record(s) = p
      BY <1>1 DEF Record
    <2> QED  BY <1>5, <2>1, <2>2 DEF IsStale
  <1>4. CASE ~AddScan(s) /\ ~ListScan(s)
    <2>1. CASE Jobbg(s) \/ JobbgOfNothing(s) \/ Jobs(s) \/ Kill(s) \/ Quit(s)
      BY <2>1 DEF Jobbg, JobbgOfNothing, Jobs, Kill, Type, Quit
    <2>2. CASE AddOpen(s) \/ AddFails(s) \/ AddLock(s) \/ AddWrite(s) \/ AddResume(s)
      BY <2>2 DEF AddOpen, AddFails, AddLock, AddWrite, AddResume, Return
    <2>3. CASE ListLock(s) \/ ListClear(s)
      BY <2>3 DEF ListLock, ListClear
    <2>4. CASE KillLock(s) \/ KillRead(s) \/ KillOpen(s) \/ KillWait(s)
      BY <2>4 DEF KillLock, KillRead, KillOpen, KillWait, Return
    <2> QED  BY <1>4, <2>1, <2>2, <2>3, <2>4 DEF ShellStep, Proceed
  <1> QED  BY <1>2, <1>3, <1>4

LEMMA ShellStepKeeps ==
  ASSUME IInv, NEW s \in Shell, ShellStep(s)
  PROVE  IInv'
  <1>1. TypeOK'
    BY ShellStepType DEF IInv
  <1>2. /\ file' # << >> /\ Len(file') >= Len(file)
        /\ pc[s] \in {"add.write", "list.clear"} \/ file' = file
        /\ \A j \in 1 .. Len(file) : j # pos[s] => file'[j] = file[j]
    BY FileStep DEF IInv
  <1>3. \A t \in Shell \ {s} : /\ pc'[t] = pc[t] /\ size'[t] = size[t] /\ pos'[t] = pos[t]
                               /\ target'[t] = target[t] /\ using'[t] = using[t]
    BY OthersStay DEF IInv
  <1>4. ShellInv'
    <2>1. SizeOk(s)' /\ PlaceOk(s)' /\ OwnOk(s)'
      BY <1>1, <1>2, AddOk, OtherOk DEF IInv, ShellStep, Proceed
    <2>2. ASSUME NEW t \in Shell \ {s} PROVE SizeOk(t)' /\ PlaceOk(t)' /\ OwnOk(t)'
      <3>1. SizeOk(t) /\ PlaceOk(t) /\ OwnOk(t)
        BY DEF IInv, ShellInv
      <3>2. Len(file) \in Nat /\ Len(file') \in Nat
        BY <1>1 DEF IInv, TypeOK
      <3>3. pos[t] \in Nat
        BY DEF IInv, TypeOK
      <3> QED  BY <1>2, <1>3, <3>1, <3>2, <3>3 DEF SizeOk, PlaceOk, OwnOk, At
    <2> QED  BY <2>1, <2>2 DEF ShellInv
  <1>5. OneScanner'
    <2>1. \A t \in Shell \ {s} : pc'[s] \in Scanning => pc'[t] \notin Scanning
      BY <1>3, ScanStep DEF IInv
    <2>2. \A t, u \in Shell \ {s} : pc'[t] \in Scanning /\ pc'[u] \in Scanning => t = u
      BY <1>3 DEF IInv, OneScanner
    <2> QED  BY <2>1, <2>2 DEF OneScanner
  <1>6. ASSUME NEW p \in Pid, Recorded(p)'
        PROVE  \/ Recorded(p) /\ number'[p] = number[p]
               \/ AddWrite(s) /\ p \in using[s] /\ file' = Write(pos[s], target[s])
                              /\ number'[p] = pos[s]
    BY <1>6, RecordedStep DEF IInv
  <1>7. ChosenInv'
    <2> SUFFICES ASSUME NEW t \in Shell, pc'[t] \in {"add.write", "list.clear"},
                        NEW p \in Pid, Recorded(p)'
                 PROVE  number'[p] # pos'[t]
      BY DEF ChosenInv
    <2>1. pos'[t] >= 1 /\ pc'[t] \in Scanning
      BY <1>1, <1>4 DEF ShellInv, PlaceOk, Scanning, Adding, Listing, TypeOK
    <2>2. CASE AddWrite(s)
      <3>1. pc[s] \in Scanning /\ pc'[s] = "add.resume"
        BY <2>2 DEF AddWrite, Goto, At, IInv, TypeOK, Scanning, Adding
      <3>2. t # s
        BY <3>1
      <3> QED  BY <1>3, <2>1, <3>1, <3>2 DEF IInv, OneScanner
    <2>3. CASE ~AddWrite(s) /\ t = s
      BY <1>6, <2>1, <2>3, ChosenNow
    <2>4. CASE ~AddWrite(s) /\ t # s
      BY <1>3, <1>6, <2>1, <2>4 DEF IInv, ChosenInv
    <2> QED  BY <2>2, <2>3, <2>4
  <1>8. NumberNames'
    <2> SUFFICES ASSUME NEW p \in Pid, Recorded(p)'
                 PROVE  number'[p] \in DOMAIN file' /\ file'[number'[p]] = p
      BY DEF NumberNames
    <2>1. CASE Recorded(p) /\ number'[p] = number[p]
      <3>1. number[p] \in 1 .. Len(file) /\ file[number[p]] = p
        BY <2>1 DEF IInv, NumberNames, TypeOK
      <3>2. pc[s] \in {"add.write", "list.clear"} => number[p] # pos[s]
        BY <2>1 DEF IInv, ChosenInv
      <3>3. file'[number[p]] = p
        BY <1>2, <3>1, <3>2
      <3>4. number[p] \in 1 .. Len(file')
        BY <1>1, <1>2, <3>1 DEF IInv, TypeOK
      <3> QED  BY <1>1, <2>1, <3>3, <3>4 DEF TypeOK
    <2>2. CASE /\ AddWrite(s) /\ p \in using[s] /\ file' = Write(pos[s], target[s])
               /\ number'[p] = pos[s]
      <3>1. pc[s] = "add.write"
        BY <2>2 DEF AddWrite, At
      <3>2. pos[s] \in 1 .. Len(file) + 1 /\ using[s] \subseteq {target[s]}
        BY <3>1 DEF IInv, ShellInv, PlaceOk, OwnOk, Scanning, Adding
      <3>3. file \in Seq(Pid \cup {Free}) /\ target[s] \in Pid \cup {Free}
        BY DEF IInv, TypeOK
      <3>4. pos[s] \in 1 .. Len(file') /\ file'[pos[s]] = target[s]
        BY <2>2, <3>2, <3>3, WriteFacts
      <3> QED  BY <1>1, <2>2, <3>2, <3>4 DEF TypeOK
    <2> QED  BY <1>6, <2>1, <2>2
  <1>9. KillApart'
    BY KillApartStep DEF IInv
  <1> QED  BY <1>1, <1>2, <1>4, <1>5, <1>7, <1>8, <1>9 DEF IInv

LEMMA ProcessStepKeeps ==
  ASSUME IInv, NEW p \in Pid, Exit(p) \/ Start(p)
  PROVE  IInv'
  <1> USE DEF vars, store, processes, local
  <1>1. TypeOK'
    BY ProcessType DEF IInv
  <1>2. UNCHANGED <<file, pc, size, pos, target, using>>
    BY DEF Exit, Start
  <1>3. \A q \in Pid : Recorded(q)' => Recorded(q) /\ number'[q] = number[q]
    <2>1. CASE Exit(p)
      <3> DEFINE killed == [proc EXCEPT ![p] = "ended"]
      <3>1. killed \in [Pid -> States] /\ proc' = Reaped(killed, handles, using)
        BY <2>1 DEF Exit, IInv, TypeOK, States
      <3>2. \A q \in Pid : killed[q] \in ActiveStates => killed[q] = proc[q]
        BY DEF IInv, TypeOK, ActiveStates
      <3> HIDE DEF killed
      <3>3. \A q \in Pid : proc'[q] \in ActiveStates => proc'[q] = killed[q]
        BY <3>1, ReapedFacts
      <3>4. \A q \in Pid : proc'[q] \in ActiveStates => proc'[q] = proc[q]
        BY <3>2, <3>3
      <3>5. number' = number /\ refused' = refused
        BY <2>1 DEF Exit
      <3> QED  BY <3>4, <3>5 DEF Recorded, Active, ActiveStates
    <2>2. CASE Start(p)
      BY <2>2 DEF Start, IInv, TypeOK, Recorded, Active
    <2> QED  BY <2>1, <2>2
  <1>4. ShellInv' /\ OneScanner' /\ KillApart' /\ file' # << >>
    BY <1>2 DEF IInv, ShellInv, SizeOk, PlaceOk, OwnOk, At, OneScanner, KillApart, Region
  <1>5. ChosenInv'
    BY <1>2, <1>3 DEF IInv, ChosenInv
  <1>6. NumberNames'
    BY <1>2, <1>3 DEF IInv, NumberNames
  <1> QED  BY <1>1, <1>4, <1>5, <1>6 DEF IInv

LEMMA Inductive ==
  SeededSpec => []IInv
  <1>1. SeededInit => IInv
    <2> SUFFICES ASSUME Init, file # << >> PROVE IInv
      BY DEF SeededInit
    <2>1. TypeOK
      BY TypeInit
    <2>2. ShellInv /\ OneScanner /\ KillApart
      BY DEF Init, ShellInv, SizeOk, PlaceOk, OwnOk, OneScanner, KillApart, At, Scanning, Adding,
             Listing
    <2>3. ChosenInv /\ NumberNames
      BY DEF Init, ChosenInv, NumberNames, Recorded
    <2> QED  BY <2>1, <2>2, <2>3 DEF IInv
  <1>2. IInv /\ [Next]_vars => IInv'
    <2> SUFFICES ASSUME IInv, [Next]_vars PROVE IInv'
      OBVIOUS
    <2>1. CASE \E s \in Shell : ShellStep(s)
      BY <2>1, ShellStepKeeps
    <2>2. CASE \E p \in Pid : Exit(p) \/ Start(p)
      BY <2>2, ProcessStepKeeps
    <2>3. CASE UNCHANGED vars
      BY <2>3 DEF vars, store, processes, local, IInv, TypeOK, ShellInv, SizeOk, PlaceOk, OwnOk,
                  At, OneScanner, KillApart, Region, ChosenInv, NumberNames, Recorded, Active
    <2> QED  BY <2>1, <2>2, <2>3 DEF Next, ShellStep
  <1> QED  BY <1>1, <1>2, PTL DEF SeededSpec

(* Every variable of the shells, the job file and the processes keeps its type. *)
THEOREM JobTypeCorrect == SeededSpec => []TypeOK
  BY Inductive, PTL DEF IInv

(* At most one shell at a time looks for a record to change (GetJobNumber and *)
(* DisplayJobs), whatever sizes the shells have read before they lock.        *)
THEOREM JobOneScanner == SeededSpec => []OneScanner
  BY Inductive, PTL DEF IInv

(* The number that jobbg printed names the job as long as it is active, when *)
(* its record was written and no shell is denied access to it; the write is  *)
(* refused only past the size that was read, by a kill of the same number.   *)
THEOREM JobNumbersStable == SeededSpec => []JobKeepsItsNumber
  <1>1. IInv => JobKeepsItsNumber
    BY Refused DEF IInv, JobKeepsItsNumber
  <1> QED  BY <1>1, Inductive, PTL
=============================================================================
