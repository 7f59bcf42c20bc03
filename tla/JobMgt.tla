------------------------------ MODULE JobMgt ------------------------------
(***************************************************************************)
(* The job shells of one user (run6/JobShell.cpp) and the job file they    *)
(* share (run6/JobMgt.cpp). A record of the file holds the process id of a *)
(* job, its place is the job's number; 0 marks a free record. A shell      *)
(* locks the file up to the size it read before, so what it locks may be   *)
(* less than the file when the lock is granted, and nothing when the file  *)
(* was empty. Locks are mandatory: the system refuses to read or write a   *)
(* record that another handle has locked.                                  *)
(*                                                                         *)
(* The command line in a record is written with its id and left out here.  *)
(* The handles that GetJobNumber and DisplayJobs open and never close keep *)
(* the processes they name from vanishing until the shell ends.            *)
(***************************************************************************)
EXTENDS Integers, Sequences

CONSTANTS
  Shell,        \* the shells
  Pid,          \* process ids
  Protected,    \* <<shell, id>>: a process of this id that the shell may not open
  StartFiles,   \* what earlier sessions may have left in the file
  MaxCommands   \* bound: commands typed in all shells together

ASSUME PidAssumption == Pid \subseteq Nat \ {0}
ASSUME ProtectedAssumption == Protected \subseteq Shell \X Pid
ASSUME FilesAssumption == StartFiles \subseteq Seq(Pid \cup {0})
ASSUME CommandsAssumption == MaxCommands \in Nat

VARIABLES
  file,      \* the records
  exists,    \* the file has been created
  proc,      \* state of the process object of each id
  number,    \* history: number that jobbg printed for the id's process, or 0
  refused,   \* history: ids of the processes whose record was not written
  handles,   \* process handles that a shell never closes
  using,     \* process handle of the command a shell executes
  pc,        \* where each shell is
  size,      \* fileSizeLow of the command, in records
  pos,       \* file pointer of the command, or the argument of kill
  target,    \* id to record, or to kill
  issued     \* commands typed so far

store == <<file, exists>>
processes == <<proc, number, refused, handles, using>>
local == <<size, pos, target>>
vars == <<store, processes, pc, local, issued>>

Free == 0

Adding == {"add.scan", "add.write"}
Listing == {"list.scan", "list.clear"}
Scanning == Adding \cup Listing
Commands == Scanning \cup {"add.open", "add.lock", "add.resume", "list.lock",
                           "kill.lock", "kill.read", "kill.open", "kill.wait"}

TypeOK ==
  /\ file \in Seq(Pid \cup {Free})
  /\ exists \in BOOLEAN
  /\ proc \in [Pid -> {"none", "suspended", "job", "other", "ended"}]
  /\ number \in [Pid -> Nat]
  /\ refused \subseteq Pid
  /\ handles \in [Shell -> SUBSET Pid]
  /\ using \in [Shell -> SUBSET Pid]
  /\ pc \in [Shell -> Commands \cup {"prompt", "gone"}]
  /\ size \in [Shell -> Nat]
  /\ pos \in [Shell -> Nat]
  /\ target \in [Shell -> Pid \cup {Free}]
  /\ issued \in 0 .. MaxCommands

Init ==
  /\ file \in StartFiles
  /\ exists \in BOOLEAN
  /\ exists \/ file = << >>
  /\ proc = [p \in Pid |-> "none"]
  /\ number = [p \in Pid |-> 0]
  /\ refused = {}
  /\ handles = [s \in Shell |-> {}]
  /\ using = [s \in Shell |-> {}]
  /\ pc = [s \in Shell |-> "prompt"]
  /\ size = [s \in Shell |-> 0]
  /\ pos = [s \in Shell |-> 0]
  /\ target = [s \in Shell |-> Free]
  /\ issued = 0

At(s, l) == pc[s] = l
Goto(s, l) == pc' = [pc EXCEPT ![s] = l]

(* The command ends, and with it the variables of its functions. *)
Return(s) ==
  /\ Goto(s, "prompt")
  /\ size' = [size EXCEPT ![s] = 0]
  /\ pos' = [pos EXCEPT ![s] = 0]
  /\ target' = [target EXCEPT ![s] = Free]

-----------------------------------------------------------------------------
(* Processes *)

Active(p) == proc[p] \in {"suspended", "job", "other"}

(* OpenProcess succeeds: there is a process of id p, and it is not one that  *)
(* the shell is denied access to, of another user or with higher privileges. *)
Opens(s, p) == p \in {q \in Pid : proc[q] # "none" /\ <<s, q>> \notin Protected}

(* What a record tells shell s: of an active process, or of one that it *)
(* cannot open and takes to have vanished.                              *)
IsActive(s, p) == Opens(s, p) /\ Active(p)
IsStale(s, p) == p # Free /\ ~Opens(s, p)

(* An ended process vanishes with the last handle to it. *)
Reaped(state, kept, used) ==
  [p \in Pid |-> IF state[p] = "ended" /\ \A s \in Shell : p \notin kept[s] \cup used[s]
                   THEN "none" ELSE state[p]]

(* The command of s closes its process handle, and processes become state. *)
CloseProcess(s, state) ==
  /\ using' = [using EXCEPT ![s] = {}]
  /\ proc' = Reaped(state, handles, using')

-----------------------------------------------------------------------------
(* Region locks of the job file *)

(* A lock of no length. *)
NoRegion(s) == {}

(* What the exclusive lock of GetJobNumber and DisplayJobs covers. *)
Region(s) == 1 .. size[s]

(* Records locked by shell s, exclusively or, in FindProcessId, shared. *)
Exclusive(s) == IF pc[s] \in Scanning THEN Region(s) ELSE {}
Locked(s) == IF At(s, "kill.read") THEN {pos[s]} \ {0} ELSE Exclusive(s)

MayRead(s, i) == \A t \in Shell \ {s} : i \notin Exclusive(t)
MayWrite(s, i) == \A t \in Shell \ {s} : i \notin Locked(t)

(* LockFileEx returns: no other shell has a lock that overlaps. *)
GrantedRegion(s) == \A t \in Shell \ {s} : Region(s) \cap Locked(t) = {}

Record(s) == file[pos[s]]
Advance(s) == pos' = [pos EXCEPT ![s] = @ + 1]
AtEnd(s) == pos[s] > Len(file) \/ ~MayRead(s, pos[s])

Write(i, id) == IF i <= Len(file) THEN [file EXCEPT ![i] = id] ELSE Append(file, id)

(* GetFileSize: the size is read before the lock is asked for. *)
ReadSize(s) == size' = [size EXCEPT ![s] = Len(file)]

-----------------------------------------------------------------------------
(* jobbg: Jobbg and GetJobNumber *)

Type(s) ==
  /\ At(s, "prompt")
  /\ issued < MaxCommands
  /\ issued' = issued + 1

(* CreateProcess with CREATE_SUSPENDED. A shell may open what it created. *)
Jobbg(s) ==
  \E p \in Pid :
    /\ Type(s)
    /\ proc[p] = "none"
    /\ <<s, p>> \notin Protected
    /\ proc' = [proc EXCEPT ![p] = "suspended"]
    /\ number' = [number EXCEPT ![p] = 0]
    /\ refused' = refused \ {p}
    /\ using' = [using EXCEPT ![s] = {p}]
    /\ target' = [target EXCEPT ![s] = p]
    /\ Goto(s, "add.open")
    /\ UNCHANGED <<store, handles, size, pos>>

(* CreateProcess fails, which is not tested: processInfo, never initialized, *)
(* is used as if there were a process.                                       *)
JobbgOfNothing(s) ==
  \E p \in Pid \cup {Free} :
    /\ Type(s)
    /\ target' = [target EXCEPT ![s] = p]
    /\ Goto(s, "add.open")
    /\ UNCHANGED <<store, processes, size, pos>>

AddOpen(s) ==
  /\ At(s, "add.open")
  /\ exists' = TRUE
  /\ ReadSize(s)
  /\ Goto(s, "add.lock")
  /\ UNCHANGED <<file, processes, pos, target, issued>>

(* The file cannot be opened: GetJobNumber returns -1, Jobbg terminates the *)
(* process it made. The handle of its thread is not closed and keeps it.    *)
AddFails(s) ==
  /\ At(s, "add.open")
  /\ proc' = [p \in Pid |-> IF p \in using[s] THEN "ended" ELSE proc[p]]
  /\ handles' = [handles EXCEPT ![s] = @ \cup using[s]]
  /\ using' = [using EXCEPT ![s] = {}]
  /\ Return(s)
  /\ UNCHANGED <<store, number, refused, issued>>

AddLock(s) ==
  /\ At(s, "add.lock")
  /\ GrantedRegion(s)
  /\ pos' = [pos EXCEPT ![s] = 1]
  /\ Goto(s, "add.scan")
  /\ UNCHANGED <<store, processes, size, target, issued>>

(* The handle that OpenProcess returned for id p stays open. *)
Leak(s, p) == handles' = [handles EXCEPT ![s] = IF Opens(s, p) THEN @ \cup {p} ELSE @]

(* One record is read: the scan stops at the end, at a free record and at *)
(* one whose process has ended or cannot be opened.                       *)
AddScan(s) ==
  /\ At(s, "add.scan")
  /\ \/ AtEnd(s) /\ Goto(s, "add.write") /\ UNCHANGED <<pos, handles>>
     \/ /\ ~AtEnd(s)
        /\ Leak(s, Record(s))
        /\ \/ IsActive(s, Record(s)) /\ Advance(s) /\ UNCHANGED pc
           \/ ~IsActive(s, Record(s)) /\ Goto(s, "add.write") /\ UNCHANGED pos
  /\ UNCHANGED <<store, proc, number, refused, using, size, target, issued>>

(* The file pointer not put back over the record that was read. *)
AddWriteNext(s) ==
  /\ At(s, "add.write")
  /\ file' = Write(pos[s] + 1, target[s])
  /\ number' = [p \in Pid |-> IF p \in using[s] THEN pos[s] ELSE number[p]]
  /\ Goto(s, "add.resume")
  /\ UNCHANGED <<exists, proc, refused, handles, using, local, issued>>

(* The record is written where the scan stopped, unless some other handle  *)
(* has locked it, which is not tested: the number is returned and printed  *)
(* all the same. UnlockFileEx names another length than LockFileEx did and *)
(* fails; closing the file gives up the lock.                              *)
AddWrite(s) ==
  /\ At(s, "add.write")
  /\ \/ MayWrite(s, pos[s]) /\ file' = Write(pos[s], target[s]) /\ UNCHANGED refused
     \/ ~MayWrite(s, pos[s]) /\ refused' = refused \cup using[s] /\ UNCHANGED file
  /\ number' = [p \in Pid |-> IF p \in using[s] THEN pos[s] ELSE number[p]]
  /\ Goto(s, "add.resume")
  /\ UNCHANGED <<exists, proc, handles, using, local, issued>>

(* ResumeThread, which does nothing to a process killed meanwhile. *)
AddResume(s) ==
  /\ At(s, "add.resume")
  /\ CloseProcess(s, [p \in Pid |-> IF p \in using[s] /\ proc[p] = "suspended"
                                      THEN "job" ELSE proc[p]])
  /\ Return(s)
  /\ UNCHANGED <<store, number, refused, handles, issued>>

-----------------------------------------------------------------------------
(* jobs: DisplayJobs *)

Jobs(s) ==
  /\ Type(s)
  /\ \/ exists /\ ReadSize(s) /\ Goto(s, "list.lock")
     \/ ~exists /\ UNCHANGED <<size, pc>>
  /\ UNCHANGED <<store, processes, pos, target>>

ListLock(s) ==
  /\ At(s, "list.lock")
  /\ GrantedRegion(s)
  /\ pos' = [pos EXCEPT ![s] = 1]
  /\ Goto(s, "list.scan")
  /\ UNCHANGED <<store, processes, size, target, issued>>

(* The file pointer put back for each record, not for those that are written. *)
ListScanBack(s) ==
  /\ At(s, "list.scan")
  /\ \/ AtEnd(s) /\ Return(s) /\ UNCHANGED handles
     \/ /\ ~AtEnd(s)
        /\ Leak(s, Record(s))
        /\ UNCHANGED <<size, target>>
        /\ \/ ~IsStale(s, Record(s)) /\ UNCHANGED <<pos, pc>>
           \/ IsStale(s, Record(s)) /\ Goto(s, "list.clear") /\ UNCHANGED pos
  /\ UNCHANGED <<store, proc, number, refused, using, issued>>

(* One record is read and displayed; at the end the file is closed. *)
ListScan(s) ==
  /\ At(s, "list.scan")
  /\ \/ AtEnd(s) /\ Return(s) /\ UNCHANGED handles
     \/ /\ ~AtEnd(s)
        /\ Leak(s, Record(s))
        /\ UNCHANGED <<size, target>>
        /\ \/ ~IsStale(s, Record(s)) /\ Advance(s) /\ UNCHANGED pc
           \/ IsStale(s, Record(s)) /\ Goto(s, "list.clear") /\ UNCHANGED pos
  /\ UNCHANGED <<store, proc, number, refused, using, issued>>

(* The record of a process that was not opened is freed. A write that is     *)
(* refused leaves the file pointer, and the record is read again.            *)
ListClear(s) ==
  /\ At(s, "list.clear")
  /\ \/ MayWrite(s, pos[s]) /\ file' = Write(pos[s], Free) /\ Advance(s)
     \/ ~MayWrite(s, pos[s]) /\ UNCHANGED <<file, pos>>
  /\ Goto(s, "list.scan")
  /\ UNCHANGED <<exists, processes, size, target, issued>>

-----------------------------------------------------------------------------
(* kill: Kill and FindProcessId *)

(* An argument that is no number counts as 0. Without a file FindProcessId *)
(* returns 0, of which there is no process.                                *)
Kill(s) ==
  \E n \in 0 .. Len(file) + 1 :
    /\ Type(s)
    /\ pos' = [pos EXCEPT ![s] = n]
    /\ target' = [target EXCEPT ![s] = Free]
    /\ Goto(s, IF exists THEN "kill.lock" ELSE "kill.open")
    /\ UNCHANGED <<store, processes, size>>

KillLock(s) ==
  /\ At(s, "kill.lock")
  /\ \A t \in Shell \ {s} : pos[s] \notin Exclusive(t)
  /\ Goto(s, "kill.read")
  /\ UNCHANGED <<store, processes, local, issued>>

(* The record of job number n. Seeking before the file fails for number 0, *)
(* and the first record is read, though another place is locked. A read    *)
(* that finds nothing leaves jobRecord uninitialized.                      *)
KillRead(s) ==
  /\ At(s, "kill.read")
  /\ LET i == IF pos[s] = 0 THEN 1 ELSE pos[s] IN
     \E p \in Pid \cup {Free} :
       /\ i <= Len(file) /\ MayRead(s, i) => p = file[i]
       /\ target' = [target EXCEPT ![s] = p]
  /\ Goto(s, "kill.open")
  /\ UNCHANGED <<store, processes, size, pos, issued>>

(* hProcess used without a test. *)
KillOpenUntested(s) ==
  /\ At(s, "kill.open")
  /\ Goto(s, "kill.wait")
  /\ using' = [using EXCEPT ![s] = {target[s]}]
  /\ UNCHANGED <<store, proc, number, refused, handles, local, issued>>

(* OpenProcess. The process is terminated, or sent a control event. *)
KillOpen(s) ==
  /\ At(s, "kill.open")
  /\ \/ ~Opens(s, target[s]) /\ Return(s) /\ UNCHANGED <<proc, using>>
     \/ /\ Opens(s, target[s])
        /\ Goto(s, "kill.wait")
        /\ using' = [using EXCEPT ![s] = {target[s]}]
        /\ proc' \in {proc, [proc EXCEPT ![target[s]] = "ended"]}
        /\ UNCHANGED local
  /\ UNCHANGED <<store, number, refused, handles, issued>>

(* The process has ended or five seconds have passed. *)
KillWait(s) ==
  /\ At(s, "kill.wait")
  /\ CloseProcess(s, proc)
  /\ Return(s)
  /\ UNCHANGED <<store, number, refused, handles, issued>>

-----------------------------------------------------------------------------
(* The quit command; or the shell is terminated, wherever it is. *)
Quit(s) ==
  /\ ~At(s, "gone")
  /\ pc' = [pc EXCEPT ![s] = "gone"]
  /\ size' = [size EXCEPT ![s] = 0]
  /\ pos' = [pos EXCEPT ![s] = 0]
  /\ target' = [target EXCEPT ![s] = Free]
  /\ handles' = [handles EXCEPT ![s] = {}]
  /\ using' = [using EXCEPT ![s] = {}]
  /\ proc' = Reaped(proc, handles', using')
  /\ UNCHANGED <<store, number, refused, issued>>

(* A process that was resumed, or of another program, ends. *)
Exit(p) ==
  /\ proc[p] \in {"job", "other"}
  /\ proc' = Reaped([proc EXCEPT ![p] = "ended"], handles, using)
  /\ UNCHANGED <<store, number, refused, handles, using, pc, local, issued>>

(* The system gives the id of a vanished process to another program. *)
Start(p) ==
  /\ proc[p] = "none"
  /\ proc' = [proc EXCEPT ![p] = "other"]
  /\ number' = [number EXCEPT ![p] = 0]
  /\ refused' = refused \ {p}
  /\ UNCHANGED <<store, handles, using, pc, local, issued>>

(* What a shell does by itself until its command ends. *)
Proceed(s) ==
  \/ AddOpen(s) \/ AddFails(s) \/ AddLock(s) \/ AddScan(s) \/ AddWrite(s) \/ AddResume(s)
  \/ ListLock(s) \/ ListScan(s) \/ ListClear(s)
  \/ KillLock(s) \/ KillRead(s) \/ KillOpen(s) \/ KillWait(s)

Next ==
  \/ \E s \in Shell :
       \/ Jobbg(s) \/ JobbgOfNothing(s) \/ Jobs(s) \/ Kill(s) \/ Quit(s)
       \/ Proceed(s)
  \/ \E p \in Pid : Exit(p) \/ Start(p)

Spec == Init /\ [][Next]_vars

(* The file has records from an earlier session. *)
SeededInit == Init /\ file # << >>

SeededSpec == SeededInit /\ [][Next]_vars

(* Shells keep running, and a lock is granted to a shell that finds it free *)
(* again and again.                                                         *)
Fairness == \A s \in Shell : SF_vars(Proceed(s))

FairSeededSpec == SeededSpec /\ Fairness

-----------------------------------------------------------------------------
(* Properties *)

(* A job that every shell may open, with a record that was written. *)
Recorded(p) ==
  /\ Active(p) /\ number[p] # 0 /\ p \notin refused
  /\ \A s \in Shell : <<s, p>> \notin Protected

NumberNames == \A p \in Pid : Recorded(p) => number[p] \in DOMAIN file /\ file[number[p]] = p

RefusedPastSize ==
  \A s, t \in Shell : At(s, "add.write") /\ t # s /\ pos[s] \in Locked(t) =>
    At(t, "kill.read") /\ pos[t] = pos[s] /\ pos[s] > size[s]

(* The number that jobbg printed names the job as long as it is active,      *)
(* whatever the other shells add, list and kill (GetJobNumber, lines 51 to   *)
(* 62, DisplayJobs, lines 93 to 118): no other shell takes or frees its      *)
(* record, although the lock covers a size that may be stale. It takes a     *)
(* file that is not empty, a job that no shell is denied access to, and a    *)
(* record that was written. The write is refused in one case only: another   *)
(* shell is about to read the job of the same number, to kill it, and this   *)
(* number is past the size that jobbg read before it asked for the lock.     *)
JobKeepsItsNumber == NumberNames /\ RefusedPastSize

(* Only one shell at a time looks for a record to change: regions of *)
(* different sizes overlap (lines 46 to 47 and 95 to 96).            *)
OneScanner ==
  \A s, t \in Shell : pc[s] \in Scanning /\ pc[t] \in Scanning => s = t

(* Every command ends, whoever holds the locks (JobShell.cpp lines 56 to 81). *)
CommandsEnd == \A s \in Shell : pc[s] \in Commands ~> pc[s] \notin Commands

(* "jobs List all background jobs" (JobShell.cpp line 9): a job that runs *)
(* and was given a number is in the file (GetJobNumber, lines 46 to 62),  *)
(* whoever else registers or kills a job.                                 *)
ListsAllJobs ==
  \A p \in Pid : proc[p] = "job" /\ number[p] # 0 =>
    \E i \in DOMAIN file : file[i] = p
=============================================================================
