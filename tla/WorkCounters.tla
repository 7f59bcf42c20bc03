---------------------------- MODULE WorkCounters ----------------------------
(***************************************************************************)
(* The worker threads of run9/statsMX.cpp, which share a mutex, and those  *)
(* of run9/statsSRW_VTP.cpp, callbacks of a thread pool that lock a copy   *)
(* of the lock each. Every worker counts its own tasks; main adds up.      *)
(***************************************************************************)
EXTENDS Naturals, Folds

CONSTANTS
  MaxThread,  \* bound on nThread
  MaxTasks    \* bound on tasksPerThread

VARIABLES
  sharesMutex,  \* the program is statsMX
  nThread,
  tasksPerThread,
  lock,         \* the owner of each lock, of lock 0 when it is shared
  worker,       \* where each worker is
  tasksComplete,
  totalTasksComplete,
  ending        \* the workers that main has waited for

wkVars == <<sharesMutex, nThread, tasksPerThread, lock, worker, tasksComplete,
            totalTasksComplete, ending>>

Workers == 0 .. nThread - 1
None == MaxThread
LockOf(w) == IF sharesMutex THEN 0 ELSE w

TypeOK ==
  /\ sharesMutex \in BOOLEAN
  /\ nThread \in 1 .. MaxThread /\ tasksPerThread \in 0 .. MaxTasks
  /\ lock \in [Workers -> Workers \cup {None}]
  /\ worker \in [Workers -> {"unborn", "test", "wait", "count", "stored", "ended"}]
  /\ tasksComplete \in [Workers -> 0 .. MaxTasks]
  /\ totalTasksComplete \in 0 .. MaxThread * MaxTasks
  /\ ending \in 0 .. nThread + 1

(* statsMX 55 to 60; statsSRW_VTP 39 to 46. *)
Init ==
  /\ sharesMutex \in BOOLEAN
  /\ nThread \in 1 .. MaxThread /\ tasksPerThread \in 0 .. MaxTasks
  /\ lock = [w \in Workers |-> None]
  /\ worker = [w \in Workers |-> "unborn"]
  /\ tasksComplete = [w \in Workers |-> 0]
  /\ totalTasksComplete = 0
  /\ ending = 0

Goto(w, at) == worker' = [worker EXCEPT ![w] = at]

(* statsMX 62 to 71; statsSRW_VTP 47 to 55. *)
Begin(w) ==
  /\ worker[w] = "unborn" /\ \A v \in 0 .. w - 1 : worker[v] # "unborn"
  /\ Goto(w, "test")
  /\ UNCHANGED <<sharesMutex, nThread, tasksPerThread, lock, tasksComplete,
                 totalTasksComplete, ending>>

(* statsMX 101 and 102; statsSRW_VTP 81 and 82. *)
Test(w) ==
  /\ worker[w] = "test"
  /\ Goto(w, IF tasksComplete[w] < tasksPerThread THEN "wait" ELSE "ended")
  /\ UNCHANGED <<sharesMutex, nThread, tasksPerThread, lock, tasksComplete,
                 totalTasksComplete, ending>>

(* statsMX 103; statsSRW_VTP 83. *)
Acquire(w) ==
  /\ worker[w] = "wait"
  /\ lock[LockOf(w)] = None
  /\ lock' = [lock EXCEPT ![LockOf(w)] = w]
  /\ Goto(w, "count")
  /\ UNCHANGED <<sharesMutex, nThread, tasksPerThread, tasksComplete, totalTasksComplete, ending>>

(* statsMX 104; statsSRW_VTP 84. *)
Count(w) ==
  /\ worker[w] = "count"
  /\ tasksComplete' = [tasksComplete EXCEPT ![w] = @ + 1]
  /\ Goto(w, "stored")
  /\ UNCHANGED <<sharesMutex, nThread, tasksPerThread, lock, totalTasksComplete, ending>>

(* A bug of that kind: the lock is kept after the last task. *)
ReleaseBetween(w) ==
  /\ worker[w] = "stored"
  /\ lock' = IF tasksComplete[w] = tasksPerThread THEN lock ELSE [lock EXCEPT ![LockOf(w)] = None]
  /\ Goto(w, "test")
  /\ UNCHANGED <<sharesMutex, nThread, tasksPerThread, tasksComplete, totalTasksComplete, ending>>

(* statsMX 105; statsSRW_VTP 85. *)
Release(w) ==
  /\ worker[w] = "stored"
  /\ lock' = [lock EXCEPT ![LockOf(w)] = None]
  /\ Goto(w, "test")
  /\ UNCHANGED <<sharesMutex, nThread, tasksPerThread, tasksComplete, totalTasksComplete, ending>>

Worker(w) == Begin(w) \/ Test(w) \/ Acquire(w) \/ Count(w) \/ Release(w)

(* A bug of that kind: main waits for the first worker only. *)
AwaitFirst ==
  /\ ending < nThread
  /\ ending = 0 => worker[0] = "ended"
  /\ \A w \in Workers : worker[w] # "unborn"
  /\ ending' = ending + 1
  /\ UNCHANGED <<sharesMutex, nThread, tasksPerThread, lock, worker, tasksComplete,
                 totalTasksComplete>>

(* statsMX 73 and 74; statsSRW_VTP 57 to 60. *)
Await ==
  /\ ending < nThread
  /\ worker[ending] = "ended"
  /\ \A w \in Workers : worker[w] # "unborn"
  /\ ending' = ending + 1
  /\ UNCHANGED <<sharesMutex, nThread, tasksPerThread, lock, worker, tasksComplete,
                 totalTasksComplete>>

(* statsMX 76 to 91; statsSRW_VTP 61 to 75. *)
AddUp ==
  /\ ending = nThread
  /\ totalTasksComplete' = MapThenFoldSet(+, 0, LAMBDA w : tasksComplete[w],
                                          LAMBDA S : CHOOSE w \in S : TRUE, Workers)
  /\ ending' = nThread + 1
  /\ UNCHANGED <<sharesMutex, nThread, tasksPerThread, lock, worker, tasksComplete>>

Next == (\E w \in Workers : Worker(w)) \/ Await \/ AddUp

Spec == Init /\ [][Next]_wkVars /\ WF_wkVars(Next)

-----------------------------------------------------------------------------
(* The total that main prints is of all tasks, and no worker adds to its   *)
(* count after main has read it.                                           *)
TotalRight ==
  ending > nThread =>
    /\ totalTasksComplete = nThread * tasksPerThread
    /\ \A w \in Workers : worker[w] = "ended"

WorkEnds == <>(ending > nThread)
=============================================================================
