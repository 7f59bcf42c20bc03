--------------------------- MODULE MsgQueueProofs ---------------------------
(***************************************************************************)
(* Type correctness, mutual exclusion, truthful return codes, a queue that *)
(* is dead once destroyed and the implementation of BoundedQueue, for any  *)
(* number of threads, any number of slots and any set Joined.              *)
(*                                                                         *)
(* The argument: while the array is allocated the mutex handle is open, so *)
(* every critical section owns the mutex (GuardInv) and what a thread saw  *)
(* in its loop test still holds when it transfers (TransferInv). After     *)
(* QueueDestroy threads may run without the mutex, but nothing changes the *)
(* ring any more: a transfer through the freed array ends the process.     *)
(***************************************************************************)
EXTENDS MsgQueue, SequenceTheorems, TLAPS

(* The handles and the array follow the progress of QueueDestroy, and main *)
(* owns the mutex exactly while it frees.                                  *)
DestroyInv ==
  /\ allocated <=> mainPc \in {"joining", "freeing"}
  /\ guardOpen <=> mainPc # "done"
  /\ eventsOpen <=> allocated
  /\ guard = Main <=> mainPc = "freeing"

GuardInv == allocated => \A t \in Threads : pc[t] \in Critical => guard = t

(* A transfer starts from a loop test that still holds. *)
TransferInv ==
  \A t \in Threads : pc[t] = "transfer" => ~Blocked(t) /\ ~timedOut[t]

(* The slots from qFirst up to qLast, around the end of the array. *)
Occupied(k) ==
  IF qFirst <= qLast THEN qFirst <= k /\ k < qLast ELSE qFirst <= k \/ k < qLast

RingInv == \A k \in 0 .. QSize - 1 : Occupied(k) => buf[k] # None

(* A putter holds its message until the transfer, a getter nothing. *)
HandInv ==
  \A t \in Threads :
    /\ pc[t] \in {"idle", "exited"} => msg[t] = None /\ ~timedOut[t]
    /\ pc[t] \in InCall \ {"pulse"} =>
         IF t \in Getters THEN msg[t] = None ELSE msg[t] # None

IInv ==
  /\ TypeOK
  /\ DestroyInv /\ GuardInv /\ TransferInv
  /\ RingInv /\ HandInv /\ StatusTruthful /\ NoSuccessAfterDestroy

-----------------------------------------------------------------------------
(* Advancing an index of the ring. *)
LEMMA NextIndex ==
  ASSUME NEW i \in 0 .. QSize - 1
  PROVE  (i + 1) % QSize = IF i + 1 = QSize THEN 0 ELSE i + 1
  BY QSizeAssumption

LEMMA InitIInv == Init => IInv
  <1> SUFFICES ASSUME Init PROVE IInv
    OBVIOUS
  <1>1. TypeOK
    <2>1. buf \in [0 .. QSize - 1 -> Msgs \cup {None}] /\ 0 \in 0 .. QSize - 1
      BY QSizeAssumption DEF Init
    <2>2. timedOut \in [Threads -> BOOLEAN]
      BY Zenon DEF Init
    <2> QED
      BY <2>1, <2>2 DEF Init, TypeOK
  <1>2. DestroyInv
    BY ThreadAssumption DEF Init, DestroyInv
  <1>3. GuardInv /\ TransferInv /\ StatusTruthful
    BY DEF Init, GuardInv, TransferInv, StatusTruthful, Critical
  <1>4. RingInv
    BY DEF Init, RingInv, Occupied
  <1>5. HandInv /\ NoSuccessAfterDestroy
    BY DEF Init, HandInv, NoSuccessAfterDestroy, InCall
  <1> QED
    BY <1>1, <1>2, <1>3, <1>4, <1>5 DEF IInv

(* The steps of one thread in type terms. *)
LEMMA TypeThread ==
  ASSUME TypeOK, NEW t \in Threads,
         Call(t) \/ Acquire(t) \/ Step(t) \/ Crash(t) \/ Exit(t)
  PROVE  TypeOK'
  <1> USE DEF TypeOK, InCall, ring, handles, locals
  <1>1. CASE Call(t)
    <2>1. msg' \in [Threads -> Msgs \cup {None}]
      BY <1>1 DEF Call
    <2> QED
      BY <1>1, <2>1 DEF Call
  <1>2. CASE Acquire(t) \/ AcquireFails(t)
    <2>1. NewWaited(t) \in Nat /\ NewTimedOut(t) \in BOOLEAN
      BY DEF NewWaited, NewTimedOut, CVTimeout
    <2>2. guard' \in Threads \cup {Main, None}
      BY <1>2 DEF Acquire, AcquireFails
    <2>3. pc' \in [Threads -> InCall \cup {"idle", "exited"}]
      BY <1>2 DEF Acquire, AcquireFails, PassGuard
    <2>4. waited' \in [Threads -> Nat] /\ maxWait' = maxWait
      BY <1>2, <2>1 DEF Acquire, AcquireFails, PassGuard, CountRound
    <2>5. timedOut' \in [Threads -> BOOLEAN]
      BY <1>2, <2>1, Zenon DEF Acquire, AcquireFails, PassGuard, CountRound
    <2> QED
      BY <1>2, <2>2, <2>3, <2>4, <2>5 DEF Acquire, AcquireFails
  <1>3. CASE ReturnDestroyed(t) \/ PulseAndReturn(t)
    <2> Return(t)
      BY <1>3 DEF ReturnDestroyed, PulseAndReturn
    <2>1. /\ msg' \in [Threads -> Msgs \cup {None}]
          /\ maxWait' \in [Threads -> MaxWaits \cup {Infinite}]
          /\ waited' \in [Threads -> Nat]
      BY DEF Return
    <2>2. timedOut' \in [Threads -> BOOLEAN]
      BY Zenon DEF Return
    <2>3. pc' \in [Threads -> InCall \cup {"idle", "exited"}]
      BY <1>3 DEF ReturnDestroyed, PulseAndReturn
    <2> QED
      BY <1>3, <2>1, <2>2, <2>3 DEF ReturnDestroyed, PulseAndReturn, ReleaseMutex
  <1>4. CASE TestBlocked(t) \/ TestPasses(t) \/ BeginWait(t) \/ WaitTimesOut(t)
    BY <1>4 DEF TestBlocked, TestPasses, BeginWait, WaitTimesOut, ReleaseMutex
  <1>5. CASE Transfer(t)
    <2>1. CASE t \in Getters
      <3>1. qFirst' \in 0 .. QSize - 1
        BY <1>5, <2>1, NextIndex, QSizeAssumption DEF Transfer, QueueRemove
      <3>2. msg' \in [Threads -> Msgs \cup {None}]
        BY <1>5, <2>1 DEF Transfer, QueueRemove
      <3> QED
        BY <1>5, <2>1, <3>1, <3>2 DEF Transfer, QueueRemove
    <2>2. CASE t \notin Getters
      <3>1. qLast' \in 0 .. QSize - 1
        BY <1>5, <2>2, NextIndex, QSizeAssumption DEF Transfer, QueueInsert
      <3>2. /\ msg' \in [Threads -> Msgs \cup {None}]
            /\ buf' \in [0 .. QSize - 1 -> Msgs \cup {None}]
        BY <1>5, <2>2 DEF Transfer, QueueInsert
      <3> QED
        BY <1>5, <2>2, <3>1, <3>2 DEF Transfer, QueueInsert
    <2> QED
      BY <2>1, <2>2
  <1>6. CASE Crash(t) \/ Exit(t)
    BY <1>6 DEF Crash, Exit, ReleaseMutex
  <1> QED
    BY <1>1, <1>2, <1>3, <1>4, <1>5, <1>6 DEF Step

LEMMA TypeDestroy ==
  ASSUME TypeOK, DestroyLock \/ DestroyFree \/ DestroyClose
  PROVE  TypeOK'
  BY DEF TypeOK, DestroyLock, DestroyFree, DestroyClose, ring, handles, locals

LEMMA TypeNext == TypeOK /\ [Next]_vars => TypeOK'
  <1> SUFFICES ASSUME TypeOK, [Next]_vars PROVE TypeOK'
    OBVIOUS
  <1>1. CASE UNCHANGED vars
    BY <1>1 DEF TypeOK, vars, ring, handles, locals
  <1> QED
    BY <1>1, TypeThread, TypeDestroy DEF Next, Finished

(* The variables of every reachable state have their types, for any number *)
(* of threads and slots.                                                   *)
THEOREM TypeCorrect == Spec => []TypeOK
  <1>1. Init => TypeOK
    BY InitIInv DEF IInv
  <1> QED
    BY <1>1, TypeNext, PTL DEF Spec

-----------------------------------------------------------------------------
(* Steps that leave the ring alone leave the loop conditions alone. *)
LEMMA SameRing ==
  ASSUME ring' = ring
  PROVE  /\ \A u \in Threads : Blocked(u)' <=> Blocked(u)
         /\ RingInv => RingInv'
  BY DEF ring, Blocked, QueueEmpty, QueueFull, RingInv, Occupied

(* Steps of a thread that neither take nor give up the mutex nor touch the *)
(* ring: the call, the test that passes, the wait.                         *)
LEMMA QuietSteps ==
  ASSUME IInv, NEW t \in Threads,
         Call(t) \/ TestPasses(t) \/ BeginWait(t) \/ WaitTimesOut(t)
  PROVE  IInv'
  <1> USE DEF IInv
  <1>0. /\ UNCHANGED <<ring, guard, handles, mainPc, crashed, timedOut>>
        /\ \A u \in Threads \ {t} : pc'[u] = pc[u] /\ msg'[u] = msg[u]
    BY DEF Call, TestPasses, BeginWait, WaitTimesOut, TypeOK, locals
  <1>1. TypeOK'
    BY TypeThread DEF Step
  <1>2. DestroyInv'
    BY <1>0 DEF DestroyInv, ring, handles
  <1>3. GuardInv'
    <2>1. pc'[t] \in Critical => pc[t] \in Critical
      BY DEF Call, TestPasses, BeginWait, WaitTimesOut, TypeOK, AtTest, Critical
    <2> QED
      BY <1>0, <2>1 DEF GuardInv, ring
  <1>4. TransferInv'
    <2>1. pc'[t] = "transfer" => ~Blocked(t) /\ ~timedOut[t]
      BY DEF Call, TestPasses, BeginWait, WaitTimesOut, TypeOK
    <2> QED
      BY <1>0, <2>1, SameRing DEF TransferInv
  <1>5. RingInv'
    BY <1>0, SameRing
  <1>6. HandInv'
    <2>1. CASE Call(t)
      BY <2>1, <1>0, MsgAssumption, ThreadAssumption
      DEF HandInv, Call, TypeOK, InCall, Threads
    <2>2. CASE ~Call(t)
      <3>1. pc[t] \in InCall \ {"pulse"} /\ pc'[t] \in InCall /\ msg' = msg
        BY <2>2 DEF TestPasses, BeginWait, WaitTimesOut, TypeOK, InCall, AtTest
      <3> QED
        BY <1>0, <3>1 DEF HandInv, InCall
    <2> QED
      BY <2>1, <2>2
  <1>7. StatusTruthful' /\ NoSuccessAfterDestroy'
    <2>1. CASE pc'[t] = "pulse"
      <3>1. pc[t] \in {"loop", "entry"} /\ timedOut[t] /\ msg' = msg
        BY <2>1 DEF Call, TestPasses, BeginWait, WaitTimesOut, TypeOK, AtTest
      <3> QED
        BY <1>0, <3>1 DEF StatusTruthful, HandInv, InCall, NoSuccessAfterDestroy, ring
    <2>2. CASE pc'[t] # "pulse"
      BY <1>0, <2>2 DEF StatusTruthful, NoSuccessAfterDestroy, ring
    <2> QED
      BY <2>1, <2>2
  <1> QED
    BY <1>1, <1>2, <1>3, <1>4, <1>5, <1>6, <1>7

(* Taking the mutex, or going on without it once its handle is closed. *)
LEMMA LockSteps ==
  ASSUME IInv, NEW t \in Threads, Acquire(t) \/ AcquireFails(t)
  PROVE  IInv'
  <1> USE DEF IInv
  <1>0. /\ UNCHANGED <<ring, handles, msg, mainPc, crashed>>
        /\ \A u \in Threads \ {t} : pc'[u] = pc[u] /\ timedOut'[u] = timedOut[u]
        /\ pc[t] \in {"lock", "woken"} /\ pc'[t] \in {"entry", "loop"}
    BY DEF Acquire, AcquireFails, PassGuard, CountRound, TypeOK, locals
  <1>1. TypeOK'
    BY TypeThread DEF Step
  <1>2. DestroyInv' /\ GuardInv'
    <2>1. CASE Acquire(t)
      <3>1. guard \in {None, t} /\ guard' = t
        BY <2>1 DEF Acquire
      <3>2. DestroyInv'
        BY <1>0, <3>1, ThreadAssumption DEF DestroyInv, ring, handles
      <3>3. \A u \in Threads \ {t} : allocated => pc[u] \notin Critical
        BY <3>1, ThreadAssumption DEF GuardInv
      <3> QED
        BY <1>0, <3>1, <3>2, <3>3 DEF GuardInv, ring
    <2>2. CASE AcquireFails(t)
      <3>1. ~allocated /\ guard' = guard
        BY <2>2 DEF AcquireFails, DestroyInv
      <3> QED
        BY <1>0, <3>1 DEF DestroyInv, GuardInv, ring, handles
    <2> QED
      BY <2>1, <2>2
  <1>3. TransferInv' /\ RingInv'
    BY <1>0, SameRing DEF TransferInv
  <1>4. HandInv' /\ StatusTruthful'
    BY <1>0 DEF HandInv, StatusTruthful, InCall
  <1>5. NoSuccessAfterDestroy'
    BY <1>0 DEF NoSuccessAfterDestroy, ring
  <1> QED
    BY <1>1, <1>2, <1>3, <1>4, <1>5

(* Giving up the mutex, or keeping it over an early return. *)
LEMMA ReleaseSteps ==
  ASSUME IInv, NEW t \in Threads,
         TestBlocked(t) \/ ReturnDestroyed(t) \/ PulseAndReturn(t) \/ Exit(t)
  PROVE  IInv'
  <1> USE DEF IInv
  <1>0. /\ UNCHANGED <<ring, handles, mainPc, crashed>>
        /\ \A u \in Threads \ {t} :
             /\ pc'[u] = pc[u] \/ (pc[u] = "waiting" /\ pc'[u] = "woken")
             /\ timedOut'[u] = timedOut[u] /\ msg'[u] = msg[u]
        /\ pc[t] # "exited" /\ pc'[t] \in {"unlocked", "idle", "exited"}
        /\ guard' = guard \/ (guard = t /\ guard' = None)
    <2>1. CASE PulseAndReturn(t)
      BY <2>1 DEF PulseAndReturn, Return, ReleaseMutex, Waiters, TypeOK, Threads
    <2>2. CASE ~PulseAndReturn(t)
      BY <2>2 DEF TestBlocked, ReturnDestroyed, Return, Exit, ReleaseMutex, AtTest,
                  TypeOK, locals
    <2> QED
      BY <2>1, <2>2
  <1>1. TypeOK'
    BY TypeThread DEF Step
  <1>2. DestroyInv'
    BY <1>0, ThreadAssumption DEF DestroyInv, ring, handles
  <1>3. GuardInv'
    BY <1>0 DEF GuardInv, ring, Critical
  <1>4. TransferInv' /\ RingInv'
    BY <1>0, SameRing DEF TransferInv
  <1>5. HandInv' /\ StatusTruthful'
    <2>1. CASE TestBlocked(t)
      <3>1. /\ pc[t] \in InCall \ {"pulse"} /\ pc'[t] = "unlocked"
            /\ msg' = msg /\ timedOut' = timedOut
        BY <2>1 DEF TestBlocked, AtTest, TypeOK, InCall, locals
      <3> QED
        BY <1>0, <3>1 DEF HandInv, StatusTruthful, InCall
    <2>2. CASE ~TestBlocked(t)
      <3>1. pc'[t] \in {"idle", "exited"} /\ msg'[t] = None /\ ~timedOut'[t]
        BY <2>2 DEF ReturnDestroyed, PulseAndReturn, Exit, Return, HandInv, TypeOK,
                    locals
      <3> QED
        BY <1>0, <3>1 DEF HandInv, StatusTruthful, InCall
    <2> QED
      BY <2>1, <2>2
  <1>6. NoSuccessAfterDestroy'
    BY <1>0 DEF NoSuccessAfterDestroy, ring
  <1> QED
    BY <1>1, <1>2, <1>3, <1>4, <1>5, <1>6

(* What the loop test saw still holds, so the copy is never refused and    *)
(* never touches a freed array.                                            *)
LEMMA TransferStep ==
  ASSUME IInv, NEW t \in Threads, Transfer(t)
  PROVE  IInv'
  <1> USE DEF IInv
  <1>0. /\ UNCHANGED <<allocated, guard, handles, mainPc, crashed, timedOut>>
        /\ pc' = [pc EXCEPT ![t] = "pulse"] /\ pc[t] = "transfer"
        /\ allocated /\ ~Blocked(t) /\ ~timedOut[t]
    BY DEF Transfer, TransferInv, locals
  <1>1. TypeOK'
    BY TypeThread DEF Step
  <1>2. \A u \in Threads \ {t} :
          pc[u] \notin Critical /\ pc'[u] = pc[u] /\ msg'[u] = msg[u]
    <2>1. \A u \in Threads \ {t} : pc[u] \notin Critical
      BY <1>0, t \in Threads DEF GuardInv, Critical
    <2>2. \A u \in Threads \ {t} : msg'[u] = msg[u]
      BY DEF Transfer, QueueRemove, QueueInsert, TypeOK
    <2> QED
      BY <1>0, <2>1, <2>2 DEF TypeOK
  <1>3. DestroyInv'
    BY <1>0 DEF DestroyInv, handles
  <1>4. GuardInv' /\ TransferInv'
    BY <1>0, <1>2 DEF GuardInv, TransferInv, Critical, TypeOK
  <1>5. RingInv' /\ (msg'[t] = None <=> t \notin Getters)
    <2>1. CASE t \in Getters
      <3>1. /\ qFirst # qLast /\ UNCHANGED <<buf, qLast>>
            /\ qFirst' = (qFirst + 1) % QSize /\ msg'[t] = buf[qFirst]
        BY <1>0, <2>1 DEF Transfer, Blocked, QueueEmpty, QueueRemove, TypeOK
      <3>2. qFirst' = IF qFirst + 1 = QSize THEN 0 ELSE qFirst + 1
        BY <3>1, NextIndex DEF TypeOK
      <3>3. Occupied(qFirst) /\ buf[qFirst] # None
        BY <3>1 DEF RingInv, Occupied, TypeOK
      <3>4. \A k \in 0 .. QSize - 1 : Occupied(k)' => Occupied(k)
        BY <3>1, <3>2, QSizeAssumption DEF Occupied, TypeOK
      <3> QED
        BY <2>1, <3>1, <3>3, <3>4 DEF RingInv
    <2>2. CASE t \notin Getters
      <3>1. /\ ~QueueFull /\ UNCHANGED qFirst
            /\ qLast' = (qLast + 1) % QSize
            /\ buf' = [buf EXCEPT ![qLast] = msg[t]] /\ msg'[t] = None
        BY <1>0, <2>2 DEF Transfer, Blocked, QueueInsert, TypeOK
      <3>2. qLast' = IF qLast + 1 = QSize THEN 0 ELSE qLast + 1
        BY <3>1, NextIndex DEF TypeOK
      <3>3. msg[t] # None
        BY <1>0, <2>2 DEF HandInv, InCall
      <3>4. \A k \in 0 .. QSize - 1 : Occupied(k)' => Occupied(k) \/ k = qLast
        BY <3>1, <3>2, QSizeAssumption DEF Occupied, QueueFull, TypeOK
      <3> QED
        BY <2>2, <3>1, <3>3, <3>4 DEF RingInv, TypeOK
    <2> QED
      BY <2>1, <2>2
  <1>6. HandInv' /\ StatusTruthful'
    BY <1>0, <1>2, <1>5 DEF HandInv, StatusTruthful, InCall, TypeOK
  <1>7. NoSuccessAfterDestroy'
    BY <1>0 DEF NoSuccessAfterDestroy
  <1> QED
    BY <1>1, <1>3, <1>4, <1>5, <1>6, <1>7

(* A copy through the freed array ends the process and changes no more. *)
LEMMA CrashStep ==
  ASSUME IInv, NEW t \in Threads, Crash(t)
  PROVE  IInv'
  <1> USE DEF IInv
  <1>0. UNCHANGED <<ring, guard, handles, pc, msg, locals, mainPc>>
    BY DEF Crash
  <1>1. TypeOK'
    BY TypeThread
  <1>2. DestroyInv' /\ GuardInv' /\ HandInv' /\ StatusTruthful'
    BY <1>0 DEF DestroyInv, GuardInv, HandInv, StatusTruthful, ring, handles, locals
  <1>3. TransferInv' /\ RingInv'
    BY <1>0, SameRing DEF TransferInv, locals
  <1>4. NoSuccessAfterDestroy'
    BY <1>0 DEF NoSuccessAfterDestroy, ring, locals
  <1> QED
    BY <1>1, <1>2, <1>3, <1>4

(* Main takes the mutex, frees under it and closes its handle. *)
LEMMA DestroySteps ==
  ASSUME IInv, DestroyLock \/ DestroyFree \/ DestroyClose
  PROVE  IInv'
  <1> USE DEF IInv
  <1>0. UNCHANGED <<buf, qFirst, qLast, pc, msg, locals, crashed>>
    BY DEF DestroyLock, DestroyFree, DestroyClose, ring
  <1>1. TypeOK'
    BY TypeDestroy
  <1>2. DestroyInv' /\ GuardInv'
    BY ThreadAssumption, <1>0 DEF DestroyLock, DestroyFree, DestroyClose, DestroyInv,
       GuardInv, ring, handles
  <1>3. TransferInv' /\ RingInv'
    BY <1>0 DEF TransferInv, RingInv, Occupied, Blocked, QueueEmpty, QueueFull, locals
  <1>4. HandInv' /\ StatusTruthful'
    BY <1>0 DEF HandInv, StatusTruthful, locals
  <1>5. NoSuccessAfterDestroy'
    <2>1. CASE DestroyFree
      BY <1>0, <2>1, ThreadAssumption
      DEF DestroyFree, DestroyInv, GuardInv, Critical, NoSuccessAfterDestroy
    <2>2. CASE DestroyLock \/ DestroyClose
      BY <1>0, <2>2 DEF DestroyLock, DestroyClose, NoSuccessAfterDestroy, ring, locals
    <2> QED
      BY <2>1, <2>2
  <1> QED
    BY <1>1, <1>2, <1>3, <1>4, <1>5

LEMMA InductiveStep == IInv /\ [Next]_vars => IInv'
  <1> SUFFICES ASSUME IInv, [Next]_vars PROVE IInv'
    OBVIOUS
  <1>1. CASE UNCHANGED vars
    BY <1>1 DEF IInv, TypeOK, DestroyInv, GuardInv, TransferInv, RingInv, HandInv,
       StatusTruthful, NoSuccessAfterDestroy, Occupied, Blocked, QueueEmpty,
       QueueFull, vars, ring, handles, locals
  <1> QED
    BY <1>1, QuietSteps, LockSteps, ReleaseSteps, TransferStep, CrashStep, DestroySteps
    DEF Next, Step, Finished

LEMMA Inductive == Spec => []IInv
  BY InitIInv, InductiveStep, PTL DEF Spec

-----------------------------------------------------------------------------
(* Return codes tell the truth: 0 if and only if one message moved, for    *)
(* any number of threads and slots, whoever main waits for.                *)
THEOREM StatusIsTruthful == Spec => []StatusTruthful
  <1>1. IInv => StatusTruthful
    BY DEF IInv
  <1> QED
    BY <1>1, Inductive, PTL

(* At most one thread is in a critical section while the ring exists.      *)
THEOREM QueueMutualExclusion == Spec => []MutualExclusion
  <1>1. IInv => MutualExclusion
    BY ThreadAssumption DEF IInv, GuardInv, DestroyInv, MutualExclusion
  <1> QED
    BY <1>1, Inductive, PTL

(* A freed queue hands out nothing and takes nothing: no call that is still *)
(* inside when main destroys the queue, or that comes later, returns 0.    *)
THEOREM DestroyedQueueIsDead == Spec => []NoSuccessAfterDestroy
  <1>1. IInv => NoSuccessAfterDestroy
    BY DEF IInv
  <1> QED
    BY <1>1, Inductive, PTL

-----------------------------------------------------------------------------
(* MsgQueue implements BoundedQueue: the ring with its indexes, mutex and  *)
(* pulsed events is a first-in first-out buffer of QSize - 1 messages. A   *)
(* transfer is the Put or the Get, a call of QueuePut the Offer, a return  *)
(* the LetGo, the freeing of the array the Destroy; every other step of    *)
(* the code is invisible.                                                  *)

Held == Msgs \cup {None}
Index == 0 .. QSize - 1

(* The ring read as a sequence. *)
LEMMA RingType ==
  ASSUME NEW b \in [Index -> Held], NEW f \in Index, NEW l \in Index
  PROVE  /\ Count(f, l) \in 0 .. QSize - 1
         /\ \A i \in 1 .. Count(f, l) : Slot(f + i - 1) \in Index
         /\ Ring(b, f, l) \in Seq(Held) /\ Len(Ring(b, f, l)) = Count(f, l)
         /\ \A i \in 1 .. Count(f, l) : Ring(b, f, l)[i] = b[Slot(f + i - 1)]
  <1>1. Count(f, l) \in 0 .. QSize - 1
    BY QSizeAssumption DEF Count, Index
  <1>2. \A i \in 1 .. Count(f, l) : Slot(f + i - 1) \in Index
    BY <1>1, QSizeAssumption DEF Count, Slot, Index
  <1>3. Ring(b, f, l) \in [1 .. Count(f, l) -> Held]
    BY <1>2 DEF Ring
  <1>4. Ring(b, f, l) \in Seq(Held)
    BY <1>1, <1>3, SeqDef
  <1>5. Len(Ring(b, f, l)) = Count(f, l)
    BY <1>1, <1>3, <1>4, LenProperties
  <1> QED
    BY <1>1, <1>2, <1>4, <1>5 DEF Ring

(* Removing at the first index takes the head of the sequence. *)
LEMMA RemoveIsTail ==
  ASSUME NEW b \in [Index -> Held], NEW f \in Index, NEW l \in Index, f # l
  PROVE  LET g == (f + 1) % QSize IN
         /\ Ring(b, f, l) # <<>>
         /\ Head(Ring(b, f, l)) = b[f]
         /\ Ring(b, g, l) = Tail(Ring(b, f, l))
  <1> DEFINE g == (f + 1) % QSize
             s == Ring(b, f, l)
             r == Ring(b, g, l)
  <1>1. g \in Index /\ g = IF f + 1 = QSize THEN 0 ELSE f + 1
    BY NextIndex, QSizeAssumption DEF Index
  <1> HIDE DEF g
  <1>2. Count(f, l) >= 1 /\ Count(g, l) = Count(f, l) - 1
    BY <1>1, QSizeAssumption DEF Count, Index
  <1>3. s \in Seq(Held) /\ Len(s) = Count(f, l)
    BY RingType
  <1>4. r \in Seq(Held) /\ Len(r) = Count(g, l)
    BY <1>1, RingType
  <1>5. s # <<>> /\ Head(s) = s[1]
    BY <1>2, <1>3, EmptySeq
  <1>6. s[1] = b[f]
    <2>1. Slot(f + 1 - 1) = f /\ 1 \in 1 .. Count(f, l)
      BY <1>2, RingType, QSizeAssumption DEF Slot, Index
    <2> QED
      BY <2>1, RingType
  <1>7. \A i \in 1 .. Count(g, l) : r[i] = s[i + 1]
    <2> SUFFICES ASSUME NEW i \in 1 .. Count(g, l) PROVE r[i] = s[i + 1]
      OBVIOUS
    <2>1. Count(g, l) \in Nat /\ Count(f, l) \in Nat
      BY <1>1, RingType
    <2>2. Slot(g + i - 1) = Slot(f + (i + 1) - 1) /\ i + 1 \in 1 .. Count(f, l)
      BY <1>1, <1>2, <2>1, QSizeAssumption DEF Slot, Count, Index
    <2>3. r[i] = b[Slot(g + i - 1)]
      BY <1>1, RingType
    <2>4. s[i + 1] = b[Slot(f + (i + 1) - 1)]
      BY <2>2, RingType
    <2> QED
      BY <2>2, <2>3, <2>4
  <1>8. r = Tail(s)
    <2>1. /\ Tail(s) \in Seq(Held) /\ Len(Tail(s)) = Len(s) - 1
          /\ \A i \in 1 .. Len(Tail(s)) : Tail(s)[i] = s[i + 1]
      BY <1>3, <1>5, HeadTailProperties
    <2> HIDE DEF r, s
    <2> QED
      BY <1>2, <1>3, <1>4, <1>7, <2>1, SeqEqual
  <1> QED
    BY <1>5, <1>6, <1>8 DEF g

(* Inserting at the last index appends. *)
LEMMA InsertIsAppend ==
  ASSUME NEW b \in [Index -> Held], NEW f \in Index, NEW l \in Index,
         NEW m \in Held, ~(f - l = 1 \/ (l = QSize - 1 /\ f = 0))
  PROVE  /\ Len(Ring(b, f, l)) < QSize - 1
         /\ Ring([b EXCEPT ![l] = m], f, (l + 1) % QSize) = Append(Ring(b, f, l), m)
  <1> DEFINE k == (l + 1) % QSize
             c == [b EXCEPT ![l] = m]
             s == Ring(b, f, l)
             r == Ring(c, f, k)
             n == Count(f, l)
  <1>1. k \in Index /\ k = IF l + 1 = QSize THEN 0 ELSE l + 1
    BY NextIndex, QSizeAssumption DEF Index
  <1>2. c \in [Index -> Held]
    OBVIOUS
  <1> HIDE DEF k
  <1>3. n \in Nat /\ n < QSize - 1 /\ Count(f, k) = n + 1
    BY <1>1, QSizeAssumption DEF Count, Index
  <1>4. s \in Seq(Held) /\ Len(s) = n
    BY RingType
  <1>5. r \in Seq(Held) /\ Len(r) = n + 1
    <2> HIDE DEF c
    <2> QED
      BY <1>1, <1>2, <1>3, RingType
  <1>6. \A i \in 1 .. n + 1 : r[i] = c[Slot(f + i - 1)]
    <2>1. \A i \in 1 .. Count(f, k) : r[i] = c[Slot(f + i - 1)]
      <3> HIDE DEF c
      <3> QED
        BY <1>1, <1>2, RingType
    <2> HIDE DEF c, r, n
    <2> QED
      BY <1>3, <2>1
  <1>7. \A i \in 1 .. n : r[i] = s[i]
    <2> SUFFICES ASSUME NEW i \in 1 .. n PROVE r[i] = s[i]
      OBVIOUS
    <2>1. Slot(f + i - 1) # l /\ Slot(f + i - 1) \in Index
      BY <1>3, QSizeAssumption DEF Slot, Count, Index
    <2>2. s[i] = b[Slot(f + i - 1)]
      BY RingType
    <2>3. i \in 1 .. n + 1
      BY <1>3
    <2>4. r[i] = c[Slot(f + i - 1)]
      BY <1>6, <2>3
    <2>5. c[Slot(f + i - 1)] = b[Slot(f + i - 1)]
      BY <2>1
    <2> QED
      BY <2>2, <2>4, <2>5
  <1>8. r[n + 1] = m
    <2>1. Slot(f + (n + 1) - 1) = l
      BY <1>3, QSizeAssumption DEF Slot, Count, Index
    <2>2. n + 1 \in 1 .. n + 1
      BY <1>3
    <2>3. r[n + 1] = c[Slot(f + (n + 1) - 1)]
      BY <1>6, <2>2
    <2> QED
      BY <2>1, <2>3
  <1>9. r = Append(s, m)
    <2>1. /\ Append(s, m) \in Seq(Held) /\ Len(Append(s, m)) = n + 1
          /\ \A i \in 1 .. n : Append(s, m)[i] = s[i]
          /\ Append(s, m)[n + 1] = m
      BY <1>4, AppendProperties
    <2>2. \A i \in 1 .. n + 1 : r[i] = Append(s, m)[i]
      <3> SUFFICES ASSUME NEW i \in 1 .. n + 1 PROVE r[i] = Append(s, m)[i]
        OBVIOUS
      <3>3. i = n + 1 \/ i \in 1 .. n
        BY <1>3
      <3> HIDE DEF r, s, n
      <3>1. CASE i = n + 1
        BY <3>1, <1>8, <2>1
      <3>2. CASE i \in 1 .. n
        BY <3>2, <1>7, <2>1
      <3> QED
        BY <3>1, <3>2, <3>3
    <2> HIDE DEF r, s, n
    <2> QED
      BY <1>5, <2>1, <2>2, SeqEqual
  <1> QED
    BY <1>3, <1>4, <1>9 DEF k

-----------------------------------------------------------------------------
(* Steps that change neither the ring nor the array nor the messages held. *)
LEMMA HiddenStep ==
  ASSUME UNCHANGED <<ring, msg>>
  PROVE  UNCHANGED Queue!vars
  BY DEF Queue!vars, QueueContents, Ring, ring

LEMMA RefineThread ==
  ASSUME IInv, NEW t \in Threads,
         Call(t) \/ Acquire(t) \/ Step(t) \/ Crash(t) \/ Exit(t)
  PROVE  [Queue!Next]_(Queue!vars)
  <1> USE DEF IInv
  <1>0. t \in Queue!Clients /\ Queue!Clients = Threads
    BY DEF Queue!Clients, Threads
  <1>1. CASE Call(t)
    <2>1. CASE t \in Putters
      <3>1. UNCHANGED ring /\ msg[t] = None
            /\ \E m \in Msgs : msg' = [msg EXCEPT ![t] = m]
        BY <1>1, <2>1 DEF Call, HandInv
      <3>2. Queue!Offer(t)
        BY <3>1 DEF Queue!Offer, QueueContents, Ring, ring
      <3> QED
        BY <2>1, <3>2 DEF Queue!Next
    <2>2. CASE t \notin Putters
      BY <1>1, <2>2, HiddenStep DEF Call
    <2> QED
      BY <2>1, <2>2
  <1>2. CASE ReturnDestroyed(t) \/ PulseAndReturn(t)
    <2>1. UNCHANGED ring /\ msg' = [msg EXCEPT ![t] = None]
      BY <1>2 DEF ReturnDestroyed, PulseAndReturn, Return
    <2>2. Queue!LetGo(t)
      BY <2>1 DEF Queue!LetGo, QueueContents, Ring, ring
    <2> QED
      BY <1>0, <2>2 DEF Queue!Next
  <1>3. CASE Transfer(t)
    <2>1. /\ allocated /\ allocated' /\ ~Blocked(t)
          /\ pc[t] = "transfer" /\ UNCHANGED allocated
      BY <1>3 DEF Transfer, TransferInv
    <2>2. /\ buf \in [Index -> Held] /\ qFirst \in Index /\ qLast \in Index
          /\ msg[t] \in Held
      BY DEF TypeOK, Index, Held
    <2>3. CASE t \in Getters
      <3>1. /\ qFirst # qLast /\ UNCHANGED <<buf, qLast>>
            /\ qFirst' = (qFirst + 1) % QSize
            /\ msg' = [msg EXCEPT ![t] = buf[qFirst]]
        BY <1>3, <2>1, <2>3 DEF Transfer, Blocked, QueueEmpty, QueueRemove
      <3>2. msg[t] = None
        BY <2>1, <2>3 DEF HandInv, InCall
      <3>3. /\ QueueContents # <<>> /\ Head(QueueContents) = buf[qFirst]
            /\ QueueContents' = Tail(QueueContents)
        <4>1. /\ QueueContents = Ring(buf, qFirst, qLast)
              /\ QueueContents' = Ring(buf, (qFirst + 1) % QSize, qLast)
          BY <2>1, <3>1 DEF QueueContents, Ring, Count
        <4> QED
          BY <2>2, <3>1, <4>1, RemoveIsTail
      <3>4. Queue!Get(t)
        BY <2>1, <3>1, <3>2, <3>3 DEF Queue!Get
      <3> QED
        BY <2>3, <3>4 DEF Queue!Next
    <2>4. CASE t \notin Getters
      <3>1. /\ ~(qFirst - qLast = 1 \/ (qLast = QSize - 1 /\ qFirst = 0))
            /\ UNCHANGED qFirst /\ qLast' = (qLast + 1) % QSize
            /\ buf' = [buf EXCEPT ![qLast] = msg[t]]
            /\ msg' = [msg EXCEPT ![t] = None]
        BY <1>3, <2>1, <2>4 DEF Transfer, Blocked, QueueFull, QueueInsert
      <3>2. msg[t] # None
        BY <2>1, <2>4 DEF HandInv, InCall
      <3>3. /\ Len(QueueContents) < QSize - 1
            /\ QueueContents' = Append(QueueContents, msg[t])
        <4>1. /\ QueueContents = Ring(buf, qFirst, qLast)
              /\ QueueContents' = Ring([buf EXCEPT ![qLast] = msg[t]], qFirst,
                                       (qLast + 1) % QSize)
          BY <2>1, <3>1 DEF QueueContents, Ring, Count
        <4> QED
          BY <2>2, <3>1, <4>1, InsertIsAppend
      <3>4. Queue!Put(t) /\ t \in Putters
        BY <2>1, <2>4, <3>1, <3>2, <3>3 DEF Queue!Put, Threads
      <3> QED
        BY <3>4 DEF Queue!Next
    <2> QED
      BY <2>3, <2>4
  <1>4. CASE Acquire(t) \/ AcquireFails(t) \/ TestBlocked(t) \/ TestPasses(t)
             \/ BeginWait(t) \/ WaitTimesOut(t) \/ Crash(t) \/ Exit(t)
    BY <1>4, HiddenStep
    DEF Acquire, AcquireFails, TestBlocked, TestPasses, BeginWait, WaitTimesOut,
        Crash, Exit
  <1> QED
    BY <1>1, <1>2, <1>3, <1>4 DEF Step

LEMMA RefineDestroy ==
  ASSUME DestroyLock \/ DestroyFree \/ DestroyClose
  PROVE  [Queue!Next]_(Queue!vars)
  <1>1. CASE DestroyLock \/ DestroyClose
    BY <1>1, HiddenStep DEF DestroyLock, DestroyClose
  <1>2. CASE DestroyFree
    BY <1>2 DEF DestroyFree, Queue!Next, Queue!Destroy, QueueContents
  <1> QED
    BY <1>1, <1>2

(* The message queue of run10 is a bounded first-in first-out buffer for   *)
(* any number of threads and any number of slots above one.                *)
THEOREM QueueImplementsBoundedQueue == Spec => ImplementsBoundedQueue
  <1>1. Init => Queue!Init
    <2> SUFFICES ASSUME Init PROVE Queue!Init
      OBVIOUS
    <2>1. Count(0, 0) = 0 /\ 1 .. 0 = {}
      BY DEF Count
    <2>2. QueueContents = <<>>
      BY <2>1 DEF Init, QueueContents, Ring
    <2> QED
      BY <2>2 DEF Init, Queue!Init, Queue!Clients, Threads
  <1>2. IInv /\ [Next]_vars => [Queue!Next]_(Queue!vars)
    <2>1. UNCHANGED vars => UNCHANGED Queue!vars
      BY HiddenStep DEF vars
    <2> QED
      BY <2>1, RefineThread, RefineDestroy DEF Next, Finished
  <1> QED
    BY <1>1, <1>2, Inductive, PTL DEF Spec, ImplementsBoundedQueue, Queue!Spec
=============================================================================
