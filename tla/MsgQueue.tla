------------------------------ MODULE MsgQueue ------------------------------
(***************************************************************************)
(* The message queue of run10/QueueObj.cpp and SynchObj.h: a ring buffer   *)
(* guarded by a mutex, with two manual-reset events that are only pulsed.  *)
(* PulseEvent releases the threads waiting at that instant and leaves the  *)
(* event unset, so a pulse that falls between ReleaseMutex (line 13, 37)   *)
(* and WaitForSingleObject (14, 38) is lost; the wait is bounded by        *)
(* CV_TIMEOUT for that reason.                                             *)
(*                                                                         *)
(* A thread makes any number of calls and may exit between two calls.      *)
(* Main destroys the queue once the threads in Joined have exited: for     *)
(* p2tq and t2rq of ThreeStage.cpp these are all users of the queue, for   *)
(* the queues in r2cqArray only the receiver (the consumer handles waited  *)
(* on at ThreeStage.cpp:109 were never stored).                            *)
(***************************************************************************)
EXTENDS Integers, FiniteSets, Sequences

CONSTANTS Putters,   \* threads that call QueuePut
          Getters,   \* threads that call QueueGet
          Main,      \* the thread that calls QueueDestroy
          Joined,    \* the threads main waits for before QueueDestroy
          Msgs,      \* message values
          None,      \* no message, no owner
          QSize,     \* nMsgs of QueueInitialize
          MaxWaits,  \* values of the maxWait argument
          Infinite   \* the constant INFINITE

Threads == Putters \cup Getters

(* run10 creates queues of 10, 4 and 4 slots; a thread plays one part on   *)
(* one queue.                                                              *)
ASSUME QSizeAssumption == QSize \in Nat /\ QSize > 1
ASSUME ThreadAssumption ==
  /\ Putters \cap Getters = {}
  /\ Joined \subseteq Threads
  /\ Main \notin Threads
  /\ None \notin Threads \cup {Main}
ASSUME MsgAssumption == None \notin Msgs
ASSUME WaitAssumption == Infinite \notin Nat /\ MaxWaits \subseteq Nat \cup {Infinite}

VARIABLES
  allocated,   \* msgArray # NULL
  buf,         \* msgArray
  qFirst,      \* index of the oldest message
  qLast,       \* index of the next free slot
  guard,       \* owner of the mutex qGuard, None when it is signalled
  guardOpen,   \* the handle qGuard is open
  eventsOpen,  \* the handles qNe and qNf are open
  pc,          \* where each thread is
  msg,         \* the message in the hands of each thread
  maxWait,     \* the maxWait argument of its current call
  waited,      \* its TotalWaitTime
  timedOut,    \* its TimeOut
  mainPc,      \* progress of QueueDestroy
  crashed      \* an access through the freed array has ended the process

ring   == <<allocated, buf, qFirst, qLast>>
handles == <<guardOpen, eventsOpen>>
locals == <<maxWait, waited, timedOut>>
vars   == <<ring, guard, handles, pc, msg, locals, mainPc, crashed>>

CVTimeout == 10

InCall == {"lock", "entry", "loop", "unlocked", "waiting", "woken",
           "transfer", "pulse"}

(* The points of a call between taking qGuard and releasing it. *)
Critical == {"entry", "loop", "transfer", "pulse"}

TypeOK ==
  /\ allocated \in BOOLEAN /\ guardOpen \in BOOLEAN /\ eventsOpen \in BOOLEAN
  /\ crashed \in BOOLEAN
  /\ buf \in [0 .. QSize - 1 -> Msgs \cup {None}]
  /\ qFirst \in 0 .. QSize - 1
  /\ qLast \in 0 .. QSize - 1
  /\ guard \in Threads \cup {Main, None}
  /\ pc \in [Threads -> InCall \cup {"idle", "exited"}]
  /\ msg \in [Threads -> Msgs \cup {None}]
  /\ maxWait \in [Threads -> MaxWaits \cup {Infinite}]
  /\ waited \in [Threads -> Nat]
  /\ timedOut \in [Threads -> BOOLEAN]
  /\ mainPc \in {"joining", "freeing", "closing", "done"}

(* QueueInitialize; no thread has called yet. *)
Init ==
  /\ allocated = TRUE
  /\ buf = [i \in 0 .. QSize - 1 |-> None]
  /\ qFirst = 0
  /\ qLast = 0
  /\ guard = None
  /\ guardOpen = TRUE
  /\ eventsOpen = TRUE
  /\ pc = [t \in Threads |-> "idle"]
  /\ msg = [t \in Threads |-> None]
  /\ maxWait = [t \in Threads |-> Infinite]
  /\ waited = [t \in Threads |-> 0]
  /\ timedOut = [t \in Threads |-> FALSE]
  /\ mainPc = "joining"
  /\ crashed = FALSE

-----------------------------------------------------------------------------
(* The ring. *)

QueueEmpty == qFirst = qLast

(* The test of a full ring without the slot kept free. *)
QueueFullNoGap == qLast = QSize - 1 /\ qFirst = 0

QueueFull == qFirst - qLast = 1 \/ (qLast = QSize - 1 /\ qFirst = 0)

(* The condition of the while loop of each operation. *)
Blocked(t) == IF t \in Getters THEN QueueEmpty ELSE QueueFull

(* An index that is not wrapped at the end of the array. *)
QueueRemoveNoWrap(t) ==
  /\ IF QueueEmpty
       THEN UNCHANGED <<msg, qFirst>>
       ELSE /\ msg' = [msg EXCEPT ![t] = buf[qFirst]]
            /\ qFirst' = qFirst + 1
  /\ UNCHANGED <<buf, qLast>>

(* QueueRemove returns 1 and copies nothing when the ring is empty; its     *)
(* caller ignores the result.                                              *)
QueueRemove(t) ==
  /\ IF QueueEmpty
       THEN UNCHANGED <<msg, qFirst>>
       ELSE /\ msg' = [msg EXCEPT ![t] = buf[qFirst]]
            /\ qFirst' = (qFirst + 1) % QSize
  /\ UNCHANGED <<buf, qLast>>

(* QueueInsert likewise; the message leaves the hands of the caller. *)
QueueInsert(t) ==
  /\ IF QueueFull
       THEN UNCHANGED <<msg, buf, qLast>>
       ELSE /\ buf' = [buf EXCEPT ![qLast] = msg[t]]
            /\ qLast' = (qLast + 1) % QSize
            /\ msg' = [msg EXCEPT ![t] = None]
  /\ UNCHANGED qFirst

-----------------------------------------------------------------------------
(* QueueGet and QueuePut, which differ in Blocked, in the transfer and in  *)
(* the event each waits for and pulses.                                    *)

Call(t) ==
  /\ pc[t] = "idle"
  /\ pc' = [pc EXCEPT ![t] = "lock"]
  /\ \E w \in MaxWaits : maxWait' = [maxWait EXCEPT ![t] = w]
  /\ IF t \in Putters
       THEN \E m \in Msgs : msg' = [msg EXCEPT ![t] = m]
       ELSE UNCHANGED msg
  /\ UNCHANGED <<ring, guard, handles, waited, timedOut, mainPc, crashed>>

(* The locals of a call end with it; the next one starts from these values. *)
Return(t) ==
  /\ msg' = [msg EXCEPT ![t] = None]
  /\ maxWait' = [maxWait EXCEPT ![t] = Infinite]
  /\ waited' = [waited EXCEPT ![t] = 0]
  /\ timedOut' = [timedOut EXCEPT ![t] = FALSE]

(* The time of the last round in the place of the total. *)
NewWaitedLast(t) == IF maxWait[t] = Infinite THEN waited[t] ELSE CVTimeout

(* The time a completed round of waiting adds, and the flag it leads to. *)
NewWaited(t) == IF maxWait[t] = Infinite THEN waited[t] ELSE waited[t] + CVTimeout
NewTimedOut(t) == maxWait[t] # Infinite /\ NewWaited(t) > maxWait[t]

(* Lines 15 to 18 touch only locals of the thread and are taken with the   *)
(* wait for the mutex at line 19.                                          *)
CountRound(t) ==
  /\ waited' = [waited EXCEPT ![t] = NewWaited(t)]
  /\ timedOut' = [timedOut EXCEPT ![t] = NewTimedOut(t)]
  /\ UNCHANGED maxWait

(* The wait for qGuard ends at line 9 or at line 19. *)
PassGuard(t) ==
  \/ /\ pc[t] = "lock"
     /\ pc' = [pc EXCEPT ![t] = "entry"]
     /\ UNCHANGED locals
  \/ /\ pc[t] = "woken"
     /\ pc' = [pc EXCEPT ![t] = "loop"]
     /\ CountRound(t)

(* The wait for qGuard at line 19 left out. *)
AcquireOnce(t) ==
  /\ guard \in {None, t} \/ pc[t] = "woken"
  /\ guard' = IF pc[t] = "woken" THEN guard ELSE t
  /\ PassGuard(t)
  /\ UNCHANGED <<ring, handles, msg, mainPc, crashed>>

(* A thread whose earlier call returned with the mutex owns it already. *)
Acquire(t) ==
  /\ guard \in {None, t}
  /\ guard' = t
  /\ PassGuard(t)
  /\ UNCHANGED <<ring, handles, msg, mainPc, crashed>>

(* WaitForSingleObject fails on a closed handle and its result is ignored: *)
(* the thread goes on without the mutex. A thread that waited when the     *)
(* handle was closed may still get the mutex by Acquire.                   *)
AcquireFails(t) ==
  /\ ~guardOpen
  /\ PassGuard(t)
  /\ UNCHANGED <<ring, guard, handles, msg, mainPc, crashed>>

(* ReleaseMutex has no effect for a thread that is not the owner. *)
ReleaseMutex(t) == guard' = IF guard = t THEN None ELSE guard

(* Line 10: the early return keeps the mutex. *)
ReturnDestroyed(t) ==
  /\ pc[t] = "entry"
  /\ ~allocated
  /\ pc' = [pc EXCEPT ![t] = "idle"]
  /\ Return(t)
  /\ UNCHANGED <<ring, guard, handles, mainPc, crashed>>

(* Only the first test of the loop is preceded by the test of msgArray. *)
AtTest(t) == pc[t] = "loop" \/ (pc[t] = "entry" /\ allocated)

(* Line 12 true, line 13. *)
TestBlocked(t) ==
  /\ AtTest(t)
  /\ Blocked(t) /\ ~timedOut[t]
  /\ pc' = [pc EXCEPT ![t] = "unlocked"]
  /\ ReleaseMutex(t)
  /\ UNCHANGED <<ring, handles, msg, locals, mainPc, crashed>>

(* A call that serves itself after its time is up, without the test of     *)
(* TimeOut at line 21.                                                     *)
TestPassesLate(t) ==
  /\ AtTest(t)
  /\ ~Blocked(t) \/ timedOut[t]
  /\ pc' = [pc EXCEPT ![t] = "transfer"]
  /\ UNCHANGED <<ring, guard, handles, msg, locals, mainPc, crashed>>

(* Line 12 false, line 21. *)
TestPasses(t) ==
  /\ AtTest(t)
  /\ ~Blocked(t) \/ timedOut[t]
  /\ pc' = [pc EXCEPT ![t] = IF timedOut[t] THEN "pulse" ELSE "transfer"]
  /\ UNCHANGED <<ring, guard, handles, msg, locals, mainPc, crashed>>

(* Line 14: the wait fails at once when the event handle is closed. *)
BeginWait(t) ==
  /\ pc[t] = "unlocked"
  /\ pc' = [pc EXCEPT ![t] = IF eventsOpen THEN "waiting" ELSE "woken"]
  /\ UNCHANGED <<ring, guard, handles, msg, locals, mainPc, crashed>>

(* A wait without the bound of CV_TIMEOUT. *)
WaitForever(t) == FALSE /\ UNCHANGED vars

(* Line 14: CV_TIMEOUT expires. *)
WaitTimesOut(t) ==
  /\ pc[t] = "waiting"
  /\ pc' = [pc EXCEPT ![t] = "woken"]
  /\ UNCHANGED <<ring, guard, handles, msg, locals, mainPc, crashed>>

(* Line 21, the copy. *)
Transfer(t) ==
  /\ pc[t] = "transfer"
  /\ allocated \/ Blocked(t)
  /\ pc' = [pc EXCEPT ![t] = "pulse"]
  /\ IF t \in Getters THEN QueueRemove(t) ELSE QueueInsert(t)
  /\ UNCHANGED <<allocated, guard, handles, locals, mainPc, crashed>>

(* Line 21 after QueueDestroy: memcpy through a null array. *)
Crash(t) ==
  /\ pc[t] = "transfer"
  /\ ~allocated /\ ~Blocked(t)
  /\ crashed' = TRUE
  /\ UNCHANGED <<ring, guard, handles, pc, msg, locals, mainPc>>

(* The threads a pulse by t releases: those waiting for the other event. *)
Waiters(t) ==
  {u \in IF t \in Getters THEN Putters ELSE Getters : pc[u] = "waiting"}

(* Lines 22 to 25. *)
PulseAndReturn(t) ==
  /\ pc[t] = "pulse"
  /\ pc' = [u \in Threads |-> IF u = t THEN "idle"
                              ELSE IF eventsOpen /\ u \in Waiters(t) THEN "woken"
                              ELSE pc[u]]
  /\ ReleaseMutex(t)
  /\ Return(t)
  /\ UNCHANGED <<ring, handles, mainPc, crashed>>

(* A thread ends; a mutex it owns is abandoned and passes to a waiter. *)
Exit(t) ==
  /\ pc[t] = "idle"
  /\ pc' = [pc EXCEPT ![t] = "exited"]
  /\ ReleaseMutex(t)
  /\ UNCHANGED <<ring, handles, msg, locals, mainPc, crashed>>

-----------------------------------------------------------------------------
(* QueueDestroy, called by main. *)

(* The array freed without the mutex. *)
DestroyUnlocked ==
  /\ mainPc = "joining"
  /\ \A t \in Joined : pc[t] = "exited"
  /\ mainPc' = "freeing"
  /\ UNCHANGED <<ring, guard, handles, pc, msg, locals, crashed>>

(* ThreeStage.cpp:99-115, then line 65. *)
DestroyLock ==
  /\ mainPc = "joining"
  /\ \A t \in Joined : pc[t] = "exited"
  /\ guard = None
  /\ guard' = Main
  /\ mainPc' = "freeing"
  /\ UNCHANGED <<ring, handles, pc, msg, locals, crashed>>

(* Lines 66 to 70. *)
DestroyFree ==
  /\ mainPc = "freeing"
  /\ allocated' = FALSE
  /\ eventsOpen' = FALSE
  /\ guard' = None
  /\ mainPc' = "closing"
  /\ UNCHANGED <<buf, qFirst, qLast, guardOpen, pc, msg, locals, crashed>>

(* Line 71. *)
DestroyClose ==
  /\ mainPc = "closing"
  /\ guardOpen' = FALSE
  /\ mainPc' = "done"
  /\ UNCHANGED <<ring, guard, eventsOpen, pc, msg, locals, crashed>>

-----------------------------------------------------------------------------
(* The steps a call makes on its own, apart from taking the mutex. *)
Step(t) ==
  \/ AcquireFails(t) \/ ReturnDestroyed(t) \/ TestBlocked(t) \/ TestPasses(t)
  \/ BeginWait(t) \/ WaitTimesOut(t) \/ Transfer(t) \/ PulseAndReturn(t)

Finished ==
  /\ crashed \/ (mainPc = "done" /\ \A t \in Threads : pc[t] = "exited")
  /\ UNCHANGED vars

Next ==
  \/ /\ ~crashed
     /\ \/ \E t \in Threads : Call(t) \/ Acquire(t) \/ Step(t) \/ Crash(t) \/ Exit(t)
        \/ DestroyLock \/ DestroyFree \/ DestroyClose
  \/ Finished

(* The scheduler runs every ready thread, a wait of CV_TIMEOUT ends, and a *)
(* released mutex goes to each of its waiters in turn. Nobody has to call, *)
(* and main need not destroy the queue, but goes on once it has begun.     *)
Fairness ==
  /\ \A t \in Threads : WF_vars(~crashed /\ (Step(t) \/ Crash(t)))
                       /\ SF_vars(~crashed /\ Acquire(t))
  /\ WF_vars(~crashed /\ (DestroyFree \/ DestroyClose))

Spec == Init /\ [][Next]_vars
FairSpec == Spec /\ Fairness

-----------------------------------------------------------------------------
(* A call that is about to return 0 has moved exactly one message and one  *)
(* about to return WAIT_TIMEOUT has moved none, although the results of    *)
(* QueueRemove and QueueInsert are ignored at lines 21 and 45 and other    *)
(* threads ran while it waited without the mutex.                          *)
StatusTruthful ==
  \A t \in Threads : pc[t] = "pulse" =>
    (timedOut[t] <=> IF t \in Getters THEN msg[t] = None ELSE msg[t] # None)

(* While the ring exists no two threads, main included, are between taking *)
(* qGuard and releasing it, whichever calls returned early and whichever   *)
(* threads ended with the mutex.                                           *)
MutualExclusion ==
  allocated =>
    \A t \in Threads : pc[t] \in Critical =>
      /\ mainPc # "freeing"
      /\ \A u \in Threads \ {t} : pc[u] \notin Critical

(* Once the array is freed no call reports success, not even one that was  *)
(* waiting inside QueueGet or QueuePut and goes on without testing         *)
(* msgArray again.                                                         *)
NoSuccessAfterDestroy ==
  ~allocated => \A t \in Threads : pc[t] = "pulse" => timedOut[t]

(* The messages of a ring b between the indexes f and l, oldest first. *)
Slot(k) == IF k < QSize THEN k ELSE k - QSize
Count(f, l) == IF f <= l THEN l - f ELSE l - f + QSize
Ring(b, f, l) == [i \in 1 .. Count(f, l) |-> b[Slot(f + i - 1)]]
QueueContents == IF allocated THEN Ring(buf, qFirst, qLast) ELSE <<>>

(* The ring with its mutex, pulses and timeouts is a first-in first-out    *)
(* buffer of nMsgs - 1 messages: each message put is got once, in order,   *)
(* and none is overwritten. QueueFull keeps one slot free.                 *)
Queue == INSTANCE BoundedQueue WITH
           Capacity <- QSize - 1,
           contents <- QueueContents,
           hand <- msg,
           open <- allocated
ImplementsBoundedQueue == Queue!Spec

(* A pulse lost between the release of the mutex and the wait does not     *)
(* strand its call: while its condition stays true a call in progress      *)
(* returns, also from a queue that is being destroyed.                     *)
LostPulseHarmless ==
  \A t \in Threads :
    (pc[t] \in InCall /\ ~Blocked(t)) ~> (pc[t] \notin InCall \/ Blocked(t) \/ crashed)

(* A call with a finite maxWait returns, whatever the others do and        *)
(* although a thread may leave a destroyed queue with its mutex.           *)
TimedCallReturns ==
  \A t \in Threads :
    (pc[t] \in InCall /\ maxWait[t] # Infinite) ~> (pc[t] \notin InCall \/ crashed)
=============================================================================
