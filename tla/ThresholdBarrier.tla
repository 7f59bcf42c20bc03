-------------------------- MODULE ThresholdBarrier --------------------------
(***************************************************************************)
(* The threshold barrier of run10/ThbObject.cpp: a counter guarded by a    *)
(* mutex and a manual-reset event that is set once the count reaches the   *)
(* threshold and never reset. CloseThresholdBarrier may run while released *)
(* waiters have still to take the mutex again; a thread that goes on with  *)
(* the freed object ends the behaviour in the state faulted, after which   *)
(* nothing is claimed.                                                     *)
(***************************************************************************)
EXTENDS Integers

CONSTANTS Waiters,    \* threads that call WaitThresholdBarrier
          Closer,     \* the thread that calls CloseThresholdBarrier
          None,       \* no owner
          Threshold,  \* bValue of CreateThresholdBarrier
          MaxCalls    \* bound: calls of one thread

ASSUME ThresholdAssumption == Threshold \in Nat /\ MaxCalls \in Nat
ASSUME OwnerAssumption == Closer \notin Waiters /\ None \notin Waiters \cup {Closer}

VARIABLES
  bCount,    \* calls counted
  bEvent,    \* the event is signalled
  bGuard,    \* owner of the mutex bGuarg, None when it is signalled
  live,      \* the object is allocated and its handles are open
  at,        \* where each thread is
  calls,     \* calls each thread has started
  closerPc,  \* progress of CloseThresholdBarrier
  faulted    \* a thread has used the freed object

object == <<bCount, bEvent, live>>
barrierVars == <<object, bGuard, at, calls, closerPc, faulted>>

(* Between arriving and returning. *)
Arrived == {"test", "waiting", "relock"}

BarrierTypeOK ==
  /\ bCount \in Nat
  /\ bEvent \in BOOLEAN /\ live \in BOOLEAN
  /\ faulted \in BOOLEAN
  /\ bGuard \in Waiters \cup {Closer, None}
  /\ at \in [Waiters -> Arrived \cup {"idle", "lock", "count", "ended"}]
  /\ calls \in [Waiters -> 0 .. MaxCalls]
  /\ closerPc \in {"idle", "test", "free", "done"}

(* CreateThresholdBarrier. *)
BarrierInit ==
  /\ bCount = 0
  /\ bEvent = FALSE
  /\ bGuard = None
  /\ live = TRUE
  /\ at = [t \in Waiters |-> "idle"]
  /\ calls = [t \in Waiters |-> 0]
  /\ closerPc = "idle"
  /\ faulted = FALSE

-----------------------------------------------------------------------------
(* WaitThresholdBarrier *)

Move(t, from, to) == at[t] = from /\ at' = [at EXCEPT ![t] = to]

Enter(t) ==
  /\ calls[t] < MaxCalls
  /\ Move(t, "idle", "lock")
  /\ calls' = [calls EXCEPT ![t] = @ + 1]
  /\ UNCHANGED <<object, bGuard, closerPc, faulted>>

(* Lines 29 and 33. *)
Acquire(t) ==
  /\ live
  /\ bGuard = None
  /\ bGuard' = t
  /\ Move(t, "lock", "count") \/ Move(t, "relock", "test")
  /\ UNCHANGED <<object, calls, closerPc, faulted>>

(* Counting down, as a barrier initialised to its threshold would. *)
CountDown(t) ==
  /\ Move(t, "count", "test")
  /\ bCount' = bCount - 1
  /\ UNCHANGED <<bEvent, live, bGuard, calls, closerPc, faulted>>

(* Line 30. *)
Count(t) ==
  /\ Move(t, "count", "test")
  /\ bCount' = bCount + 1
  /\ UNCHANGED <<bEvent, live, bGuard, calls, closerPc, faulted>>

(* Lines 31 and 32. SignalObjectAndWait need not be atomic: the event is   *)
(* never reset, so a SetEvent between its halves is not missed.            *)
Block(t) ==
  /\ bCount < Threshold
  /\ Move(t, "test", "waiting")
  /\ bGuard' = None
  /\ UNCHANGED <<object, calls, closerPc, faulted>>

Awake(t) ==
  /\ bEvent
  /\ Move(t, "waiting", "relock")
  /\ UNCHANGED <<object, bGuard, calls, closerPc, faulted>>

(* The event set by the calls past the threshold, not by the one at it. *)
LeaveLate(t) ==
  /\ bCount >= Threshold
  /\ Move(t, "test", "idle")
  /\ bEvent' = (bCount > Threshold)
  /\ bGuard' = None
  /\ UNCHANGED <<bCount, live, calls, closerPc, faulted>>

(* A loop test that is off by one. *)
LeaveEarly(t) ==
  /\ bCount + 1 >= Threshold
  /\ Move(t, "test", "idle")
  /\ bEvent' = TRUE
  /\ bGuard' = None
  /\ UNCHANGED <<bCount, live, calls, closerPc, faulted>>

(* Lines 31, 35 and 36. *)
Leave(t) ==
  /\ bCount >= Threshold
  /\ Move(t, "test", "idle")
  /\ bEvent' = TRUE
  /\ bGuard' = None
  /\ UNCHANGED <<bCount, live, calls, closerPc, faulted>>

(* The pointer or a handle is used after CloseThresholdBarrier. *)
Fault(t) ==
  /\ ~live
  /\ at[t] \in {"lock", "count", "test", "relock"}
  /\ faulted' = TRUE
  /\ UNCHANGED <<object, bGuard, at, calls, closerPc>>

End(t) ==
  /\ Move(t, "idle", "ended")
  /\ UNCHANGED <<object, bGuard, calls, closerPc, faulted>>

-----------------------------------------------------------------------------
(* CloseThresholdBarrier *)

(* Closing without looking at the count. *)
CloseAtOnce ==
  /\ closerPc = "idle"
  /\ bGuard = None
  /\ closerPc' = "free"
  /\ UNCHANGED <<object, bGuard, at, calls, faulted>>

(* Line 42. *)
CloseLock ==
  /\ closerPc = "idle"
  /\ bGuard = None
  /\ bGuard' = Closer
  /\ closerPc' = "test"
  /\ UNCHANGED <<object, at, calls, faulted>>

(* Lines 43 to 45: SYNCH_OBJ_BUSY. *)
CloseBusy ==
  /\ closerPc = "test"
  /\ bCount < Threshold
  /\ bGuard' = None
  /\ closerPc' = "idle"
  /\ UNCHANGED <<object, at, calls, faulted>>

(* Line 47. *)
CloseUnlock ==
  /\ closerPc = "test"
  /\ bCount >= Threshold
  /\ bGuard' = None
  /\ closerPc' = "free"
  /\ UNCHANGED <<object, at, calls, faulted>>

(* Lines 48 to 50. *)
CloseFree ==
  /\ closerPc = "free"
  /\ live' = FALSE
  /\ closerPc' = "done"
  /\ UNCHANGED <<bCount, bEvent, bGuard, at, calls, faulted>>

-----------------------------------------------------------------------------
Step(t) == Count(t) \/ Block(t) \/ Awake(t) \/ Leave(t)

Finished ==
  /\ faulted \/ \A t \in Waiters : at[t] \in {"ended", "waiting"}
  /\ UNCHANGED barrierVars

BarrierNext ==
  \/ /\ ~faulted
     /\ \/ \E t \in Waiters : Enter(t) \/ Acquire(t) \/ Step(t) \/ Fault(t) \/ End(t)
        \/ CloseLock \/ CloseBusy \/ CloseUnlock \/ CloseFree
  \/ Finished

(* Every ready thread runs, and the mutex goes to each of its waiters in   *)
(* turn, however often the closer takes it. The closer gives it back.      *)
BarrierFairness ==
  /\ \A t \in Waiters : WF_barrierVars(~faulted /\ Step(t))
  /\ \A t \in Waiters : SF_barrierVars(~faulted /\ Acquire(t))
  /\ WF_barrierVars(~faulted /\ (CloseBusy \/ CloseUnlock))

BarrierSpec == BarrierInit /\ [][BarrierNext]_barrierVars

-----------------------------------------------------------------------------
(* No call of WaitThresholdBarrier returns before Threshold calls have     *)
(* arrived, and each call is counted once, however often it wakes up.      *)
Abstract == INSTANCE Barrier WITH
              Threads <- Waiters,
              arrivals <- bCount,
              inside <- {t \in Waiters : at[t] \in Arrived}
ImplementsBarrier == Abstract!Spec

(* A close that does not answer SYNCH_OBJ_BUSY leaves no thread blocked on *)
(* the event it closes: if one still waits, the event has been set.        *)
ClosedGateIsOpen == \A t \in Waiters : ~live /\ at[t] = "waiting" => bEvent

(* Once Threshold calls have arrived every call in progress returns, the   *)
(* ones that were blocked and the ones that come later, unless the object  *)
(* is freed under them.                                                    *)
BarrierOpens ==
  \A t \in Waiters :
    (bCount >= Threshold /\ at[t] \notin {"idle", "ended"})
      ~> (at[t] \in {"idle", "ended"} \/ ~live)
=============================================================================
