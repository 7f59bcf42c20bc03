----------------------- MODULE ThresholdBarrierProofs -----------------------
(***************************************************************************)
(* The barrier of run10/ThbObject.cpp implements Barrier and leaves no     *)
(* waiter behind a closed gate, for any set of threads and any threshold.  *)
(*                                                                         *)
(* The argument: between the count that reaches the threshold and the      *)
(* SetEvent a thread stands at its loop test and owns the mutex (GateInv). *)
(* A closer that finds the threshold reached owns the mutex itself, so the *)
(* event has been set for whoever waits; no thread blocks after that.      *)
(***************************************************************************)
EXTENDS ThresholdBarrier, TLAPS

GuardInv ==
  /\ \A t \in Waiters : at[t] \in {"count", "test"} => bGuard = t
  /\ closerPc = "test" => bGuard = Closer

GateInv ==
  bCount >= Threshold =>
    \/ bEvent
    \/ \E t \in Waiters : at[t] = "test"
    \/ \A t \in Waiters : at[t] # "waiting"

CloseInv ==
  /\ live <=> closerPc # "done"
  /\ closerPc \in {"free", "done"} =>
       /\ bCount >= Threshold
       /\ bEvent \/ \A t \in Waiters : at[t] # "waiting"

IInv == BarrierTypeOK /\ GuardInv /\ GateInv /\ CloseInv

-----------------------------------------------------------------------------
LEMMA InitIInv == BarrierInit => IInv
  <1> SUFFICES ASSUME BarrierInit PROVE IInv
    OBVIOUS
  <1>1. calls \in [Waiters -> 0 .. MaxCalls]
    BY ThresholdAssumption DEF BarrierInit
  <1>2. BarrierTypeOK
    BY <1>1 DEF BarrierInit, BarrierTypeOK
  <1>3. GuardInv /\ GateInv /\ CloseInv
    BY DEF BarrierInit, GuardInv, GateInv, CloseInv
  <1> QED
    BY <1>2, <1>3 DEF IInv

(* A thread that moves, and what its move leaves alone. *)
LEMMA Moved ==
  ASSUME BarrierTypeOK, NEW t \in Waiters, NEW a, NEW b, Move(t, a, b)
  PROVE  at[t] = a /\ at'[t] = b /\ \A u \in Waiters \ {t} : at'[u] = at[u]
  BY DEF Move, BarrierTypeOK

LEMMA ThreadStep ==
  ASSUME IInv, NEW t \in Waiters,
         Enter(t) \/ Acquire(t) \/ Step(t) \/ Fault(t) \/ End(t)
  PROVE  IInv'
  <1> USE DEF IInv, object
  <1>1. CASE Enter(t) \/ Awake(t) \/ End(t)
    <2>1. BarrierTypeOK'
      <3>1. CASE Enter(t)
        <4>1. calls[t] + 1 \in 0 .. MaxCalls
          BY <3>1, ThresholdAssumption DEF BarrierTypeOK, Enter
        <4> QED
          BY <3>1, <4>1 DEF BarrierTypeOK, Enter, Move
      <3>2. CASE Awake(t) \/ End(t)
        BY <3>2 DEF BarrierTypeOK, Awake, End, Move, Arrived
      <3> QED
        BY <1>1, <3>1, <3>2
    <2>2. /\ UNCHANGED <<object, bGuard, closerPc>>
          /\ at[t] \in {"idle", "waiting"} /\ at'[t] \in {"lock", "relock", "ended"}
          /\ \A u \in Waiters \ {t} : at'[u] = at[u]
      BY <1>1, Moved DEF Enter, Awake, End
    <2> QED
      BY <2>1, <2>2 DEF GuardInv, GateInv, CloseInv
  <1>2. CASE Acquire(t)
    <2>1. BarrierTypeOK'
      BY <1>2 DEF BarrierTypeOK, Acquire, Move, Arrived
    <2>2. /\ UNCHANGED <<object, closerPc>> /\ bGuard = None /\ bGuard' = t
          /\ at[t] \in {"lock", "relock"} /\ at'[t] \in {"count", "test"}
          /\ \A u \in Waiters \ {t} : at'[u] = at[u]
      BY <1>2, Moved DEF Acquire
    <2>3. GuardInv'
      BY <2>2, OwnerAssumption DEF GuardInv
    <2>4. GateInv' /\ CloseInv'
      BY <2>2 DEF GateInv, CloseInv
    <2> QED
      BY <2>1, <2>3, <2>4
  <1>3. CASE Count(t)
    <2>1. BarrierTypeOK'
      BY <1>3 DEF BarrierTypeOK, Count, Move, Arrived
    <2>2. /\ UNCHANGED <<bEvent, live, bGuard, closerPc>> /\ bCount' = bCount + 1
          /\ at[t] = "count" /\ at'[t] = "test"
          /\ \A u \in Waiters \ {t} : at'[u] = at[u]
      BY <1>3, Moved DEF Count
    <2>3. bCount >= Threshold => bCount' >= Threshold
      BY <2>2, ThresholdAssumption DEF BarrierTypeOK
    <2> QED
      BY <2>1, <2>2, <2>3 DEF GuardInv, GateInv, CloseInv
  <1>4. CASE Block(t)
    <2>1. BarrierTypeOK'
      BY <1>4 DEF BarrierTypeOK, Block, Move, Arrived
    <2>2. /\ UNCHANGED <<object, closerPc>> /\ bGuard' = None
          /\ bCount < Threshold /\ ~(bCount >= Threshold)
          /\ at[t] = "test" /\ at'[t] = "waiting"
          /\ \A u \in Waiters \ {t} : at'[u] = at[u]
      BY <1>4, Moved, ThresholdAssumption DEF Block, BarrierTypeOK
    <2>3. GuardInv'
      BY <2>2, OwnerAssumption DEF GuardInv
    <2>4. GateInv' /\ CloseInv'
      BY <2>2 DEF GateInv, CloseInv
    <2> QED
      BY <2>1, <2>3, <2>4
  <1>5. CASE Leave(t)
    <2>1. BarrierTypeOK'
      BY <1>5 DEF BarrierTypeOK, Leave, Move, Arrived
    <2>2. /\ UNCHANGED <<bCount, live, closerPc>> /\ bGuard' = None /\ bEvent'
          /\ at[t] = "test" /\ at'[t] = "idle"
          /\ \A u \in Waiters \ {t} : at'[u] = at[u]
      BY <1>5, Moved DEF Leave
    <2>3. GuardInv'
      BY <2>2, OwnerAssumption DEF GuardInv
    <2>4. GateInv' /\ CloseInv'
      BY <2>2 DEF GateInv, CloseInv
    <2> QED
      BY <2>1, <2>3, <2>4
  <1>6. CASE Fault(t)
    BY <1>6 DEF Fault, BarrierTypeOK, GuardInv, GateInv, CloseInv
  <1> QED
    BY <1>1, <1>2, <1>3, <1>4, <1>5, <1>6 DEF Step

LEMMA CloserStep ==
  ASSUME IInv, CloseLock \/ CloseBusy \/ CloseUnlock \/ CloseFree
  PROVE  IInv'
  <1> USE DEF IInv, object
  <1>1. BarrierTypeOK'
    BY DEF BarrierTypeOK, CloseLock, CloseBusy, CloseUnlock, CloseFree
  <1>2. GuardInv'
    BY OwnerAssumption DEF GuardInv, CloseLock, CloseBusy, CloseUnlock, CloseFree
  <1>3. GateInv'
    BY DEF GateInv, CloseLock, CloseBusy, CloseUnlock, CloseFree
  <1>4. CloseInv'
    <2>1. CASE CloseUnlock
      <3>1. bGuard = Closer /\ bCount >= Threshold /\ \A t \in Waiters : at[t] # "test"
        BY <2>1, OwnerAssumption DEF GuardInv, CloseUnlock
      <3> QED
        BY <2>1, <3>1 DEF GateInv, CloseInv, CloseUnlock
    <2>2. CASE CloseLock \/ CloseBusy \/ CloseFree
      BY <2>2 DEF CloseInv, CloseLock, CloseBusy, CloseFree
    <2> QED
      BY <2>1, <2>2
  <1> QED
    BY <1>1, <1>2, <1>3, <1>4

LEMMA Inductive == BarrierSpec => []IInv
  <1>1. IInv /\ UNCHANGED barrierVars => IInv'
    BY DEF IInv, BarrierTypeOK, GuardInv, GateInv, CloseInv, barrierVars, object
  <1>2. IInv /\ [BarrierNext]_barrierVars => IInv'
    BY <1>1, ThreadStep, CloserStep DEF BarrierNext, Finished
  <1> QED
    BY InitIInv, <1>2, PTL DEF BarrierSpec

-----------------------------------------------------------------------------
(* The variables of every reachable state have their types. *)
THEOREM BarrierTypeCorrect == BarrierSpec => []BarrierTypeOK
  <1>1. IInv => BarrierTypeOK
    BY DEF IInv
  <1> QED
    BY <1>1, Inductive, PTL

(* CloseThresholdBarrier closes no event that a thread is still blocked    *)
(* on, for any number of threads and calls.                                *)
THEOREM CloseLeavesNoWaiter == BarrierSpec => []ClosedGateIsOpen
  <1>1. IInv => ClosedGateIsOpen
    BY DEF IInv, CloseInv, ClosedGateIsOpen
  <1> QED
    BY <1>1, Inductive, PTL

(* No call of WaitThresholdBarrier returns before the threshold is reached *)
(* and each is counted once, for any number of threads.                    *)
THEOREM BarrierImplemented == BarrierSpec => ImplementsBarrier
  <1>1. BarrierInit => Abstract!Init
    BY DEF BarrierInit, Abstract!Init, Arrived
  <1>2. IInv /\ [BarrierNext]_barrierVars => [Abstract!Next]_(Abstract!vars)
    <2> SUFFICES ASSUME IInv, [BarrierNext]_barrierVars PROVE [Abstract!Next]_(Abstract!vars)
      OBVIOUS
    <2> USE DEF IInv, object
    <2> DEFINE inside == {u \in Waiters : at[u] \in Arrived}
    <2>1. ASSUME NEW t \in Waiters, Count(t)
          PROVE  Abstract!Arrive(t)
      <3>1. t \notin inside /\ inside' = inside \cup {t}
        BY <2>1, Moved DEF Count, Arrived
      <3> QED
        BY <2>1, <3>1 DEF Count, Abstract!Arrive
    <2>2. ASSUME NEW t \in Waiters, Leave(t)
          PROVE  Abstract!Pass(t)
      <3>1. t \in inside /\ inside' = inside \ {t}
        BY <2>2, Moved DEF Leave, Arrived
      <3> QED
        BY <2>2, <3>1 DEF Leave, Abstract!Pass
    <2>3. ASSUME NEW t \in Waiters,
                 Enter(t) \/ Acquire(t) \/ Block(t) \/ Awake(t) \/ Fault(t) \/ End(t)
          PROVE  UNCHANGED Abstract!vars
      <3>1. inside' = inside
        BY <2>3, Moved DEF Enter, Acquire, Block, Awake, Fault, End, Arrived
      <3>2. bCount' = bCount
        BY <2>3 DEF Enter, Acquire, Block, Awake, Fault, End
      <3> QED
        BY <3>1, <3>2 DEF Abstract!vars
    <2>4. CASE CloseLock \/ CloseBusy \/ CloseUnlock \/ CloseFree \/ UNCHANGED barrierVars
      BY <2>4 DEF CloseLock, CloseBusy, CloseUnlock, CloseFree, barrierVars, Abstract!vars
    <2> QED
      BY <2>1, <2>2, <2>3, <2>4 DEF BarrierNext, Step, Finished, Abstract!Next
  <1> QED
    BY <1>1, <1>2, Inductive, PTL DEF BarrierSpec, ImplementsBarrier, Abstract!Spec
=============================================================================
