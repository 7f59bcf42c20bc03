----------------------------- MODULE MCSamples -----------------------------
(***************************************************************************)
(* Two objects that threads meet at: the message block of eventPC.cpp and  *)
(* the threshold barrier of ThbObject.cpp. They belong to separate         *)
(* programs: a behaviour is of the one chosen at the start, and the other  *)
(* stays as it is. The DWORD counters have five values, so that they wrap  *)
(* around within a few messages. The barrier is met by three threads with  *)
(* two calls each, more than its threshold, so that late calls find it     *)
(* open.                                                                   *)
(***************************************************************************)
EXTENDS EventPC, ThresholdBarrier

CONSTANTS t1, t2, t3

ThreeThreads == {t1, t2, t3}

VARIABLE program

InEvent == program = "eventPC" /\ UNCHANGED <<program, barrierVars>>
InBarrier == program = "ThbObject" /\ UNCHANGED <<program, vars>>

SamplesInit == program \in {"eventPC", "ThbObject"} /\ Init /\ BarrierInit

SamplesNext ==
  \/ InEvent /\ Next
  \/ InBarrier /\ BarrierNext

(* Fairness of EventPC, for its behaviours. The barrier in its first state *)
(* has no action that must be taken.                                       *)
EventFairness ==
  /\ WF_vars(InEvent /\ Producer) /\ WF_vars(InEvent /\ Consumer)
  /\ WF_vars(InEvent /\ Join)
  /\ \A t \in Threads : SF_vars(InEvent /\ Lock(t))

SamplesSpec ==
  /\ SamplesInit /\ [][SamplesNext]_<<program, vars, barrierVars>>
  /\ EventFairness /\ BarrierFairness
=============================================================================
