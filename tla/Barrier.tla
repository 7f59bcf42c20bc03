------------------------------- MODULE Barrier -------------------------------
(***************************************************************************)
(* What a threshold barrier promises: a call that has arrived passes only  *)
(* after Threshold calls have arrived. The barrier is used once: from then *)
(* on every call passes.                                                   *)
(***************************************************************************)
EXTENDS Naturals

CONSTANTS Threads, Threshold

VARIABLES arrivals,  \* calls that have arrived so far
          inside     \* threads whose call has arrived and not passed

vars == <<arrivals, inside>>

Init == arrivals = 0 /\ inside = {}

Arrive(t) ==
  /\ t \notin inside
  /\ arrivals' = arrivals + 1
  /\ inside' = inside \cup {t}

Pass(t) ==
  /\ t \in inside
  /\ arrivals >= Threshold
  /\ inside' = inside \ {t}
  /\ UNCHANGED arrivals

Next == \E t \in Threads : Arrive(t) \/ Pass(t)

Spec == Init /\ [][Next]_vars
=============================================================================
