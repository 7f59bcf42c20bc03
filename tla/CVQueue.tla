------------------------------ MODULE CVQueue ------------------------------
(***************************************************************************)
(* The queue of run10/QueueObjCV.cpp, guarded by a critical section, with  *)
(* one condition variable for the threads that wait for a message and one  *)
(* for those that wait for room. Sleeping gives up the section, so what a  *)
(* thread does in it between two sleeps is one step. A waiter may wake up  *)
(* without a call to wake it, as the system allows.                        *)
(*                                                                         *)
(* The contents of the messages are left out: QueueRemove computes the     *)
(* address of a message with a + for a * (line 68). Line 60 lacks its      *)
(* first parenthesis.                                                      *)
(***************************************************************************)
EXTENDS Integers, FiniteSets

CONSTANTS
  Threads,  \* threads that call QueueGet and QueuePut
  Sizes     \* values of nMsgs

ASSUME CVConstants == IsFiniteSet(Threads) /\ Sizes \subseteq Nat \ {0}

VARIABLES
  msgArray,      \* the array is allocated
  qFirst, qLast,
  qSize,
  waiter         \* what each thread is doing

cvVars == <<msgArray, qFirst, qLast, qSize, waiter>>

Waiters(state) == {t \in Threads : waiter[t] = state}

TypeOK ==
  /\ msgArray \in BOOLEAN
  /\ qSize \in Sizes
  /\ qFirst \in 0 .. qSize - 1 /\ qLast \in 0 .. qSize - 1
  /\ waiter \in [Threads -> {"none", "qNe", "getAgain", "qNf", "putAgain"}]

Init ==
  /\ msgArray = FALSE
  /\ qFirst = 0 /\ qLast = 0 /\ qSize \in Sizes
  /\ waiter = [t \in Threads |-> "none"]

QueueEmpty == qFirst = qLast
QueueFull == qFirst - qLast = 1 \/ (qLast = qSize - 1 /\ qFirst = 0)

QueueRemove == qFirst' = (qFirst + 1) % qSize

(* A bug of that kind: the end of the array is not minded. *)
QueueInsertOn == qLast' = qLast + 1

QueueInsert == qLast' = (qLast + 1) % qSize

(* The caller goes on, and one of the threads asleep tests again. *)
WakeConditionVariable(t, cv, woken) ==
  IF Waiters(cv) = {}
  THEN waiter' = [waiter EXCEPT ![t] = "none"]
  ELSE \E u \in Waiters(cv) : waiter' = [waiter EXCEPT ![t] = "none", ![u] = woken]

(* A bug of that kind: the thread that waits for room is not woken. *)
QueueGetSilently(t) ==
  /\ msgArray /\ waiter[t] \in {"none", "getAgain"}
  /\ IF QueueEmpty
     THEN waiter' = [waiter EXCEPT ![t] = "qNe"] /\ UNCHANGED qFirst
     ELSE QueueRemove /\ waiter' = [waiter EXCEPT ![t] = "none"]
  /\ UNCHANGED <<msgArray, qLast, qSize>>

QueueGet(t) ==
  /\ msgArray /\ waiter[t] \in {"none", "getAgain"}
  /\ IF QueueEmpty
     THEN waiter' = [waiter EXCEPT ![t] = "qNe"] /\ UNCHANGED qFirst
     ELSE QueueRemove /\ WakeConditionVariable(t, "qNf", "putAgain")
  /\ UNCHANGED <<msgArray, qLast, qSize>>

QueuePut(t) ==
  /\ msgArray /\ waiter[t] \in {"none", "putAgain"}
  /\ IF QueueFull
     THEN waiter' = [waiter EXCEPT ![t] = "qNf"] /\ UNCHANGED qLast
     ELSE QueueInsert /\ WakeConditionVariable(t, "qNe", "getAgain")
  /\ UNCHANGED <<msgArray, qFirst, qSize>>

WakeSpuriously(t) ==
  /\ \/ waiter[t] = "qNe" /\ waiter' = [waiter EXCEPT ![t] = "getAgain"]
     \/ waiter[t] = "qNf" /\ waiter' = [waiter EXCEPT ![t] = "putAgain"]
  /\ UNCHANGED <<msgArray, qFirst, qLast, qSize>>

(* No thread may be in a call, for which the functions leave it to their   *)
(* caller to care.                                                         *)
QueueDestroy ==
  /\ msgArray /\ \A t \in Threads : waiter[t] = "none"
  /\ msgArray' = FALSE
  /\ UNCHANGED <<qFirst, qLast, qSize, waiter>>

QueueIntialize(nMsgs) ==
  /\ ~msgArray
  /\ qFirst' = 0 /\ qLast' = 0
  /\ qSize' = nMsgs
  /\ msgArray' = TRUE
  /\ UNCHANGED waiter

Next ==
  \/ \E t \in Threads : QueueGet(t) \/ QueuePut(t) \/ WakeSpuriously(t)
  \/ QueueDestroy
  \/ \E nMsgs \in Sizes : QueueIntialize(nMsgs)

Spec == Init /\ [][Next]_cvVars

-----------------------------------------------------------------------------
Messages == IF qFirst <= qLast THEN qLast - qFirst ELSE qLast - qFirst + qSize
Room == qSize - 1 - Messages

(* No wake-up is lost: while a thread sleeps, as many threads are on their *)
(* way to the section as there are messages to get, and as there is room   *)
(* to put into.                                                            *)
SleepersWoken ==
  /\ Waiters("qNe") # {} => Cardinality(Waiters("getAgain")) >= Messages
  /\ Waiters("qNf") # {} => Cardinality(Waiters("putAgain")) >= Room
=============================================================================
