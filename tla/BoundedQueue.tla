---------------------------- MODULE BoundedQueue ----------------------------
(***************************************************************************)
(* What a message queue of run10 promises to its callers, without mutexes, *)
(* events, timeouts or ring indexes: a first-in first-out buffer of a      *)
(* fixed capacity, from which every message put comes out exactly once.    *)
(*                                                                         *)
(* hand[c] is the message client c holds: the one it is putting, or the    *)
(* one a get has just handed to it.                                        *)
(***************************************************************************)
EXTENDS Naturals, Sequences

CONSTANTS Putters,   \* the threads that call QueuePut
          Getters,   \* the threads that call QueueGet
          Msgs,      \* message values
          Capacity,  \* messages the queue can hold
          None       \* no message

VARIABLES contents,  \* the messages in the queue, oldest first
          hand,      \* hand[c]: the message in the hands of client c
          open       \* FALSE once the queue is destroyed

vars == <<contents, hand, open>>

Clients == Putters \cup Getters

Init ==
  /\ contents = <<>>
  /\ hand = [c \in Clients |-> None]
  /\ open = TRUE

(* A putter takes up a message to put. *)
Offer(c) ==
  /\ hand[c] = None
  /\ \E m \in Msgs : hand' = [hand EXCEPT ![c] = m]
  /\ UNCHANGED <<contents, open>>

(* The message of c enters at the back, if there is room. *)
Put(c) ==
  /\ open
  /\ hand[c] # None
  /\ Len(contents) < Capacity
  /\ contents' = Append(contents, hand[c])
  /\ hand' = [hand EXCEPT ![c] = None]
  /\ UNCHANGED open

(* The oldest message leaves to c. *)
Get(c) ==
  /\ open
  /\ hand[c] = None
  /\ contents # <<>>
  /\ contents' = Tail(contents)
  /\ hand' = [hand EXCEPT ![c] = Head(contents)]
  /\ UNCHANGED open

(* A putter gives up (timeout, destroyed queue); a getter uses its message. *)
LetGo(c) ==
  /\ hand' = [hand EXCEPT ![c] = None]
  /\ UNCHANGED <<contents, open>>

(* Destroying the queue drops what it holds. *)
Destroy ==
  /\ open' = FALSE
  /\ contents' = <<>>
  /\ UNCHANGED hand

Next ==
  \/ \E c \in Putters : Offer(c) \/ Put(c)
  \/ \E c \in Getters : Get(c)
  \/ \E c \in Clients : LetGo(c)
  \/ Destroy

Spec == Init /\ [][Next]_vars
=============================================================================
