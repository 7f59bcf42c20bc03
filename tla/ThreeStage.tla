----------------------------- MODULE ThreeStage -----------------------------
(***************************************************************************)
(* The pipeline of run10/ThreeStage.cpp: producers put messages on p2tq,   *)
(* the transmitter packs them into blocks on t2rq, the receiver unpacks    *)
(* each block into one queue per consumer. A producer closes its stream    *)
(* with a message of sequence -1; the transmitter and the receiver stop at *)
(* the last of these.                                                      *)
(*                                                                         *)
(* Each queue is a MsgQueue used through the operations of BoundedQueue,   *)
(* which MsgQueue implements: every wait here is INFINITE, so a get or a   *)
(* put is one step, enabled when the queue holds a message or has room for *)
(* one. A queue of n slots holds n - 1 messages.                           *)
(*                                                                         *)
(* main stores the consumers' handles in produceThreadArray, overwrites    *)
(* them with the producers' handles and waits on consumerThreadArray,      *)
(* which was never written (lines 87, 91, 109): that wait may end at any   *)
(* time. Every thread is taken to be running from the start.               *)
(***************************************************************************)
EXTENDS Integers, Sequences, FiniteSets, SequencesExt

CONSTANTS Ids,       \* thread numbers: producer i feeds consumer i
          Goal,      \* workGoal
          TBlock,    \* TBLOCK_SIZE
          P2TQLen, T2RQLen, R2CQLen

NProducers == Cardinality(Ids)

ASSUME PipelineAssumption ==
  /\ IsFiniteSet(Ids) /\ Ids # {}
  /\ Goal \in Nat /\ TBlock \in Nat \ {0}
  /\ {P2TQLen, T2RQLen, R2CQLen} \subseteq Nat \ {0, 1}

VARIABLES
  p2tq,       \* messages, oldest first
  t2rq,       \* blocks of messages
  r2cq,       \* r2cq[i]: messages for consumer i
  pDone, pPc, \* producers: workDone and progress
  tBlock, tLeft, tPc,  \* transmitter: t2r_msg, nProducers, progress
  rBlock, rLeft, rPc,  \* receiver: the rest of t2r_msg, nProducers, progress
  cDone, cPc, \* consumers: workDone and progress
  shutDown,   \* ShutDown
  mainPc      \* progress of main

queues == <<p2tq, t2rq, r2cq>>
producers == <<pDone, pPc>>
transmitter == <<tBlock, tLeft, tPc>>
receiver == <<rBlock, rLeft, rPc>>
consumers == <<cDone, cPc>>
main == <<shutDown, mainPc>>
vars == <<queues, producers, transmitter, receiver, consumers, main>>

EndMark == -1
Msg == [destination : Ids, sequence : EndMark .. Goal - 1]

TypeOK ==
  /\ p2tq \in Seq(Msg) /\ Len(p2tq) < P2TQLen
  /\ t2rq \in Seq(Seq(Msg)) /\ Len(t2rq) < T2RQLen
  /\ r2cq \in [Ids -> Seq(Msg)] /\ \A i \in Ids : Len(r2cq[i]) < R2CQLen
  /\ pDone \in [Ids -> 0 .. Goal] /\ pPc \in [Ids -> {"running", "exited"}]
  /\ tBlock \in Seq(Msg) /\ Len(tBlock) <= TBlock /\ tLeft \in 0 .. NProducers
  /\ rBlock \in Seq(Msg) /\ Len(rBlock) <= TBlock /\ rLeft \in 0 .. NProducers
  /\ tPc \in {"test", "get", "put", "exited"}
  /\ rPc \in {"test", "get", "put", "exited"}
  /\ cDone \in [Ids -> 0 .. Goal] /\ cPc \in [Ids -> {"running", "exited"}]
  /\ shutDown \in BOOLEAN
  /\ mainPc \in {"producers", "consumers", "stages", "destroyed", "exited", "crashed"}

Init ==
  /\ p2tq = <<>> /\ t2rq = <<>> /\ r2cq = [i \in Ids |-> <<>>]
  /\ pDone = [i \in Ids |-> 0] /\ pPc = [i \in Ids |-> "running"]
  /\ tBlock = <<>> /\ tLeft = NProducers /\ tPc = "test"
  /\ rBlock = <<>> /\ rLeft = NProducers /\ rPc = "test"
  /\ cDone = [i \in Ids |-> 0] /\ cPc = [i \in Ids |-> "running"]
  /\ shutDown = FALSE /\ mainPc = "producers"

-----------------------------------------------------------------------------
(* Producer *)

Message(i, n) == [destination |-> i, sequence |-> n]

(* One unit too many. *)
ProducePastGoal(i) ==
  /\ pPc[i] = "running" /\ pDone[i] <= Goal
  /\ Len(p2tq) < P2TQLen - 1
  /\ p2tq' = Append(p2tq, Message(i, pDone[i]))
  /\ pDone' = [pDone EXCEPT ![i] = @ + 1]
  /\ UNCHANGED <<t2rq, r2cq, pPc, transmitter, receiver, consumers, main>>

(* Lines 145 to 150. *)
Produce(i) ==
  /\ pPc[i] = "running" /\ pDone[i] < Goal
  /\ Len(p2tq) < P2TQLen - 1
  /\ p2tq' = Append(p2tq, Message(i, pDone[i]))
  /\ pDone' = [pDone EXCEPT ![i] = @ + 1]
  /\ UNCHANGED <<t2rq, r2cq, pPc, transmitter, receiver, consumers, main>>

(* Lines 152 to 154. *)
ProduceEnd(i) ==
  /\ pPc[i] = "running" /\ pDone[i] = Goal
  /\ Len(p2tq) < P2TQLen - 1
  /\ p2tq' = Append(p2tq, Message(i, EndMark))
  /\ pPc' = [pPc EXCEPT ![i] = "exited"]
  /\ UNCHANGED <<t2rq, r2cq, pDone, transmitter, receiver, consumers, main>>

-----------------------------------------------------------------------------
(* Transmitter *)

(* Lines 161 and 162. *)
TransmitterTest ==
  /\ tPc = "test"
  /\ tPc' = IF shutDown THEN "exited" ELSE "get"
  /\ tBlock' = <<>>
  /\ UNCHANGED <<queues, producers, tLeft, receiver, consumers, main>>

(* The producers still to end once message m has gone by. *)
LeftAfter(left, m) == IF m.sequence < 0 THEN left - 1 ELSE left

(* A block filled to the brim before the count is looked at. *)
TransmitterGetFull ==
  /\ tPc = "get" /\ p2tq # <<>>
  /\ p2tq' = Tail(p2tq)
  /\ tBlock' = Append(tBlock, Head(p2tq))
  /\ tLeft' = LeftAfter(tLeft, Head(p2tq))
  /\ tPc' = IF Len(tBlock') = TBlock THEN "put" ELSE "get"
  /\ UNCHANGED <<t2rq, r2cq, producers, receiver, consumers, main>>

(* One turn of lines 163 to 171. *)
TransmitterGet ==
  /\ tPc = "get" /\ p2tq # <<>>
  /\ p2tq' = Tail(p2tq)
  /\ tBlock' = Append(tBlock, Head(p2tq))
  /\ tLeft' = LeftAfter(tLeft, Head(p2tq))
  /\ tPc' = IF Len(tBlock') = TBlock \/ tLeft' = 0 THEN "put" ELSE "get"
  /\ UNCHANGED <<t2rq, r2cq, producers, receiver, consumers, main>>

(* The count looked at before the block is put. *)
TransmitterPutLate ==
  /\ tPc = "put"
  /\ IF tLeft = 0
       THEN tPc' = "exited" /\ UNCHANGED t2rq
       ELSE /\ Len(t2rq) < T2RQLen - 1
            /\ t2rq' = Append(t2rq, tBlock)
            /\ tPc' = "test"
  /\ tBlock' = <<>>
  /\ UNCHANGED <<p2tq, r2cq, producers, tLeft, receiver, consumers, main>>

(* Lines 172 to 174. *)
TransmitterPut ==
  /\ tPc = "put"
  /\ Len(t2rq) < T2RQLen - 1
  /\ t2rq' = Append(t2rq, tBlock)
  /\ tBlock' = <<>>
  /\ tPc' = IF tLeft = 0 THEN "exited" ELSE "test"
  /\ UNCHANGED <<p2tq, r2cq, producers, tLeft, receiver, consumers, main>>

-----------------------------------------------------------------------------
(* Receiver *)

(* Line 185. *)
ReceiverTest ==
  /\ rPc = "test"
  /\ rPc' = IF shutDown THEN "exited" ELSE "get"
  /\ UNCHANGED <<queues, producers, transmitter, rBlock, rLeft, consumers, main>>

(* Line 186. *)
ReceiverGet ==
  /\ rPc = "get" /\ t2rq # <<>>
  /\ t2rq' = Tail(t2rq)
  /\ rBlock' = Head(t2rq)
  /\ rPc' = "put"
  /\ UNCHANGED <<p2tq, r2cq, producers, transmitter, rLeft, consumers, main>>

(* The receiver leaving with the first end message it meets. *)
ReceiverPutFirstEnd ==
  /\ rPc = "put"
  /\ LET m == Head(rBlock) IN
       /\ Len(r2cq[m.destination]) < R2CQLen - 1
       /\ r2cq' = [r2cq EXCEPT ![m.destination] = Append(@, m)]
       /\ rBlock' = Tail(rBlock)
       /\ rLeft' = LeftAfter(rLeft, m)
  /\ rPc' = IF rLeft' < rLeft THEN "exited" ELSE IF rBlock' = <<>> THEN "test" ELSE "put"
  /\ UNCHANGED <<p2tq, t2rq, producers, transmitter, consumers, main>>

(* One turn of lines 189 to 198. *)
ReceiverPut ==
  /\ rPc = "put"
  /\ LET m == Head(rBlock) IN
       /\ Len(r2cq[m.destination]) < R2CQLen - 1
       /\ r2cq' = [r2cq EXCEPT ![m.destination] = Append(@, m)]
       /\ rBlock' = Tail(rBlock)
       /\ rLeft' = LeftAfter(rLeft, m)
  /\ rPc' = IF rLeft' = 0 THEN "exited" ELSE IF rBlock' = <<>> THEN "test" ELSE "put"
  /\ UNCHANGED <<p2tq, t2rq, producers, transmitter, consumers, main>>

-----------------------------------------------------------------------------
(* Consumer *)

Destroyed == mainPc = "destroyed"

(* A consumer that takes an empty queue for the end of its stream, as with *)
(* a finite wait and no look at the status.                                *)
ConsumeImpatient(i) ==
  /\ cPc[i] = "running" /\ cDone[i] < Goal
  /\ ~Destroyed
  /\ r2cq' = [r2cq EXCEPT ![i] = IF @ = <<>> THEN @ ELSE Tail(@)]
  /\ IF r2cq[i] = <<>> \/ Head(r2cq[i]).sequence < 0
       THEN cPc' = [cPc EXCEPT ![i] = "exited"] /\ UNCHANGED cDone
       ELSE cDone' = [cDone EXCEPT ![i] = @ + 1] /\ UNCHANGED cPc
  /\ UNCHANGED <<p2tq, t2rq, producers, transmitter, receiver, main>>

(* Lines 215 to 220. *)
Consume(i) ==
  /\ cPc[i] = "running" /\ cDone[i] < Goal
  /\ ~Destroyed
  /\ r2cq[i] # <<>>
  /\ r2cq' = [r2cq EXCEPT ![i] = Tail(@)]
  /\ IF Head(r2cq[i]).sequence < 0
       THEN cPc' = [cPc EXCEPT ![i] = "exited"] /\ UNCHANGED cDone
       ELSE cDone' = [cDone EXCEPT ![i] = @ + 1] /\ UNCHANGED cPc
  /\ UNCHANGED <<p2tq, t2rq, producers, transmitter, receiver, main>>

(* Line 222; the end message stays in the queue. *)
ConsumerDone(i) ==
  /\ cPc[i] = "running" /\ cDone[i] = Goal
  /\ cPc' = [cPc EXCEPT ![i] = "exited"]
  /\ UNCHANGED <<queues, producers, transmitter, receiver, cDone, main>>

(* A consumer whose queue is destroyed: its QueueGet answers 1, spins      *)
(* for ever, or copies from the freed array.                               *)
ConsumerOfDestroyed(i) ==
  /\ cPc[i] = "running" /\ cDone[i] < Goal
  /\ Destroyed
  /\ \/ cPc' = [cPc EXCEPT ![i] = "exited"] /\ UNCHANGED mainPc
     \/ mainPc' = "crashed" /\ UNCHANGED cPc
  /\ UNCHANGED <<queues, producers, transmitter, receiver, cDone, shutDown>>

-----------------------------------------------------------------------------
(* main *)

(* Lines 99 to 105. *)
JoinProducers ==
  /\ mainPc = "producers"
  /\ \A i \in Ids : pPc[i] = "exited"
  /\ mainPc' = "consumers"
  /\ UNCHANGED <<queues, producers, transmitter, receiver, consumers, shutDown>>

(* Lines 107 to 113: the handles waited on are not those of the consumers. *)
JoinConsumers ==
  /\ mainPc = "consumers"
  /\ mainPc' = "stages"
  /\ shutDown' = TRUE
  /\ UNCHANGED <<queues, producers, transmitter, receiver, consumers>>

(* Lines 114 to 127. *)
JoinStages ==
  /\ mainPc = "stages"
  /\ tPc = "exited" /\ rPc = "exited"
  /\ mainPc' = "destroyed"
  /\ p2tq' = <<>> /\ t2rq' = <<>> /\ r2cq' = [i \in Ids |-> <<>>]
  /\ UNCHANGED <<producers, transmitter, receiver, consumers, shutDown>>

(* Line 133: the process ends, with every thread still in it. *)
MainReturns ==
  /\ mainPc = "destroyed"
  /\ mainPc' = "exited"
  /\ UNCHANGED <<queues, producers, transmitter, receiver, consumers, shutDown>>

-----------------------------------------------------------------------------
ProcessEnded == mainPc \in {"exited", "crashed"}

Transmit == TransmitterTest \/ TransmitterGet \/ TransmitterPut
Receive == ReceiverTest \/ ReceiverGet \/ ReceiverPut

(* The process has ended, or main waits for a stage that waits for the     *)
(* other one, which has seen ShutDown and left: ShutDown is not looked at  *)
(* inside QueueGet and QueuePut.                                           *)
Stopped ==
  /\ \/ ProcessEnded
     \/ /\ mainPc = "stages"
        /\ \/ tPc = "exited" /\ rPc = "get" /\ t2rq = <<>>
           \/ rPc = "exited" /\ tPc = "put" /\ Len(t2rq) = T2RQLen - 1
  /\ UNCHANGED vars

Next ==
  \/ /\ ~ProcessEnded
     /\ \/ \E i \in Ids : Produce(i) \/ ProduceEnd(i)
        \/ Transmit \/ Receive
        \/ \E i \in Ids : Consume(i) \/ ConsumerDone(i) \/ ConsumerOfDestroyed(i)
        \/ JoinProducers \/ JoinConsumers \/ JoinStages \/ MainReturns
  \/ Stopped

(* The scheduler runs every ready thread, and a queue whose condition      *)
(* stays true serves a caller (LostPulseHarmless of MsgQueue). Weak        *)
(* fairness is enough for producers that compete for p2tq, because each    *)
(* sends a finite stream. Nothing is assumed of main's wait on the handles *)
(* it never stored.                                                        *)
Fairness ==
  /\ \A i \in Ids : /\ WF_vars(~ProcessEnded /\ (Produce(i) \/ ProduceEnd(i)))
                    /\ WF_vars(~ProcessEnded /\ (Consume(i) \/ ConsumerDone(i)))
  /\ WF_vars(~ProcessEnded /\ Transmit)
  /\ WF_vars(~ProcessEnded /\ Receive)

Spec == Init /\ [][Next]_vars
FairSpec == Spec /\ Fairness

-----------------------------------------------------------------------------
(* The messages of s for consumer i, in their order. *)
For(i, s) ==
  LET upTo[n \in 0 .. Len(s)] ==
        IF n = 0 THEN <<>>
        ELSE IF s[n].destination = i THEN Append(upTo[n - 1], s[n]) ELSE upTo[n - 1]
  IN upTo[Len(s)]

(* What is on its way from producer i to consumer i, next to arrive first. *)
InFlight(i) == r2cq[i] \o For(i, rBlock \o FlattenSeq(t2rq) \o tBlock \o p2tq)

(* What is left of the stream of producer i after the cDone[i] units its   *)
(* consumer has taken.                                                     *)
Outstanding(i) ==
  [n \in 1 .. pDone[i] - cDone[i] |-> Message(i, cDone[i] + n - 1)]
    \o IF pPc[i] = "exited" THEN <<Message(i, EndMark)>> ELSE <<>>

(* Until the queues are destroyed every message of every producer is in    *)
(* exactly one place and in its order, through all packing into blocks and *)
(* unpacking, and also when ShutDown cuts the pipeline: the units a        *)
(* consumer has counted are the first ones of its own producer.            *)
NothingLostOrReordered ==
  mainPc \in {"producers", "consumers", "stages"} =>
    \A i \in Ids : InFlight(i) = Outstanding(i)

(* The two counts of producers still to end, which are what keeps the      *)
(* transmitter and the receiver from waiting for a message that never      *)
(* comes: a stage leaves before ShutDown only when its count has run out,  *)
(* by then all its input has passed, and none waits with a count of zero.  *)
StagesEndWithTheirInput ==
  /\ tPc \in {"test", "get"} => tLeft > 0
  /\ rPc \in {"test", "get"} => rLeft > 0
  /\ tPc = "exited" => shutDown \/ tLeft = 0
  /\ rPc = "exited" => shutDown \/ rLeft = 0
  /\ tPc = "exited" /\ tLeft = 0 => p2tq = <<>> /\ \A i \in Ids : pPc[i] = "exited"
  /\ rPc = "exited" /\ rLeft = 0 =>
       /\ t2rq = <<>> /\ rBlock = <<>>
       /\ tPc = "exited" /\ tLeft = 0

(* The three bounded queues in a row do not wedge: every producer delivers *)
(* its goal and its end message, although consumers stop at their goal and *)
(* leave the end message in their queue.                                   *)
ProducersFinish == <>(\A i \in Ids : pPc[i] = "exited")

(* Unless main shuts the pipeline down first, each consumer gets its goal. *)
GoalsReached == <>(shutDown \/ \A i \in Ids : cDone[i] = Goal)

(* main reports "all consumers have completed their work" (line 112) and   *)
(* goes on to shut down when they have.                                    *)
ConsumersCompleted ==
  mainPc \in {"stages", "destroyed"} => \A i \in Ids : cPc[i] = "exited"
=============================================================================
