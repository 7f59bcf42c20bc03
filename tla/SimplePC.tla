------------------------------ MODULE SimplePC ------------------------------
(***************************************************************************)
(* The producer and the consumer of run8/simplePC.cpp, which polls one     *)
(* message block. The block is guarded by a critical section, fStop is not. *)
(***************************************************************************)
EXTENDS Integers

CONSTANT Wrap  \* number of values of a DWORD, 2^32

VARIABLES
  mBlock,    \* the message block; data is the message in it
  produce,   \* where Produce is
  consume,   \* where Consume is
  replaced   \* history: messages replaced before they were displayed, modulo Wrap

pcVars == <<mBlock, produce, consume, replaced>>

DWord == 0 .. Wrap - 1

TypeOK ==
  /\ mBlock \in [fReady : BOOLEAN, fStop : BOOLEAN, nCons : DWord, mSequence : DWord,
                 nLost : DWord, data : {"none", "partial", "new", "displayed"}]
  /\ produce \in {"test", "enter", "fill", "ended"}
  /\ consume \in {"test", "consume", "ended"}
  /\ replaced \in DWord

Init ==
  /\ mBlock = [fReady |-> FALSE, fStop |-> FALSE, nCons |-> 0, mSequence |-> 0,
               nLost |-> 0, data |-> "none"]
  /\ produce = "test" /\ consume = "test"
  /\ replaced = 0

(* Lines 50 and 51. *)
Test ==
  /\ produce = "test"
  /\ produce' = IF mBlock.fStop THEN "ended" ELSE "enter"
  /\ UNCHANGED <<mBlock, consume, replaced>>

(* Lines 52 to 56 and 119 to 129: the section is held until the message is *)
(* complete.                                                               *)
MessageFill ==
  /\ produce = "enter"
  /\ IF mBlock.fStop
     THEN produce' = "test" /\ UNCHANGED <<mBlock, replaced>>
     ELSE /\ produce' = "fill"
          /\ mBlock' = [mBlock EXCEPT !.fReady = FALSE, !.data = "partial"]
          /\ replaced' = (replaced + (IF mBlock.data = "new" THEN 1 ELSE 0)) % Wrap
  /\ UNCHANGED consume

(* Lines 57 to 63. *)
Publish ==
  /\ produce = "fill"
  /\ produce' = "test"
  /\ mBlock' = [mBlock EXCEPT !.fReady = TRUE, !.data = "new",
                              !.mSequence = (@ + 1) % Wrap]
  /\ UNCHANGED <<consume, replaced>>

(* Lines 81 to 90 and 104: fStop is set while the section may be held. *)
Command ==
  /\ consume = "test"
  /\ \/ mBlock.fStop /\ consume' = "ended" /\ UNCHANGED mBlock
     \/ /\ ~mBlock.fStop
        /\ \/ mBlock' = [mBlock EXCEPT !.fStop = TRUE] /\ UNCHANGED consume
           \/ consume' = "consume" /\ UNCHANGED mBlock
  /\ UNCHANGED <<produce, replaced>>

(* A bug of that kind: the message stays ready. *)
ConsumeAgain ==
  /\ consume = "consume" /\ produce # "fill"
  /\ mBlock' = IF mBlock.fReady
               THEN [mBlock EXCEPT !.nLost = (mBlock.mSequence - mBlock.nCons) % Wrap,
                                   !.data = "displayed", !.nCons = (@ + 1) % Wrap]
               ELSE mBlock
  /\ consume' = "test"
  /\ UNCHANGED <<produce, replaced>>

(* Lines 89 to 102 and 131 to 144. *)
Consume ==
  /\ consume = "consume" /\ produce # "fill"
  /\ mBlock' = IF mBlock.fReady
               THEN [mBlock EXCEPT !.nLost = (mBlock.mSequence - mBlock.nCons) % Wrap,
                                   !.fReady = FALSE,
                                   !.data = "displayed", !.nCons = (@ + 1) % Wrap]
               ELSE mBlock
  /\ consume' = "test"
  /\ UNCHANGED <<produce, replaced>>

Produce == Test \/ MessageFill \/ Publish

Next == Produce \/ Command \/ Consume

Fairness == WF_pcVars(Produce) /\ SF_pcVars(Consume)

Spec == Init /\ [][Next]_pcVars /\ Fairness

-----------------------------------------------------------------------------
(* The consumer displays complete messages, each once; nLost counts one    *)
(* more than were replaced, and the difference printed at the end          *)
(* (lines 41 and 42) counts a message still ready as lost.                 *)
CountsExact ==
  /\ mBlock.fReady <=> mBlock.data = "new"
  /\ mBlock.data = "displayed" => mBlock.nLost = (replaced + 1) % Wrap
  /\ produce # "fill" =>
       (mBlock.mSequence - mBlock.nCons) % Wrap
         = (replaced + (IF mBlock.fReady THEN 1 ELSE 0)) % Wrap

(* When the user stops the consumer, the producer ends too. *)
StopEndsBoth == mBlock.fStop ~> (produce = "ended")
=============================================================================
