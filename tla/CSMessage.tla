----------------------------- MODULE CSMessage -----------------------------
(***************************************************************************)
(* The message functions of run12/SendReceiveSKHA.cpp over one connection. *)
(* A message travels as its characters and an end mark, in pieces of any   *)
(* size. The receiver keeps what follows an end mark for the next call.    *)
(* Each byte that arrives without an end mark is taken twice from what the *)
(* call may still receive (lines 78 and 86), so a call may return before   *)
(* the end of its message.                                                 *)
(*                                                                         *)
(* Only whether a byte is the end mark matters to the functions; characters *)
(* are numbered in the order sent so that a lost or misplaced one is seen. *)
(***************************************************************************)
EXTENDS Naturals, Sequences, SequencesExt

CONSTANTS
  BufLen,      \* MAX_RQRS_LEN
  MaxMessage,  \* MAX_MESSAGE_LEN
  Batches      \* the sequences of message lengths that a peer may send

End == 0

VARIABLES
  toSend,       \* lengths of the messages not yet passed to SendCSMessage
  sending,      \* the bytes of the message that is being sent
  sent,         \* history: all bytes passed to SendCSMessage
  wire,         \* bytes on their way
  hungUp,       \* the sender has closed the connection
  staticBuff,   \* what the socket handle keeps
  message,      \* the message of the call in progress
  nRemainRecv,  \* what the call may still receive, 0 between calls
  delivered,    \* history: the messages returned
  connected     \* no call has returned FALSE

msgVars == <<toSend, sending, sent, wire, hungUp, staticBuff, message, nRemainRecv,
             delivered, connected>>

Bytes == Seq(Nat)

TypeOK ==
  /\ toSend \in Seq(Nat) /\ sending \in Bytes /\ sent \in Bytes /\ wire \in Bytes
  /\ hungUp \in BOOLEAN /\ connected \in BOOLEAN
  /\ staticBuff \in Bytes /\ Len(staticBuff) < BufLen
  /\ message \in Bytes /\ nRemainRecv \in 0 .. BufLen
  /\ delivered \in Seq(Bytes)

(* CreateCSSocketHandle, with a batch of messages to come. *)
Init ==
  /\ toSend \in Batches
  /\ sending = <<>> /\ sent = <<>> /\ wire = <<>> /\ hungUp = FALSE
  /\ staticBuff = <<>> /\ message = <<>> /\ nRemainRecv = 0
  /\ delivered = <<>> /\ connected = TRUE

-----------------------------------------------------------------------------
(* SendCSMessage *)

(* Line 111: strlen + 1 bytes, cut at MAX_MESSAGE_LEN. *)
Encoded(length) ==
  LET bytes == length + 1 IN
  [i \in 1 .. (IF bytes < MaxMessage THEN bytes ELSE MaxMessage) |->
     IF i = bytes THEN End ELSE Len(sent) + i]

BeginSend ==
  /\ sending = <<>> /\ toSend # <<>>
  /\ toSend' = Tail(toSend)
  /\ sending' = Encoded(Head(toSend))
  /\ sent' = sent \o sending'
  /\ UNCHANGED <<wire, hungUp, staticBuff, message, nRemainRecv, delivered, connected>>

(* Lines 112 to 121: send takes any part of what remains. *)
Send ==
  /\ sending # <<>>
  /\ \E n \in 1 .. Len(sending) :
       /\ wire' = wire \o SubSeq(sending, 1, n)
       /\ sending' = SubSeq(sending, n + 1, Len(sending))
  /\ UNCHANGED <<toSend, sent, hungUp, staticBuff, message, nRemainRecv, delivered, connected>>

HangUp ==
  /\ sending = <<>> /\ ~hungUp
  /\ hungUp' = TRUE
  /\ UNCHANGED <<toSend, sending, sent, wire, staticBuff, message, nRemainRecv, delivered, connected>>

-----------------------------------------------------------------------------
(* ReceiveCSMessage *)

HasEnd(bytes) == \E i \in DOMAIN bytes : bytes[i] = End
EndAt(bytes) == CHOOSE i \in DOMAIN bytes : bytes[i] = End /\ \A j \in 1 .. i - 1 : bytes[j] # End
UpToEnd(bytes) == SubSeq(bytes, 1, EndAt(bytes))
AfterEnd(bytes) == SubSeq(bytes, EndAt(bytes) + 1, Len(bytes))

(* Lines 53 to 69: the kept bytes hold a message, or the start of one. *)
BeginReceive ==
  /\ connected /\ nRemainRecv = 0
  /\ IF HasEnd(staticBuff)
     THEN /\ delivered' = Append(delivered, UpToEnd(staticBuff))
          /\ staticBuff' = AfterEnd(staticBuff)
          /\ UNCHANGED <<message, nRemainRecv>>
     ELSE /\ message' = staticBuff
          /\ nRemainRecv' = BufLen - Len(staticBuff)
          /\ staticBuff' = <<>>
          /\ UNCHANGED delivered
  /\ UNCHANGED <<toSend, sending, sent, wire, hungUp, connected>>

(* A bug of that kind: what follows the end mark is not kept. *)
TakeForgetting(bytes) ==
  IF HasEnd(bytes)
  THEN /\ delivered' = Append(delivered, message \o UpToEnd(bytes))
       /\ UNCHANGED staticBuff
       /\ message' = <<>> /\ nRemainRecv' = 0
  ELSE LET left == nRemainRecv - 2 * Len(bytes) IN
       /\ nRemainRecv' = IF left > 0 THEN left ELSE 0
       /\ message' = IF left > 0 THEN message \o bytes ELSE <<>>
       /\ delivered' = IF left > 0 THEN delivered ELSE Append(delivered, message \o bytes)
       /\ UNCHANGED staticBuff

(* Lines 78 to 94, and 97 when the loop ends. *)
Take(bytes) ==
  IF HasEnd(bytes)
  THEN /\ delivered' = Append(delivered, message \o UpToEnd(bytes))
       /\ staticBuff' = AfterEnd(bytes)
       /\ message' = <<>> /\ nRemainRecv' = 0
  ELSE LET left == nRemainRecv - 2 * Len(bytes) IN
       /\ nRemainRecv' = IF left > 0 THEN left ELSE 0
       /\ message' = IF left > 0 THEN message \o bytes ELSE <<>>
       /\ delivered' = IF left > 0 THEN delivered ELSE Append(delivered, message \o bytes)
       /\ UNCHANGED staticBuff

(* Lines 71 to 77: recv returns any part of what has arrived, or the end   *)
(* of the connection when nothing more will.                               *)
Recv ==
  /\ nRemainRecv > 0 /\ connected
  /\ \/ /\ wire # <<>>
        /\ \E n \in 1 .. (IF Len(wire) < nRemainRecv THEN Len(wire) ELSE nRemainRecv) :
             /\ Take(SubSeq(wire, 1, n))
             /\ wire' = SubSeq(wire, n + 1, Len(wire))
        /\ UNCHANGED connected
     \/ /\ wire = <<>> /\ hungUp
        /\ connected' = FALSE
        /\ UNCHANGED <<wire, staticBuff, message, nRemainRecv, delivered>>
  /\ UNCHANGED <<toSend, sending, sent, hungUp>>

Next == BeginSend \/ Send \/ HangUp \/ BeginReceive \/ Recv

Spec == Init /\ [][Next]_msgVars /\ WF_msgVars(BeginSend \/ Send) /\ WF_msgVars(Recv \/ BeginReceive)

-----------------------------------------------------------------------------
(* No byte is lost, repeated or reordered, however the stream is cut: what *)
(* was returned, what the call in progress has, what the handle keeps and  *)
(* what is on its way make up what was sent.                               *)
StreamIntact ==
  sent = FlattenSeq(delivered) \o message \o staticBuff \o wire \o sending

(* A message of fewer characters than half of the buffer is returned whole *)
(* and alone, in whatever pieces it arrives.                               *)
ShortMessagesWhole ==
  \A i \in DOMAIN delivered :
    LET before == FlattenSeq(SubSeq(delivered, 1, i - 1))
        rest == SubSeq(sent, Len(before) + 1, Len(sent))
        starts == before = <<>> \/ Last(before) = End IN
    (starts /\ HasEnd(rest) /\ 2 * (EndAt(rest) - 1) < BufLen) => delivered[i] = UpToEnd(rest)
=============================================================================
