------------------------------ MODULE EventPC ------------------------------
(***************************************************************************)
(* The producer and the consumer of run8/eventPC.cpp share one message     *)
(* block, guarded by a mutex. The producer overwrites the message whether  *)
(* or not it was consumed and sets an auto-reset event; a user types the   *)
(* consumer's commands. The event is set by each message and reset by each *)
(* wait, so it may announce a message that is gone, which fReady tells.    *)
(*                                                                         *)
(* fStop is read by the producer and set by nobody: the stop command       *)
(* computes fStop - 1 (line 77) and ends the consumer only.                *)
(***************************************************************************)
EXTENDS Integers

CONSTANT Wrap  \* number of values of a DWORD, 2^32

ASSUME WrapAssumption == Wrap \in Nat /\ Wrap > 1

VARIABLES
  mGuard,       \* owner of the mutex, "none" when it is signalled
  mReady,       \* the auto-reset event is signalled
  fReady,       \* a message waits to be consumed
  fStop,        \* DWORD
  nCons,        \* messages consumed, DWORD
  mSequence,    \* messages produced, DWORD
  nLost,        \* messages known to be lost, DWORD
  block,        \* the message: never filled, half filled, new or displayed
  pc,           \* where each thread is
  command,      \* what the user typed last
  shutDown,     \* ShutDown of Consume, DWORD
  joining,      \* the thread main waits for
  overwritten   \* history: new messages overwritten, modulo Wrap

stop == <<fStop, shutDown>>
counts == <<nCons, mSequence, nLost, overwritten>>
vars == <<mGuard, mReady, fReady, stop, counts, block, pc, command, joining>>

Threads == {"producer", "consumer"}

DWord == 0 .. Wrap - 1
Plus(a, b) == (a + b) % Wrap
Minus(a, b) == (a - b) % Wrap

(* The points at which each thread owns the mutex. *)
Owning == {"check", "fill", "display", "stop", "release"}

TypeOK ==
  /\ mGuard \in Threads \cup {"none"}
  /\ mReady \in BOOLEAN /\ fReady \in BOOLEAN
  /\ fStop \in DWord /\ shutDown \in DWord
  /\ nCons \in DWord /\ mSequence \in DWord /\ nLost \in DWord
  /\ overwritten \in DWord
  /\ block \in {"none", "partial", "new", "displayed"}
  /\ pc \in [Threads -> Owning \cup {"test", "prompt", "event", "lock", "ended"}]
  /\ command \in {"c", "s"}
  /\ joining \in Threads \cup {"none"}

Init ==
  /\ mGuard = "none" /\ mReady = FALSE /\ fReady = FALSE
  /\ fStop = 0 /\ shutDown = 0
  /\ nCons = 0 /\ mSequence = 0 /\ nLost = 0 /\ overwritten = 0
  /\ block = "none"
  /\ pc = [t \in Threads |-> IF t = "producer" THEN "test" ELSE "prompt"]
  /\ command = "c"
  /\ joining = "consumer"

At(t, l) == pc[t] = l
Goto(t, l) == pc' = [pc EXCEPT ![t] = l]

(* Lines 50, 76 and 82. *)
Lock(t) ==
  /\ At(t, "lock")
  /\ mGuard = "none"
  /\ mGuard' = t
  /\ Goto(t, IF t = "consumer" /\ command = "s" THEN "stop" ELSE "check")
  /\ UNCHANGED <<mReady, fReady, stop, counts, block, command, joining>>

-----------------------------------------------------------------------------
(* Produce *)

(* Line 48. *)
Test ==
  /\ At("producer", "test")
  /\ Goto("producer", IF fStop = 0 THEN "lock" ELSE "ended")
  /\ UNCHANGED <<mGuard, mReady, fReady, stop, counts, block, command, joining>>

(* Lines 52 to 54: the old message is being overwritten. *)
Fill ==
  /\ At("producer", "check")
  /\ IF fStop = 0
       THEN /\ Goto("producer", "fill")
            /\ fReady' = FALSE
            /\ block' = "partial"
            /\ overwritten' = Plus(overwritten, IF block = "new" THEN 1 ELSE 0)
       ELSE Goto("producer", "release") /\ UNCHANGED <<fReady, block, overwritten>>
  /\ UNCHANGED <<mGuard, mReady, stop, nCons, mSequence, nLost, command, joining>>

(* The event set only when the consumer has kept up. *)
PublishWhenCaughtUp ==
  /\ At("producer", "fill")
  /\ Goto("producer", "release")
  /\ block' = "new"
  /\ fReady' = TRUE
  /\ mSequence' = Plus(mSequence, 1)
  /\ mReady' = (mReady \/ mSequence = nCons)
  /\ UNCHANGED <<mGuard, stop, nCons, nLost, overwritten, command, joining>>

(* Lines 54 to 57: the message is complete. *)
Publish ==
  /\ At("producer", "fill")
  /\ Goto("producer", "release")
  /\ block' = "new"
  /\ fReady' = TRUE
  /\ mSequence' = Plus(mSequence, 1)
  /\ mReady' = TRUE
  /\ UNCHANGED <<mGuard, stop, nCons, nLost, overwritten, command, joining>>

-----------------------------------------------------------------------------
(* Consume *)

(* Lines 73 to 80. *)
Command ==
  /\ At("consumer", "prompt")
  /\ command' \in {"c", "s"}
  /\ Goto("consumer", IF command' = "c" THEN "event" ELSE "lock")
  /\ UNCHANGED <<mGuard, mReady, fReady, stop, counts, block, joining>>

(* Line 81. *)
AwaitReady ==
  /\ At("consumer", "event")
  /\ mReady
  /\ mReady' = FALSE
  /\ Goto("consumer", "lock")
  /\ UNCHANGED <<mGuard, fReady, stop, counts, block, command, joining>>

(* The event taken for the message. *)
CheckNothing ==
  /\ At("consumer", "check")
  /\ Goto("consumer", "display")
  /\ UNCHANGED <<mGuard, mReady, fReady, stop, counts, block, command, joining>>

(* Leaving by a return, which skips the release of the mutex. *)
CheckKeepsMutex ==
  /\ At("consumer", "check")
  /\ Goto("consumer", IF fReady THEN "display" ELSE "prompt")
  /\ UNCHANGED <<mGuard, mReady, fReady, stop, counts, block, command, joining>>

(* Line 84. *)
Check ==
  /\ At("consumer", "check")
  /\ Goto("consumer", IF fReady THEN "display" ELSE "release")
  /\ UNCHANGED <<mGuard, mReady, fReady, stop, counts, block, command, joining>>

(* What is lost counted before the message at hand, as in simplePC.cpp. *)
DisplayCountFirst ==
  /\ At("consumer", "display")
  /\ Goto("consumer", "release")
  /\ block' = "displayed"
  /\ nLost' = Minus(mSequence, nCons)
  /\ nCons' = Plus(nCons, 1)
  /\ fReady' = FALSE
  /\ UNCHANGED <<mGuard, mReady, stop, mSequence, overwritten, command, joining>>

(* What is lost as a signed difference. *)
DisplaySigned ==
  /\ At("consumer", "display")
  /\ Goto("consumer", "release")
  /\ block' = "displayed"
  /\ nCons' = Plus(nCons, 1)
  /\ nLost' = mSequence - nCons'
  /\ fReady' = FALSE
  /\ UNCHANGED <<mGuard, mReady, stop, mSequence, overwritten, command, joining>>

(* Lines 85 to 88. *)
Display ==
  /\ At("consumer", "display")
  /\ Goto("consumer", "release")
  /\ block' = "displayed"
  /\ nCons' = Plus(nCons, 1)
  /\ nLost' = Minus(mSequence, nCons')
  /\ fReady' = FALSE
  /\ UNCHANGED <<mGuard, mReady, stop, mSequence, overwritten, command, joining>>

(* Line 77. *)
Stop ==
  /\ At("consumer", "stop")
  /\ Goto("consumer", "release")
  /\ shutDown' = Minus(fStop, 1)
  /\ UNCHANGED <<mGuard, mReady, fReady, fStop, counts, block, command, joining>>

(* Line 61; lines 78 and 91, and the test of the loop at line 72. *)
Release(t) ==
  /\ At(t, "release")
  /\ mGuard' = "none"
  /\ Goto(t, IF t = "producer" THEN "test"
             ELSE IF shutDown = 0 THEN "prompt" ELSE "ended")
  /\ UNCHANGED <<mReady, fReady, stop, counts, block, command, joining>>

(* main, lines 35 and 36. *)
Join ==
  /\ joining # "none"
  /\ At(joining, "ended")
  /\ joining' = IF joining = "consumer" THEN "producer" ELSE "none"
  /\ UNCHANGED <<mGuard, mReady, fReady, stop, counts, block, pc, command>>

-----------------------------------------------------------------------------
Producer == Test \/ Fill \/ Publish \/ Release("producer")
Consumer == AwaitReady \/ Check \/ Display \/ Stop \/ Release("consumer")

Next == Producer \/ Consumer \/ Command \/ Join \/ \E t \in Threads : Lock(t)

(* Both threads run and each gets the mutex again and again; the sleep of  *)
(* line 49 ends. The user need not type.                                   *)
Fairness ==
  /\ WF_vars(Producer) /\ WF_vars(Consumer) /\ WF_vars(Join)
  /\ \A t \in Threads : SF_vars(Lock(t))

Spec == Init /\ [][Next]_vars
FairSpec == Spec /\ Fairness

-----------------------------------------------------------------------------
(* What MessageDisplay shows is a complete message, so that its checksum   *)
(* is valid, and one that was not displayed before, although the event may *)
(* be left from an earlier message.                                        *)
DisplayedOnceAndWhole == At("consumer", "display") => block = "new"

(* A message that waits to be consumed is announced: the event is set, or  *)
(* the consumer has taken it and is on its way to the message. No message  *)
(* is missed between the test of fReady and the next wait.                 *)
ReadyIsAnnounced ==
  fReady => \/ mReady
            \/ command = "c" /\ pc["consumer"] \in {"lock", "check", "display"}

(* nLost counts exactly the messages overwritten before they were seen,    *)
(* also after the DWORD counters have wrapped around.                      *)
LostCountExact == [][nCons' # nCons => nLost' = overwritten']_vars

(* A consume command that waits for a message gets to its end.             *)
ConsumeCompletes == At("consumer", "event") ~> At("consumer", "prompt")

(* The prompt offers 's' to stop (line 73): after it the program ends.     *)
StopEndsProgram == At("consumer", "stop") ~> (joining = "none")
=============================================================================
