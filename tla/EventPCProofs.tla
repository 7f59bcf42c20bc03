--------------------------- MODULE EventPCProofs ---------------------------
(***************************************************************************)
(* The one-slot exchange of run8/eventPC.cpp for counters of any width.    *)
(*                                                                         *)
(* The argument: whoever looks at the block owns the mutex (GuardInv), the *)
(* flag fReady tells whether the block is new (FlagInv), and every message *)
(* produced is consumed, overwritten or still in the block (CountInv). The *)
(* sums are taken modulo Wrap, so the proof of CountInv first replaces %   *)
(* by a case distinction (PlusCases, MinusCases).                          *)
(***************************************************************************)
EXTENDS EventPC, TLAPS

GuardInv == \A t \in Threads : pc[t] \in Owning => mGuard = t

(* The points of each thread that the other one never reaches. *)
PlaceInv ==
  /\ pc["producer"] \notin {"prompt", "event", "display", "stop"}
  /\ pc["consumer"] \notin {"test", "fill"}
  /\ pc["consumer"] \in {"event", "check", "display"} => command = "c"

FlagInv ==
  /\ fReady <=> block = "new"
  /\ pc["consumer"] = "display" => fReady
  /\ pc["producer"] = "fill" => ~fReady

CountInv ==
  mSequence = Plus(Plus(nCons, overwritten), IF block = "new" THEN 1 ELSE 0)

IInv ==
  /\ TypeOK
  /\ GuardInv /\ PlaceInv /\ FlagInv /\ CountInv
  /\ ReadyIsAnnounced

-----------------------------------------------------------------------------
(* DWORD arithmetic without %. *)

LEMMA PlusCases ==
  ASSUME NEW a \in DWord, NEW b \in DWord
  PROVE  /\ Plus(a, b) \in DWord
         /\ Plus(a, b) = IF a + b < Wrap THEN a + b ELSE a + b - Wrap
  BY WrapAssumption DEF DWord, Plus

LEMMA MinusCases ==
  ASSUME NEW a \in DWord, NEW b \in DWord
  PROVE  /\ Minus(a, b) \in DWord
         /\ Minus(a, b) = IF b <= a THEN a - b ELSE a - b + Wrap
  BY WrapAssumption DEF DWord, Minus

LEMMA Small == 0 \in DWord /\ 1 \in DWord
  BY WrapAssumption DEF DWord

LEMMA PlusZero == \A a \in DWord : Plus(a, 0) = a
  BY PlusCases, Small, WrapAssumption DEF DWord

(* One message more lost by being overwritten. *)
LEMMA CountOverwritten ==
  ASSUME NEW c \in DWord, NEW o \in DWord
  PROVE  Plus(Plus(c, o), 1) = Plus(Plus(c, Plus(o, 1)), 0)
  <1>1. PICK x \in DWord : x = Plus(c, o) /\ (x = c + o \/ x = c + o - Wrap)
    BY PlusCases
  <1>2. PICK y \in DWord : y = Plus(o, 1) /\ (y = o + 1 \/ y = o + 1 - Wrap)
    BY PlusCases, Small
  <1>3. PICK u \in DWord : u = Plus(x, 1) /\ (u = x + 1 \/ u = x + 1 - Wrap)
    BY PlusCases, Small
  <1>4. PICK v \in DWord : v = Plus(c, y) /\ (v = c + y \/ v = c + y - Wrap)
    BY PlusCases
  <1>5. u = v
    BY <1>1, <1>2, <1>3, <1>4, WrapAssumption DEF DWord
  <1> QED
    BY <1>1, <1>2, <1>3, <1>4, <1>5, PlusZero

(* One message more consumed. *)
LEMMA CountConsumed ==
  ASSUME NEW c \in DWord, NEW o \in DWord
  PROVE  /\ Plus(Plus(c, o), 1) = Plus(Plus(Plus(c, 1), o), 0)
         /\ Minus(Plus(Plus(c, o), 1), Plus(c, 1)) = o
  <1>1. PICK x \in DWord : x = Plus(c, o) /\ (x = c + o \/ x = c + o - Wrap)
    BY PlusCases
  <1>2. PICK y \in DWord : y = Plus(c, 1) /\ (y = c + 1 \/ y = c + 1 - Wrap)
    BY PlusCases, Small
  <1>3. PICK u \in DWord : u = Plus(x, 1) /\ (u = x + 1 \/ u = x + 1 - Wrap)
    BY PlusCases, Small
  <1>4. PICK v \in DWord : v = Plus(y, o) /\ (v = y + o \/ v = y + o - Wrap)
    BY PlusCases
  <1>5. PICK w \in DWord : w = Minus(u, y) /\ (w = u - y \/ w = u - y + Wrap)
    BY MinusCases
  <1>6. u = v
    BY <1>1, <1>2, <1>3, <1>4, WrapAssumption DEF DWord
  <1>7. w = o
    BY <1>4, <1>5, <1>6, WrapAssumption DEF DWord
  <1> QED
    BY <1>1, <1>2, <1>3, <1>4, <1>5, <1>6, <1>7, PlusZero

-----------------------------------------------------------------------------
LEMMA InitIInv == Init => IInv
  <1> SUFFICES ASSUME Init PROVE IInv
    OBVIOUS
  <1>1. TypeOK
    BY Small DEF Init, TypeOK, Threads
  <1>2. GuardInv /\ PlaceInv /\ FlagInv /\ ReadyIsAnnounced
    BY DEF Init, GuardInv, PlaceInv, FlagInv, ReadyIsAnnounced, Threads, Owning
  <1>3. CountInv
    BY PlusCases, Small, WrapAssumption DEF Init, CountInv
  <1> QED
    BY <1>1, <1>2, <1>3 DEF IInv

(* A thread that moves, and the other one, which stays. *)
LEMMA GotoMoves ==
  ASSUME TypeOK, NEW t \in Threads, NEW l, Goto(t, l)
  PROVE  pc' = [u \in Threads |-> IF u = t THEN l ELSE pc[u]]
  BY DEF Goto, TypeOK

(* The steps that leave the block, its flag and the counters alone. *)
LEMMA QuietStep ==
  ASSUME IInv, UNCHANGED <<fReady, counts, block>>,
         \/ \E t \in Threads : Lock(t) \/ Release(t)
         \/ Test \/ Command \/ AwaitReady \/ Check \/ Stop \/ Join
  PROVE  IInv'
  <1> USE DEF IInv, At, stop, counts
  <1>1. CountInv' /\ (fReady <=> block = "new")'
    BY DEF CountInv, FlagInv
  <1>2. ASSUME NEW t \in Threads, Lock(t)
        PROVE  IInv'
    <2>1. pc' = [u \in Threads |-> IF u = t THEN
                   IF t = "consumer" /\ command = "s" THEN "stop" ELSE "check"
                   ELSE pc[u]]
      BY <1>2, GotoMoves DEF Lock
    <2>2. TypeOK'
      BY <1>2, <2>1 DEF Lock, TypeOK, Owning
    <2>3. GuardInv'
      BY <1>2, <2>1 DEF Lock, GuardInv, Threads
    <2>4. PlaceInv' /\ FlagInv' /\ ReadyIsAnnounced'
      BY <1>1, <1>2, <2>1
      DEF Lock, PlaceInv, FlagInv, ReadyIsAnnounced, Threads, TypeOK
    <2> QED
      BY <1>1, <2>2, <2>3, <2>4
  <1>3. ASSUME NEW t \in Threads, Release(t)
        PROVE  IInv'
    <2>1. pc' = [u \in Threads |-> IF u = t THEN
                   IF t = "producer" THEN "test"
                   ELSE IF shutDown = 0 THEN "prompt" ELSE "ended"
                   ELSE pc[u]]
      BY <1>3, GotoMoves DEF Release
    <2>2. TypeOK'
      BY <1>3, <2>1 DEF Release, TypeOK
    <2>3. GuardInv'
      BY <1>3, <2>1 DEF Release, GuardInv, Threads, Owning
    <2>4. PlaceInv' /\ FlagInv' /\ ReadyIsAnnounced'
      BY <1>1, <1>3, <2>1 DEF Release, PlaceInv, FlagInv, ReadyIsAnnounced, Threads
    <2> QED
      BY <1>1, <2>2, <2>3, <2>4
  <1>4. CASE Test
    <2>1. pc' = [u \in Threads |-> IF u = "producer" THEN
                   IF fStop = 0 THEN "lock" ELSE "ended" ELSE pc[u]]
      BY <1>4, GotoMoves DEF Test, Threads
    <2>2. TypeOK' /\ GuardInv'
      BY <1>4, <2>1 DEF Test, TypeOK, GuardInv, Owning
    <2>3. PlaceInv' /\ FlagInv' /\ ReadyIsAnnounced'
      BY <1>1, <1>4, <2>1 DEF Test, PlaceInv, FlagInv, ReadyIsAnnounced, Threads
    <2> QED
      BY <1>1, <2>2, <2>3
  <1>5. CASE Command
    <2>1. pc' = [u \in Threads |-> IF u = "consumer" THEN
                   IF command' = "c" THEN "event" ELSE "lock" ELSE pc[u]]
      BY <1>5, GotoMoves DEF Command, Threads
    <2>2. TypeOK' /\ GuardInv'
      BY <1>5, <2>1 DEF Command, TypeOK, GuardInv, Owning
    <2>3. PlaceInv' /\ FlagInv' /\ ReadyIsAnnounced'
      BY <1>1, <1>5, <2>1 DEF Command, PlaceInv, FlagInv, ReadyIsAnnounced, Threads
    <2> QED
      BY <1>1, <2>2, <2>3
  <1>6. CASE AwaitReady \/ Check \/ Stop
    <2>1. \A l : Goto("consumer", l) =>
            pc' = [u \in Threads |-> IF u = "consumer" THEN l ELSE pc[u]]
      BY GotoMoves DEF Threads
    <2>2. TypeOK'
      <3>1. shutDown' \in DWord
        BY <1>6, MinusCases, Small DEF AwaitReady, Check, Stop, TypeOK
      <3>2. pc' \in [Threads -> Owning \cup {"test", "prompt", "event", "lock", "ended"}]
        BY <1>6, <2>1 DEF AwaitReady, Check, Stop, TypeOK, Owning
      <3> QED
        BY <1>6, <3>1, <3>2 DEF AwaitReady, Check, Stop, TypeOK
    <2>3. GuardInv'
      BY <1>6, <2>1 DEF AwaitReady, Check, Stop, GuardInv, Threads, Owning
    <2>4. PlaceInv' /\ FlagInv' /\ ReadyIsAnnounced'
      BY <1>1, <1>6, <2>1
      DEF AwaitReady, Check, Stop, PlaceInv, FlagInv, ReadyIsAnnounced, Threads
    <2> QED
      BY <1>1, <2>2, <2>3, <2>4
  <1>7. CASE Join
    BY <1>1, <1>7
    DEF Join, TypeOK, GuardInv, PlaceInv, FlagInv, ReadyIsAnnounced, Threads
  <1> QED
    BY <1>2, <1>3, <1>4, <1>5, <1>6, <1>7

LEMMA FillStep == IInv /\ Fill => IInv'
  <1> SUFFICES ASSUME IInv, Fill PROVE IInv'
    OBVIOUS
  <1> USE DEF IInv, At, stop
  <1>1. overwritten' \in DWord
    BY PlusCases, Small DEF Fill, TypeOK
  <1>2. \A l : Goto("producer", l) =>
          pc' = [u \in Threads |-> IF u = "producer" THEN l ELSE pc[u]]
    BY GotoMoves DEF Threads
  <1>3. TypeOK'
    <2>1. pc' \in [Threads -> Owning \cup {"test", "prompt", "event", "lock", "ended"}]
      BY <1>2 DEF Fill, TypeOK, Owning
    <2> QED
      BY <1>1, <2>1 DEF Fill, TypeOK
  <1>4. GuardInv'
    BY <1>2 DEF Fill, GuardInv, Threads, Owning
  <1>5. pc["consumer"] \notin Owning
    BY DEF Fill, GuardInv, Threads, Owning
  <1>6. PlaceInv' /\ FlagInv' /\ ReadyIsAnnounced'
    BY <1>2, <1>5 DEF Fill, PlaceInv, FlagInv, ReadyIsAnnounced, Threads, Owning
  <1>7. CountInv'
    <2>1. CASE fStop = 0 /\ block = "new"
      BY <2>1, CountOverwritten DEF Fill, CountInv, TypeOK
    <2>2. CASE fStop = 0 /\ block # "new"
      <3>1. overwritten' = overwritten
        BY <2>2, PlusZero DEF Fill, TypeOK
      <3> QED
        BY <2>2, <3>1 DEF Fill, CountInv
    <2>3. CASE fStop # 0
      BY <2>3 DEF Fill, CountInv
    <2> QED
      BY <2>1, <2>2, <2>3
  <1> QED
    BY <1>3, <1>4, <1>6, <1>7

LEMMA PublishStep == IInv /\ Publish => IInv'
  <1> SUFFICES ASSUME IInv, Publish PROVE IInv'
    OBVIOUS
  <1> USE DEF IInv, At, stop
  <1>1. mSequence' \in DWord
    BY PlusCases, Small DEF Publish, TypeOK
  <1>2. pc' = [u \in Threads |-> IF u = "producer" THEN "release" ELSE pc[u]]
    BY GotoMoves DEF Publish, Threads
  <1>3. TypeOK'
    <2>1. pc' \in [Threads -> Owning \cup {"test", "prompt", "event", "lock", "ended"}]
      BY <1>2 DEF TypeOK, Owning
    <2> QED
      BY <1>1, <2>1 DEF Publish, TypeOK
  <1>4. GuardInv'
    BY <1>2 DEF Publish, GuardInv, Threads, Owning
  <1>5. PlaceInv' /\ FlagInv' /\ ReadyIsAnnounced'
    BY <1>2 DEF Publish, PlaceInv, FlagInv, ReadyIsAnnounced, Threads
  <1>6. CountInv'
    <2>1. block # "new"
      BY DEF Publish, FlagInv
    <2>2. Plus(nCons, overwritten) \in DWord
      BY PlusCases DEF TypeOK
    <2>3. mSequence = Plus(nCons, overwritten)
      BY <2>1, <2>2, PlusZero DEF CountInv
    <2> QED
      BY <2>3 DEF Publish, CountInv
  <1> QED
    BY <1>3, <1>4, <1>5, <1>6

(* What is counted as lost is what was overwritten. *)
LEMMA DisplayStep == IInv /\ Display => IInv' /\ nLost' = overwritten'
  <1> SUFFICES ASSUME IInv, Display PROVE IInv' /\ nLost' = overwritten'
    OBVIOUS
  <1> USE DEF IInv, At, stop
  <1>1. nCons' \in DWord
    BY PlusCases, Small DEF Display, TypeOK
  <1>2. nLost' \in DWord
    BY <1>1, MinusCases DEF Display, TypeOK
  <1>3. pc' = [u \in Threads |-> IF u = "consumer" THEN "release" ELSE pc[u]]
    BY GotoMoves DEF Display, Threads
  <1>4. TypeOK'
    <2>1. pc' \in [Threads -> Owning \cup {"test", "prompt", "event", "lock", "ended"}]
      BY <1>3 DEF TypeOK, Owning
    <2> QED
      BY <1>1, <1>2, <2>1 DEF Display, TypeOK
  <1>5. GuardInv'
    BY <1>3 DEF Display, GuardInv, Threads, Owning
  <1>6. PlaceInv' /\ FlagInv' /\ ReadyIsAnnounced'
    BY <1>3 DEF Display, PlaceInv, FlagInv, ReadyIsAnnounced, Threads
  <1>7. mSequence = Plus(Plus(nCons, overwritten), 1)
    BY DEF Display, FlagInv, CountInv
  <1>8. CountInv' /\ nLost' = overwritten'
    BY <1>7, CountConsumed DEF Display, CountInv, TypeOK
  <1> QED
    BY <1>4, <1>5, <1>6, <1>8

LEMMA NextIInv == IInv /\ [Next]_vars => IInv'
  <1> SUFFICES ASSUME IInv, [Next]_vars PROVE IInv'
    OBVIOUS
  <1>1. CASE Fill
    BY <1>1, FillStep
  <1>2. CASE Publish
    BY <1>2, PublishStep
  <1>3. CASE Display
    BY <1>3, DisplayStep
  <1>4. CASE \/ \E t \in Threads : Lock(t) \/ Release(t)
             \/ Test \/ Command \/ AwaitReady \/ Check \/ Stop \/ Join
    <2>1. UNCHANGED <<fReady, counts, block>>
      BY <1>4
      DEF Lock, Release, Test, Command, AwaitReady, Check, Stop, Join, counts
    <2> QED
      BY <1>4, <2>1, QuietStep
  <1>5. CASE UNCHANGED vars
    BY <1>5
    DEF IInv, vars, stop, counts, TypeOK, GuardInv, PlaceInv, FlagInv, CountInv,
        ReadyIsAnnounced, At, Plus
  <1> QED
    BY <1>1, <1>2, <1>3, <1>4, <1>5 DEF Next, Producer, Consumer, Threads

LEMMA Invariant == Spec => []IInv
  BY InitIInv, NextIInv, PTL DEF Spec

-----------------------------------------------------------------------------
(* Every variable keeps its type, the counters stay DWORDs. *)
THEOREM EventTypeCorrect == Spec => []TypeOK
  <1>1. IInv => TypeOK
    BY DEF IInv
  <1> QED
    BY <1>1, Invariant, PTL

(* Only complete messages are displayed, each at most once. *)
THEOREM EventDisplaysWhole == Spec => []DisplayedOnceAndWhole
  <1>1. IInv => DisplayedOnceAndWhole
    BY DEF IInv, FlagInv, DisplayedOnceAndWhole, At
  <1> QED
    BY <1>1, Invariant, PTL

(* No message waits unannounced. *)
THEOREM EventAnnounces == Spec => []ReadyIsAnnounced
  <1>1. IInv => ReadyIsAnnounced
    BY DEF IInv
  <1> QED
    BY <1>1, Invariant, PTL

(* The messages reported lost are those overwritten, for any width of the  *)
(* counters.                                                               *)
THEOREM EventCountsLost == Spec => LostCountExact
  <1>1. IInv /\ [Next]_vars => [nCons' # nCons => nLost' = overwritten']_vars
    <2> SUFFICES ASSUME IInv, Next, nCons' # nCons PROVE nLost' = overwritten'
      BY DEF vars, counts
    <2>1. Display
      BY DEF Next, Producer, Consumer, Lock, Release, Test, Fill, Publish, Command,
             AwaitReady, Check, Stop, Join, counts
    <2> QED
      BY <2>1, DisplayStep
  <1> QED
    BY <1>1, Invariant, PTL DEF Spec, LostCountExact
=============================================================================
