---------------------------- MODULE WorkersProofs ----------------------------
(***************************************************************************)
(* What MCWorkers checks of the queue of QueueObjCV.cpp, simplePC, the     *)
(* work counters, the asynchronous copies, the sorts, the record file and  *)
(* the overlapped reads of splitf holds for any number of threads, size of *)
(* queue, file, record and byte, and any number of crashes; and the typing *)
(* of all worker programs.                                                 *)
(***************************************************************************)
EXTENDS MCWorkers, SequenceLemmas

-----------------------------------------------------------------------------
(* The queue with condition variables                                      *)

States == {"none", "qNe", "getAgain", "qNf", "putAgain"}

(* How many threads are in a state. *)
In(w, state) == {t \in Threads : w[t] = state}
Number(w, state) == Cardinality(In(w, state))

LEMMA NumberIsNat ==
  ASSUME IsFiniteSet(Threads), NEW w, NEW s
  PROVE  IsFiniteSet(In(w, s)) /\ Number(w, s) \in Nat /\ (In(w, s) # {} <=> Number(w, s) > 0)
  <1>1. IsFiniteSet(In(w, s))
    BY FS_Subset DEF In
  <1>2. Number(w, s) \in Nat
    BY <1>1, FS_CardinalityType DEF Number
  <1>3. Number(w, s) = 0 <=> In(w, s) = {}
    BY <1>1, FS_EmptySet DEF Number
  <1> QED
    BY <1>1, <1>2, <1>3

(* One thread changes its state. *)
Moved(w, n, t, v) ==
  /\ n \in [Threads -> States]
  /\ \A s \in States :
       Number(n, s) = Number(w, s) + (IF v = s THEN 1 ELSE 0) - (IF w[t] = s THEN 1 ELSE 0)

LEMMA OneMoves ==
  ASSUME IsFiniteSet(Threads), NEW w \in [Threads -> States],
         NEW t \in Threads, NEW v \in States, NEW n, n = [w EXCEPT ![t] = v]
  PROVE  Moved(w, n, t, v)
  <1>1. n \in [Threads -> States]
    OBVIOUS
  <1>2. ASSUME NEW s \in States
        PROVE  Number(n, s)
                 = Number(w, s) + (IF v = s THEN 1 ELSE 0) - (IF w[t] = s THEN 1 ELSE 0)
    <2>1. IsFiniteSet(In(w, s)) /\ Number(w, s) \in Nat
      BY NumberIsNat
    <2>2. t \in In(w, s) <=> w[t] = s
      BY DEF In
    <2>3. CASE v = s
      <3>1. In(n, s) = In(w, s) \cup {t}
        BY <2>3 DEF In
      <3>2. Number(n, s) = IF t \in In(w, s) THEN Number(w, s) ELSE Number(w, s) + 1
        BY <2>1, <3>1, FS_AddElement DEF Number
      <3> QED
        BY <2>1, <2>2, <2>3, <3>2
    <2>4. CASE v # s
      <3>1. In(n, s) = In(w, s) \ {t}
        BY <2>4 DEF In
      <3>2. Number(n, s) = IF t \in In(w, s) THEN Number(w, s) - 1 ELSE Number(w, s)
        BY <2>1, <3>1, FS_RemoveElement DEF Number
      <3> QED
        BY <2>1, <2>2, <2>4, <3>2
    <2> QED
      BY <2>3, <2>4
  <1> QED
    BY <1>1, <1>2 DEF Moved

-----------------------------------------------------------------------------
(* Before the array is there no thread is in a call. *)
IdleInv == ~msgArray => \A t \in Threads : waiter[t] = "none"

IInv == TypeOK /\ IdleInv /\ SleepersWoken

(* SleepersWoken in numbers. *)
Enough(w, messages, room) ==
  /\ Number(w, "qNe") > 0 => Number(w, "getAgain") >= messages
  /\ Number(w, "qNf") > 0 => Number(w, "putAgain") >= room

LEMMA WokenInNumbers ==
  ASSUME IsFiniteSet(Threads)
  PROVE  /\ SleepersWoken <=> Enough(waiter, Messages, Room)
         /\ SleepersWoken' <=> Enough(waiter', Messages', Room')
  <1>1. ASSUME NEW s
        PROVE  /\ Waiters(s) = In(waiter, s) /\ (Waiters(s) # {} <=> Number(waiter, s) > 0)
               /\ Waiters(s)' = In(waiter', s) /\ (Waiters(s)' # {} <=> Number(waiter', s) > 0)
    <2>1. Waiters(s) = In(waiter, s) /\ Waiters(s)' = In(waiter', s)
      BY DEF Waiters, In
    <2> QED
      BY <2>1, NumberIsNat
  <1>2. /\ Waiters("qNe") # {} <=> Number(waiter, "qNe") > 0
        /\ Waiters("qNf") # {} <=> Number(waiter, "qNf") > 0
        /\ Cardinality(Waiters("getAgain")) = Number(waiter, "getAgain")
        /\ Cardinality(Waiters("putAgain")) = Number(waiter, "putAgain")
    BY <1>1 DEF Number
  <1>3. /\ Waiters("qNe")' # {} <=> Number(waiter', "qNe") > 0
        /\ Waiters("qNf")' # {} <=> Number(waiter', "qNf") > 0
        /\ Cardinality(Waiters("getAgain")') = Number(waiter', "getAgain")
        /\ Cardinality(Waiters("putAgain")') = Number(waiter', "putAgain")
    BY <1>1 DEF Number
  <1> QED
    BY <1>2, <1>3 DEF SleepersWoken, Enough

(* The next index. *)
LEMMA NextIndex ==
  ASSUME NEW n \in Nat \ {0}, NEW i \in 0 .. n - 1
  PROVE  (i + 1) % n = IF i + 1 = n THEN 0 ELSE i + 1
  OBVIOUS

(* What the indexes say of messages and room, and what a message taken or  *)
(* put does to them.                                                       *)
LEMMA RingCounts ==
  ASSUME TypeOK
  PROVE  /\ Messages \in Nat /\ Room \in Nat
         /\ QueueEmpty <=> Messages = 0
         /\ QueueFull <=> Room = 0
  BY CVConstants DEF TypeOK, Messages, Room, QueueEmpty, QueueFull

LEMMA RemoveCounts ==
  ASSUME TypeOK, ~QueueEmpty, QueueRemove, UNCHANGED <<qLast, qSize>>
  PROVE  /\ qFirst' \in 0 .. qSize - 1
         /\ Messages' = Messages - 1 /\ Room' = Room + 1
  <1>1. qSize \in Nat \ {0}
    BY CVConstants DEF TypeOK
  <1>2. qFirst' = IF qFirst + 1 = qSize THEN 0 ELSE qFirst + 1
    BY <1>1, NextIndex DEF TypeOK, QueueRemove
  <1> QED
    BY <1>1, <1>2 DEF TypeOK, Messages, Room, QueueEmpty

LEMMA InsertCounts ==
  ASSUME TypeOK, ~QueueFull, QueueInsert, UNCHANGED <<qFirst, qSize>>
  PROVE  /\ qLast' \in 0 .. qSize - 1
         /\ Messages' = Messages + 1 /\ Room' = Room - 1
  <1>1. qSize \in Nat \ {0}
    BY CVConstants DEF TypeOK
  <1>2. qLast' = IF qLast + 1 = qSize THEN 0 ELSE qLast + 1
    BY <1>1, NextIndex DEF TypeOK, QueueInsert
  <1> QED
    BY <1>1, <1>2 DEF TypeOK, Messages, Room, QueueFull

-----------------------------------------------------------------------------
(* The caller goes on and one of the threads that cv asked for is woken.   *)
LEMMA OneIsWoken ==
  ASSUME IsFiniteSet(Threads), waiter \in [Threads -> States],
         NEW t \in Threads, NEW cv \in {"qNe", "qNf"}, NEW woken \in {"getAgain", "putAgain"},
         waiter[t] \notin {"qNe", "qNf"},
         WakeConditionVariable(t, cv, woken)
  PROVE  /\ waiter' \in [Threads -> States]
         /\ \A s \in States : Number(waiter, s) \in Nat /\ Number(waiter', s) \in Nat
         /\ \A s \in {"qNe", "qNf"} \ {cv} : Number(waiter', s) = Number(waiter, s)
         /\ \A s \in {"getAgain", "putAgain"} \ {woken} :
              Number(waiter', s) = Number(waiter, s) - (IF waiter[t] = s THEN 1 ELSE 0)
         /\ Number(waiter', cv) > 0 =>
              /\ Number(waiter, cv) > 0
              /\ Number(waiter', woken) = Number(waiter, woken) + 1
                                            - (IF waiter[t] = woken THEN 1 ELSE 0)
  <1> DEFINE mid == [waiter EXCEPT ![t] = "none"]
  <1>1. \A s \in States : Number(waiter, s) \in Nat /\ Number(waiter', s) \in Nat
    BY NumberIsNat
  <1>2. "none" \in States
    BY DEF States
  <1>3. Moved(waiter, mid, t, "none")
    BY <1>2, OneMoves
  <1>4. Waiters(cv) = In(waiter, cv)
    BY DEF Waiters, In
  <1>5. CASE Waiters(cv) = {}
    <2>1. waiter' = mid
      BY <1>5 DEF WakeConditionVariable
    <2>2. ~(Number(waiter, cv) > 0)
      BY <1>4, <1>5, NumberIsNat
    <2> HIDE DEF mid
    <2> QED
      BY <1>1, <1>3, <2>1, <2>2 DEF States, Moved
  <1>6. CASE Waiters(cv) # {}
    <2>1. PICK u \in Waiters(cv) : waiter' = [waiter EXCEPT ![t] = "none", ![u] = woken]
      BY <1>6 DEF WakeConditionVariable
    <2>2. u \in Threads /\ waiter[u] = cv /\ u # t
      BY <2>1 DEF Waiters
    <2>3. waiter' = [mid EXCEPT ![u] = woken]
      BY <2>1, <2>2
    <2>4. mid[u] = cv
      BY <2>2
    <2>5. woken \in States
      BY DEF States
    <2>6. Number(waiter, cv) > 0
      BY <1>4, <1>6, NumberIsNat
    <2> HIDE DEF mid
    <2>7. Moved(mid, waiter', u, woken)
      <3>1. mid \in [Threads -> States]
        BY <1>3 DEF Moved
      <3> QED
        BY <2>2, <2>3, <2>5, <3>1, OneMoves
    <2> QED
      BY <1>1, <1>3, <2>4, <2>6, <2>7 DEF States, Moved
  <1> QED
    BY <1>5, <1>6

-----------------------------------------------------------------------------
LEMMA InitIInv ==
  ASSUME Init
  PROVE  IInv
  <1>1. TypeOK
    <2>1. qSize \in Nat \ {0}
      BY CVConstants DEF Init
    <2>2. 0 \in 0 .. qSize - 1
      BY <2>1
    <2> QED
      BY <2>2 DEF Init, TypeOK
  <1>2. IdleInv
    BY DEF Init, IdleInv
  <1>3. SleepersWoken
    BY DEF Init, SleepersWoken, Waiters
  <1> QED
    BY <1>1, <1>2, <1>3 DEF IInv

(* A call that moves no message, or one that moves a message: what it does *)
(* to the numbers of threads and messages keeps enough threads awake.      *)
LEMMA GetKeepsIInv ==
  ASSUME IInv, NEW t \in Threads, QueueGet(t)
  PROVE  IInv'
  <1>1. IsFiniteSet(Threads) /\ waiter \in [Threads -> States] /\ waiter[t] \in {"none", "getAgain"}
    BY CVConstants DEF IInv, TypeOK, States, QueueGet
  <1>2. Enough(waiter, Messages, Room)
    BY <1>1, WokenInNumbers DEF IInv
  <1>3. Messages \in Nat /\ Room \in Nat /\ (QueueEmpty <=> Messages = 0)
    BY RingCounts DEF IInv
  <1>4. \A s \in States : Number(waiter, s) \in Nat
    BY <1>1, NumberIsNat
  <1>5. TypeOK' /\ Enough(waiter', Messages', Room')
    <2>1. CASE QueueEmpty
      <3>1. waiter' = [waiter EXCEPT ![t] = "qNe"] /\ UNCHANGED <<msgArray, qFirst, qLast, qSize>>
        BY <2>1 DEF QueueGet
      <3>2. Moved(waiter, waiter', t, "qNe")
        <4>1. "qNe" \in States
          BY DEF States
        <4> QED
          BY <1>1, <3>1, <4>1, OneMoves
      <3>3. TypeOK'
        BY <3>1, <3>2 DEF IInv, TypeOK, Moved, States
      <3>4. Messages' = 0 /\ Room' = Room
        BY <1>3, <2>1, <3>1 DEF Messages, Room
      <3>5. Enough(waiter', Messages', Room')
        <4>1. /\ Number(waiter', "qNf") = Number(waiter, "qNf")
              /\ Number(waiter', "putAgain") = Number(waiter, "putAgain")
          BY <1>1, <1>4, <3>2 DEF Moved, States
        <4>2. Number(waiter', "getAgain") \in Nat
          BY <1>1, NumberIsNat
        <4> QED
          BY <1>2, <3>4, <4>1, <4>2 DEF Enough
      <3> QED
        BY <3>3, <3>5
    <2>2. CASE ~QueueEmpty
      <3>1. /\ QueueRemove /\ WakeConditionVariable(t, "qNf", "putAgain")
            /\ UNCHANGED <<msgArray, qLast, qSize>>
        BY <2>2 DEF QueueGet
      <3>2. qFirst' \in 0 .. qSize - 1 /\ Messages' = Messages - 1 /\ Room' = Room + 1
        BY <2>2, <3>1, RemoveCounts DEF IInv
      <3>3. /\ waiter' \in [Threads -> States]
            /\ Number(waiter', "qNe") = Number(waiter, "qNe")
            /\ Number(waiter', "getAgain") >= Number(waiter, "getAgain") - 1
            /\ Number(waiter', "qNf") > 0 =>
                 /\ Number(waiter, "qNf") > 0
                 /\ Number(waiter', "putAgain") = Number(waiter, "putAgain") + 1
        BY <1>1, <1>4, <3>1, OneIsWoken DEF States
      <3>4. TypeOK'
        BY <3>1, <3>2, <3>3 DEF IInv, TypeOK, States
      <3>5. Enough(waiter', Messages', Room')
        <4>1. /\ \A s \in {"qNe", "getAgain", "qNf", "putAgain"} : Number(waiter, s) \in Nat
              /\ \A s \in {"qNe", "getAgain", "qNf", "putAgain"} : Number(waiter', s) \in Nat
          BY <1>1, NumberIsNat
        <4> QED
          BY <1>2, <1>3, <3>2, <3>3, <4>1 DEF Enough
      <3> QED
        BY <3>4, <3>5
    <2> QED
      BY <2>1, <2>2
  <1>6. SleepersWoken'
    BY <1>1, <1>5, WokenInNumbers
  <1>7. IdleInv'
    BY DEF QueueGet, IdleInv
  <1> QED
    BY <1>5, <1>6, <1>7 DEF IInv

LEMMA PutKeepsIInv ==
  ASSUME IInv, NEW t \in Threads, QueuePut(t)
  PROVE  IInv'
  <1>1. IsFiniteSet(Threads) /\ waiter \in [Threads -> States] /\ waiter[t] \in {"none", "putAgain"}
    BY CVConstants DEF IInv, TypeOK, States, QueuePut
  <1>2. Enough(waiter, Messages, Room)
    BY <1>1, WokenInNumbers DEF IInv
  <1>3. Messages \in Nat /\ Room \in Nat /\ (QueueFull <=> Room = 0)
    BY RingCounts DEF IInv
  <1>4. \A s \in States : Number(waiter, s) \in Nat
    BY <1>1, NumberIsNat
  <1>5. TypeOK' /\ Enough(waiter', Messages', Room')
    <2>1. CASE QueueFull
      <3>1. waiter' = [waiter EXCEPT ![t] = "qNf"] /\ UNCHANGED <<msgArray, qFirst, qLast, qSize>>
        BY <2>1 DEF QueuePut
      <3>2. Moved(waiter, waiter', t, "qNf")
        <4>1. "qNf" \in States
          BY DEF States
        <4> QED
          BY <1>1, <3>1, <4>1, OneMoves
      <3>3. TypeOK'
        BY <3>1, <3>2 DEF IInv, TypeOK, Moved, States
      <3>4. Messages' = Messages /\ Room' = 0
        BY <1>3, <2>1, <3>1 DEF Messages, Room
      <3>5. Enough(waiter', Messages', Room')
        <4>1. /\ Number(waiter', "qNe") = Number(waiter, "qNe")
              /\ Number(waiter', "getAgain") = Number(waiter, "getAgain")
          BY <1>1, <1>4, <3>2 DEF Moved, States
        <4>2. Number(waiter', "putAgain") \in Nat
          BY <1>1, NumberIsNat
        <4> QED
          BY <1>2, <3>4, <4>1, <4>2 DEF Enough
      <3> QED
        BY <3>3, <3>5
    <2>2. CASE ~QueueFull
      <3>1. /\ QueueInsert /\ WakeConditionVariable(t, "qNe", "getAgain")
            /\ UNCHANGED <<msgArray, qFirst, qSize>>
        BY <2>2 DEF QueuePut
      <3>2. qLast' \in 0 .. qSize - 1 /\ Messages' = Messages + 1 /\ Room' = Room - 1
        BY <2>2, <3>1, InsertCounts DEF IInv
      <3>3. /\ waiter' \in [Threads -> States]
            /\ Number(waiter', "qNf") = Number(waiter, "qNf")
            /\ Number(waiter', "putAgain") >= Number(waiter, "putAgain") - 1
            /\ Number(waiter', "qNe") > 0 =>
                 /\ Number(waiter, "qNe") > 0
                 /\ Number(waiter', "getAgain") = Number(waiter, "getAgain") + 1
        BY <1>1, <1>4, <3>1, OneIsWoken DEF States
      <3>4. TypeOK'
        BY <3>1, <3>2, <3>3 DEF IInv, TypeOK, States
      <3>5. Enough(waiter', Messages', Room')
        <4>1. /\ \A s \in {"qNe", "getAgain", "qNf", "putAgain"} : Number(waiter, s) \in Nat
              /\ \A s \in {"qNe", "getAgain", "qNf", "putAgain"} : Number(waiter', s) \in Nat
          BY <1>1, NumberIsNat
        <4> QED
          BY <1>2, <1>3, <3>2, <3>3, <4>1 DEF Enough
      <3> QED
        BY <3>4, <3>5
    <2> QED
      BY <2>1, <2>2
  <1>6. SleepersWoken'
    BY <1>1, <1>5, WokenInNumbers
  <1>7. IdleInv'
    BY DEF QueuePut, IdleInv
  <1> QED
    BY <1>5, <1>6, <1>7 DEF IInv

LEMMA WakeKeepsIInv ==
  ASSUME IInv, NEW t \in Threads, WakeSpuriously(t)
  PROVE  IInv'
  <1>1. IsFiniteSet(Threads) /\ waiter \in [Threads -> States]
    BY CVConstants DEF IInv, TypeOK, States
  <1>2. Enough(waiter, Messages, Room)
    BY <1>1, WokenInNumbers DEF IInv
  <1>3. \A s \in States : Number(waiter, s) \in Nat /\ Number(waiter', s) \in Nat
    BY <1>1, NumberIsNat
  <1>4. Messages \in Nat /\ Room \in Nat
    BY RingCounts DEF IInv
  <1>5. Messages' = Messages /\ Room' = Room /\ UNCHANGED <<msgArray, qFirst, qLast, qSize>>
    BY DEF WakeSpuriously, Messages, Room
  <1>6. waiter' \in [Threads -> States] /\ Enough(waiter', Messages', Room')
    <2>1. CASE waiter[t] = "qNe" /\ waiter' = [waiter EXCEPT ![t] = "getAgain"]
      <3>1. Moved(waiter, waiter', t, "getAgain")
        <4>1. "getAgain" \in States
          BY DEF States
        <4> QED
          BY <1>1, <2>1, <4>1, OneMoves
      <3>2. /\ Number(waiter', "qNe") = Number(waiter, "qNe") - 1
            /\ Number(waiter', "getAgain") = Number(waiter, "getAgain") + 1
            /\ Number(waiter', "qNf") = Number(waiter, "qNf")
            /\ Number(waiter', "putAgain") = Number(waiter, "putAgain")
        BY <1>3, <2>1, <3>1 DEF Moved, States
      <3> QED
        BY <1>2, <1>3, <1>4, <1>5, <3>1, <3>2 DEF Enough, Moved, States
    <2>2. CASE waiter[t] = "qNf" /\ waiter' = [waiter EXCEPT ![t] = "putAgain"]
      <3>1. Moved(waiter, waiter', t, "putAgain")
        <4>1. "putAgain" \in States
          BY DEF States
        <4> QED
          BY <1>1, <2>2, <4>1, OneMoves
      <3>2. /\ Number(waiter', "qNf") = Number(waiter, "qNf") - 1
            /\ Number(waiter', "putAgain") = Number(waiter, "putAgain") + 1
            /\ Number(waiter', "qNe") = Number(waiter, "qNe")
            /\ Number(waiter', "getAgain") = Number(waiter, "getAgain")
        BY <1>3, <2>2, <3>1 DEF Moved, States
      <3> QED
        BY <1>2, <1>3, <1>4, <1>5, <3>1, <3>2 DEF Enough, Moved, States
    <2> QED
      BY <2>1, <2>2 DEF WakeSpuriously
  <1>7. TypeOK'
    BY <1>5, <1>6 DEF IInv, TypeOK, States
  <1>8. SleepersWoken'
    BY <1>1, <1>6, WokenInNumbers
  <1>9. IdleInv'
    <2>1. msgArray
      BY DEF IInv, IdleInv, WakeSpuriously
    <2> QED
      BY <1>5, <2>1 DEF IdleInv
  <1> QED
    BY <1>7, <1>8, <1>9 DEF IInv

(* The array comes and goes while no thread is in a call, so none sleeps.  *)
LEMMA ArrayKeepsIInv ==
  ASSUME IInv, QueueDestroy \/ \E nMsgs \in Sizes : QueueIntialize(nMsgs)
  PROVE  IInv'
  <1>1. UNCHANGED waiter /\ \A t \in Threads : waiter[t] = "none"
    BY DEF IInv, IdleInv, QueueDestroy, QueueIntialize
  <1>2. TypeOK'
    <2>1. CASE QueueDestroy
      BY <2>1 DEF IInv, TypeOK, QueueDestroy
    <2>2. ASSUME NEW nMsgs \in Sizes, QueueIntialize(nMsgs)
          PROVE  TypeOK'
      <3>1. 0 \in 0 .. nMsgs - 1
        BY CVConstants
      <3> QED
        BY <2>2, <3>1 DEF IInv, TypeOK, QueueIntialize
    <2> QED
      BY <2>1, <2>2
  <1>3. IdleInv' /\ SleepersWoken'
    BY <1>1 DEF IdleInv, SleepersWoken, Waiters
  <1> QED
    BY <1>2, <1>3 DEF IInv

LEMMA NextKeepsIInv ==
  ASSUME IInv, [Next]_cvVars
  PROVE  IInv'
  <1>1. ASSUME NEW t \in Threads, QueueGet(t) \/ QueuePut(t) \/ WakeSpuriously(t)
        PROVE  IInv'
    BY <1>1, GetKeepsIInv, PutKeepsIInv, WakeKeepsIInv
  <1>2. CASE QueueDestroy \/ \E nMsgs \in Sizes : QueueIntialize(nMsgs)
    BY <1>2, ArrayKeepsIInv
  <1>3. CASE UNCHANGED cvVars
    BY <1>3 DEF cvVars, IInv, TypeOK, IdleInv, SleepersWoken, Waiters, Messages, Room
  <1> QED
    BY <1>1, <1>2, <1>3 DEF Next

-----------------------------------------------------------------------------
(* The assumption, number by number. *)
LEMMA WorkersConstants ==
  /\ Wrap \in Nat \ {0} /\ Wrap # 1 /\ Byte \in Nat \ {0} /\ Byte # 1
  /\ MAX_OVERLP \in Nat \ {0} /\ REC_SIZE \in Nat \ {0} /\ BUF_SIZE \in Nat \ {0}
  /\ FileSizes \subseteq Nat /\ Capacities \subseteq Nat /\ RecordFiles \subseteq Seq(Nat)
  /\ MaxThreads \in Nat /\ MaxThread \in Nat /\ MaxTasks \in Nat /\ MaxTorn \in Nat /\ MaxWrapped \in Nat
  /\ MaxFileSize \in Nat
  BY WorkersAssumption

-----------------------------------------------------------------------------
(* SimplePC                                                                *)

Ready == IF mBlock.fReady THEN 1 ELSE 0

BlockType ==
  [fReady : BOOLEAN, fStop : BOOLEAN, nCons : 0 .. Wrap - 1, mSequence : 0 .. Wrap - 1,
   nLost : 0 .. Wrap - 1, data : {"none", "partial", "new", "displayed"}]

(* What is produced is consumed, replaced or ready, at every step.         *)
Balanced == (mBlock.mSequence - mBlock.nCons) % Wrap = (replaced + Ready) % Wrap

PCInv ==
  /\ PC!TypeOK
  /\ mBlock.fReady <=> mBlock.data = "new"
  /\ produce = "fill" => ~mBlock.fReady
  /\ mBlock.data = "displayed" => mBlock.nLost = (replaced + 1) % Wrap
  /\ Balanced

LEMMA PCInit ==
  ASSUME PC!Init
  PROVE  PCInv
  <1>1. PC!TypeOK
    BY WorkersConstants DEF PC!Init, PC!TypeOK, PC!DWord
  <1>2. Balanced
    BY WorkersConstants DEF PC!Init, Balanced, Ready
  <1> QED
    BY <1>1, <1>2 DEF PC!Init, PCInv

LEMMA BlockTypes ==
  ASSUME PC!TypeOK
  PROVE  /\ mBlock \in BlockType
         /\ mBlock.nCons \in Int /\ mBlock.mSequence \in Int /\ replaced \in Int /\ Ready \in Int
  BY WorkersConstants DEF PC!TypeOK, PC!DWord, BlockType, Ready

LEMMA PCTest ==
  ASSUME PCInv, PC!Test
  PROVE  PCInv'
  BY DEF PCInv, PC!Test, PC!TypeOK, Balanced, Ready

LEMMA PCMessageFill ==
  ASSUME PCInv, PC!MessageFill
  PROVE  PCInv'
  <1>1. CASE mBlock.fStop
    BY <1>1 DEF PCInv, PC!MessageFill, PC!TypeOK, Balanced, Ready
  <1>2. CASE ~mBlock.fStop
    <2>1. /\ mBlock' = [mBlock EXCEPT !.fReady = FALSE, !.data = "partial"]
          /\ replaced' = (replaced + Ready) % Wrap
          /\ produce' = "fill" /\ consume' = consume
      BY <1>2 DEF PCInv, PC!MessageFill, Ready
    <2>2. /\ mBlock' \in BlockType
          /\ ~mBlock'.fReady /\ mBlock'.data = "partial"
          /\ mBlock'.nCons = mBlock.nCons /\ mBlock'.mSequence = mBlock.mSequence
      BY <2>1, BlockTypes DEF PCInv, BlockType
    <2>3. replaced + Ready \in Int
      BY BlockTypes DEF PCInv
    <2>4. replaced' \in 0 .. Wrap - 1
      BY <2>1, <2>3, Remainder, WorkersConstants
    <2>5. PC!TypeOK'
      BY <2>1, <2>2, <2>4 DEF PC!TypeOK, PC!DWord, BlockType, PCInv
    <2>6. Balanced'
      <3>1. PICK r \in 0 .. Wrap - 1 : r = replaced'
        BY <2>4
      <3>2. (r + 0) % Wrap = r
        BY WorkersConstants
      <3>3. Ready' = 0
        BY <2>2 DEF Ready
      <3> QED
        BY <2>1, <2>2, <3>1, <3>2, <3>3 DEF Balanced, PCInv
    <2> QED
      BY <2>1, <2>2, <2>5, <2>6 DEF PCInv
  <1> QED
    BY <1>1, <1>2

LEMMA PCPublish ==
  ASSUME PCInv, PC!Publish
  PROVE  PCInv'
  <1>1. /\ mBlock' = [mBlock EXCEPT !.fReady = TRUE, !.data = "new",
                                    !.mSequence = (mBlock.mSequence + 1) % Wrap]
        /\ produce' = "test" /\ consume' = consume /\ replaced' = replaced
        /\ Ready = 0
    BY DEF PCInv, PC!Publish, Ready
  <1>2. (mBlock.mSequence + 1) % Wrap \in 0 .. Wrap - 1
    <2>1. mBlock.mSequence + 1 \in Int
      BY BlockTypes DEF PCInv
    <2> QED
      BY <2>1, Remainder, WorkersConstants
  <1>3. /\ mBlock' \in BlockType
        /\ mBlock'.fReady /\ mBlock'.data = "new"
        /\ mBlock'.nCons = mBlock.nCons
        /\ mBlock'.mSequence = (mBlock.mSequence + 1) % Wrap
    BY <1>1, <1>2, BlockTypes DEF PCInv, BlockType
  <1>4. PC!TypeOK'
    BY <1>1, <1>3 DEF PC!TypeOK, PC!DWord, BlockType, PCInv
  <1>5. Balanced'
    <2> DEFINE m == mBlock.mSequence
               c == mBlock.nCons
    <2>1. m \in Int /\ c \in Int /\ replaced \in Int /\ m + 1 \in Int /\ m - c \in Int /\ -c \in Int
      BY BlockTypes DEF PCInv
    <2>2. (m - c) % Wrap = replaced % Wrap
      BY <1>1, <2>1 DEF PCInv, Balanced
    <2> HIDE DEF m, c
    <2>3. (((m + 1) % Wrap) + (-c)) % Wrap = ((m + 1) + (-c)) % Wrap
      BY <2>1, WorkersConstants, RemainderPlus
    <2>4. (((m - c) % Wrap) + 1) % Wrap = ((m - c) + 1) % Wrap
      BY <2>1, WorkersConstants, RemainderSteps
    <2>5. ((replaced % Wrap) + 1) % Wrap = (replaced + 1) % Wrap
      BY <2>1, WorkersConstants, RemainderSteps
    <2>6. (m + 1) + (-c) = (m - c) + 1
      BY <2>1
    <2>7. (m + 1) % Wrap \in Int
      BY <2>1, WorkersConstants, Remainder
    <2>8. ((m + 1) % Wrap) - c = ((m + 1) % Wrap) + (-c)
      BY <2>1, <2>7
    <2>9. (((m + 1) % Wrap) - c) % Wrap = (replaced + 1) % Wrap
      BY <2>2, <2>3, <2>4, <2>5, <2>6, <2>8
    <2>10. Ready' = 1
      BY <1>3 DEF Ready
    <2> QED
      BY <1>1, <1>3, <2>9, <2>10 DEF Balanced, m, c
  <1> QED
    BY <1>1, <1>3, <1>4, <1>5 DEF PCInv

LEMMA PCCommand ==
  ASSUME PCInv, PC!Command
  PROVE  PCInv'
  <1>1. CASE UNCHANGED mBlock
    BY <1>1 DEF PCInv, PC!Command, PC!TypeOK, Balanced, Ready
  <1>2. CASE mBlock' = [mBlock EXCEPT !.fStop = TRUE] /\ UNCHANGED consume
    <2>1. /\ mBlock' \in BlockType
          /\ mBlock'.fReady = mBlock.fReady /\ mBlock'.data = mBlock.data
          /\ mBlock'.nCons = mBlock.nCons /\ mBlock'.mSequence = mBlock.mSequence
          /\ mBlock'.nLost = mBlock.nLost
      BY <1>2, BlockTypes DEF PCInv, BlockType
    <2>2. UNCHANGED <<produce, consume, replaced>>
      BY <1>2 DEF PC!Command
    <2>3. PC!TypeOK'
      BY <2>1, <2>2 DEF PC!TypeOK, PC!DWord, BlockType, PCInv
    <2> QED
      BY <2>1, <2>2, <2>3 DEF PCInv, Balanced, Ready
  <1> QED
    BY <1>1, <1>2 DEF PC!Command

LEMMA PCConsume ==
  ASSUME PCInv, PC!Consume
  PROVE  PCInv'
  <1>1. CASE ~mBlock.fReady
    BY <1>1 DEF PCInv, PC!Consume, PC!TypeOK, Balanced, Ready
  <1>2. CASE mBlock.fReady
    <2> DEFINE m == mBlock.mSequence
               c == mBlock.nCons
    <2>1. /\ mBlock' = [mBlock EXCEPT !.nLost = (m - c) % Wrap, !.fReady = FALSE,
                                      !.data = "displayed", !.nCons = (c + 1) % Wrap]
          /\ produce' = produce /\ consume' = "test" /\ replaced' = replaced
          /\ produce # "fill"
      BY <1>2 DEF PC!Consume
    <2>2. m \in Int /\ c \in Int /\ replaced \in Int /\ c + 1 \in Int /\ m - c \in Int
          /\ replaced + 1 \in Int
      BY BlockTypes DEF PCInv
    <2>3. (m - c) % Wrap \in 0 .. Wrap - 1 /\ (c + 1) % Wrap \in 0 .. Wrap - 1
      <3> HIDE DEF m, c
      <3> QED
        BY <2>2, Remainder, WorkersConstants
    <2>4. /\ mBlock' \in BlockType
          /\ ~mBlock'.fReady /\ mBlock'.data = "displayed"
          /\ mBlock'.nCons = (c + 1) % Wrap
          /\ mBlock'.mSequence = m
          /\ mBlock'.nLost = (m - c) % Wrap
      BY <2>1, <2>3, BlockTypes DEF PCInv, BlockType
    <2>5. PC!TypeOK'
      BY <2>1, <2>4 DEF PC!TypeOK, PC!DWord, BlockType, PCInv
    <2>6. (m - c) % Wrap = (replaced + 1) % Wrap
      BY <1>2 DEF PCInv, Balanced, Ready
    <2>7. (m - ((c + 1) % Wrap)) % Wrap = replaced % Wrap
      <3> HIDE DEF m, c
      <3>1. (m - ((c + 1) % Wrap)) % Wrap = (m - (c + 1)) % Wrap
        BY <2>2, WorkersConstants, RemainderMinus
      <3>3. /\ (((m - c) % Wrap) + (-1)) % Wrap = ((m - c) + (-1)) % Wrap
            /\ (((replaced + 1) % Wrap) + (-1)) % Wrap = ((replaced + 1) + (-1)) % Wrap
        BY <2>2, WorkersConstants, RemainderSteps
      <3>4. m - (c + 1) = (m - c) + (-1) /\ (replaced + 1) + (-1) = replaced
        BY <2>2
      <3> QED
        BY <2>6, <3>1, <3>3, <3>4
    <2>8. Ready' = 0 /\ replaced + 0 = replaced
      BY <2>2, <2>4 DEF Ready
    <2>9. Balanced'
      BY <2>1, <2>4, <2>7, <2>8 DEF Balanced
    <2> QED
      BY <2>1, <2>4, <2>5, <2>6, <2>9 DEF PCInv
  <1> QED
    BY <1>1, <1>2

LEMMA PCNext ==
  ASSUME PCInv, PC!Next
  PROVE  PCInv'
  BY PCTest, PCMessageFill, PCPublish, PCCommand, PCConsume DEF PC!Next, PC!Produce

LEMMA PCStutter ==
  ASSUME PCInv, UNCHANGED pcVars
  PROVE  PCInv'
  BY DEF PCInv, pcVars, PC!TypeOK, Balanced, Ready

LEMMA PCCounts ==
  ASSUME PCInv
  PROVE  PC!CountsExact
  BY DEF PCInv, PC!CountsExact, Balanced, Ready

-----------------------------------------------------------------------------
(* WorkCounters                                                            *)

(* What AddUp computes when all workers have completed the same number of  *)
(* tasks.                                                                  *)
IsSum(f, W, sum) ==
  sum = [s \in SUBSET W |->
           IF s = {} THEN 0
           ELSE LET x == CHOOSE w \in s : TRUE IN f[x] + sum[s \ {x}]]

SumOf(f, W) == (CHOOSE sum : IsSum(f, W, sum))[W]

LEMMA SumOfEqual ==
  ASSUME NEW W, IsFiniteSet(W), NEW k \in Nat, NEW f, \A w \in W : f[w] = k
  PROVE  SumOf(f, W) = k * Cardinality(W)
  <1>1. ASSUME NEW s \in SUBSET W
        PROVE  /\ IsFiniteSet(s) /\ Cardinality(s) \in Nat
               /\ s = {} <=> Cardinality(s) = 0
               /\ \A x \in s : s \ {x} \in SUBSET W /\ Cardinality(s \ {x}) = Cardinality(s) - 1
    <2>1. IsFiniteSet(s)
      BY FS_Subset
    <2> QED
      BY <2>1, FS_CardinalityType, FS_EmptySet, FS_RemoveElement
  <1>2. \A n \in Nat \ {0} : k + k * (n - 1) = k * n
    <2> TAKE n \in Nat \ {0}
    <2>1. k * 1 + k * (n - 1) = k * (1 + (n - 1))
      BY ProductSum
    <2> QED
      BY <2>1
  <1>3. IsSum(f, W, [s \in SUBSET W |-> k * Cardinality(s)])
    <2> DEFINE it == [s \in SUBSET W |-> k * Cardinality(s)]
    <2>1. ASSUME NEW s \in SUBSET W
          PROVE  it[s] = IF s = {} THEN 0
                         ELSE LET x == CHOOSE w \in s : TRUE IN f[x] + it[s \ {x}]
      <3>1. CASE s = {}
        BY <1>1, <3>1
      <3>2. CASE s # {}
        <4>1. PICK x \in s : x = CHOOSE w \in s : TRUE
          BY <3>2
        <4>2. /\ f[x] = k /\ it[s \ {x}] = k * (Cardinality(s) - 1)
              /\ Cardinality(s) \in Nat \ {0}
          BY <1>1, <3>2
        <4> QED
          BY <1>2, <3>2, <4>1, <4>2
      <3> QED
        BY <3>1, <3>2
    <2> QED
      BY <2>1 DEF IsSum
  <1> DEFINE sum == CHOOSE sum : IsSum(f, W, sum)
  <1>4. IsSum(f, W, sum)
    BY <1>3
  <1> HIDE DEF sum
  <1> DEFINE K == {n \in Nat : \A s \in SUBSET W : Cardinality(s) = n => sum[s] = k * n}
  <1>5. 0 \in K
    <2>1. sum[{}] = 0 /\ k * 0 = 0
      BY <1>4 DEF IsSum
    <2> QED
      BY <1>1, <2>1
  <1>6. ASSUME NEW n \in Nat, n \in K
        PROVE  n + 1 \in K
    <2> SUFFICES ASSUME NEW s \in SUBSET W, Cardinality(s) = n + 1
                 PROVE  sum[s] = k * (n + 1)
      OBVIOUS
    <2>1. s # {}
      BY <1>1
    <2>2. PICK x \in s : x = CHOOSE w \in s : TRUE
      BY <2>1
    <2>3. s \ {x} \in SUBSET W /\ Cardinality(s \ {x}) = n
      BY <1>1
    <2>4. sum[s \ {x}] = k * n
      BY <1>6, <2>3
    <2>5. sum[s] = f[x] + sum[s \ {x}]
      BY <1>4, <2>1, <2>2 DEF IsSum
    <2>6. k + k * ((n + 1) - 1) = k * (n + 1) /\ (n + 1) - 1 = n
      BY <1>2
    <2> QED
      BY <2>4, <2>5, <2>6
  <1> HIDE DEF K
  <1>7. Nat \subseteq K
    BY <1>5, <1>6, SetInduction
  <1>8. Cardinality(W) \in K
    BY <1>7, FS_CardinalityType
  <1> QED
    BY <1>8 DEF K, SumOf, sum

(* A worker counts each of its tasks once, and those that main has waited  *)
(* for have ended.                                                         *)
WKInv ==
  /\ WK!TypeOK
  /\ \A w \in WK!Workers :
       /\ tasksComplete[w] <= tasksPerThread
       /\ worker[w] \in {"wait", "count"} => tasksComplete[w] < tasksPerThread
       /\ worker[w] = "ended" => tasksComplete[w] = tasksPerThread
       /\ w < ending => worker[w] = "ended"
  /\ WK!TotalRight

LEMMA WKNat ==
  ASSUME WK!TypeOK
  PROVE  /\ nThread \in Nat \ {0} /\ tasksPerThread \in Nat /\ ending \in Nat
         /\ WK!Workers \subseteq Nat /\ 0 \in WK!Workers /\ IsFiniteSet(WK!Workers)
         /\ Cardinality(WK!Workers) = nThread
         /\ nThread * tasksPerThread \in 0 .. MaxThread * MaxTasks
         /\ \A w \in WK!Workers : tasksComplete[w] \in Nat
  <1>1. nThread \in 1 .. MaxThread /\ tasksPerThread \in 0 .. MaxTasks /\ MaxThread \in Nat /\ MaxTasks \in Nat
    BY WorkersConstants DEF WK!TypeOK
  <1>2. nThread * tasksPerThread <= MaxThread * MaxTasks
    <2>1. \A a, b, c \in Nat : a <= b => a * c <= b * c /\ c * a <= c * b
      OBVIOUS
    <2>2. /\ nThread * tasksPerThread <= MaxThread * tasksPerThread
          /\ MaxThread * tasksPerThread <= MaxThread * MaxTasks
      BY <1>1, <2>1
    <2>3. /\ nThread * tasksPerThread \in Nat /\ MaxThread * tasksPerThread \in Nat
          /\ MaxThread * MaxTasks \in Nat
      BY <1>1
    <2> QED
      BY <2>2, <2>3
  <1>3. nThread * tasksPerThread \in Nat /\ MaxThread * MaxTasks \in Nat
    BY <1>1
  <1>4. ending \in Nat /\ WK!Workers = 0 .. nThread - 1
    BY <1>1 DEF WK!TypeOK, WK!Workers
  <1>5. IsFiniteSet(0 .. nThread - 1) /\ Cardinality(0 .. nThread - 1) = nThread
    BY <1>1, FS_Interval
  <1>6. \A w \in WK!Workers : tasksComplete[w] \in 0 .. MaxTasks
    BY DEF WK!TypeOK
  <1> QED
    BY <1>1, <1>2, <1>3, <1>4, <1>5, <1>6

LEMMA WKInit ==
  ASSUME WK!Init
  PROVE  WKInv
  <1>1. WK!TypeOK
    <2>1. nThread \in Nat /\ nThread + 1 \in Nat /\ 0 \in 0 .. MaxTasks /\ MaxThread * MaxTasks \in Nat
      BY WorkersConstants DEF WK!Init
    <2> QED
      BY <2>1 DEF WK!Init, WK!TypeOK
  <1> QED
    BY <1>1, WKNat DEF WK!Init, WKInv, WK!TotalRight

(* One worker goes on, and has counted c tasks.                            *)
LEMMA WKMoves ==
  ASSUME WKInv, NEW w \in WK!Workers, worker[w] # "ended",
         NEW at \in {"unborn", "test", "wait", "count", "stored", "ended"},
         worker' = [worker EXCEPT ![w] = at],
         NEW c \in 0 .. MaxTasks, tasksComplete' = [tasksComplete EXCEPT ![w] = c],
         lock' \in [WK!Workers -> WK!Workers \cup {WK!None}],
         UNCHANGED <<sharesMutex, nThread, tasksPerThread, totalTasksComplete, ending>>,
         c <= tasksPerThread,
         at \in {"wait", "count"} => c < tasksPerThread,
         at = "ended" => c = tasksPerThread
  PROVE  WKInv'
  <1>1. WK!Workers' = WK!Workers
    BY DEF WK!Workers
  <1>2. WK!TypeOK'
    BY <1>1 DEF WKInv, WK!TypeOK, WK!None
  <1>3. ~(w < ending) /\ ~(ending > nThread)
    <2>1. ending > nThread => worker[w] = "ended"
      BY DEF WKInv, WK!TotalRight
    <2> QED
      BY <2>1 DEF WKInv
  <1>4. WK!TotalRight'
    BY <1>3 DEF WK!TotalRight
  <1>5. ASSUME NEW v \in WK!Workers
        PROVE  /\ tasksComplete'[v] <= tasksPerThread
               /\ worker'[v] \in {"wait", "count"} => tasksComplete'[v] < tasksPerThread
               /\ worker'[v] = "ended" => tasksComplete'[v] = tasksPerThread
               /\ v < ending => worker'[v] = "ended"
    <2>1. worker \in [WK!Workers -> {"unborn", "test", "wait", "count", "stored", "ended"}]
          /\ tasksComplete \in [WK!Workers -> 0 .. MaxTasks]
      BY DEF WKInv, WK!TypeOK
    <2>2. CASE v = w
      BY <1>3, <2>1, <2>2
    <2>3. CASE v # w
      BY <2>1, <2>3 DEF WKInv
    <2> QED
      BY <2>2, <2>3
  <1> QED
    BY <1>1, <1>2, <1>4, <1>5 DEF WKInv

LEMMA WKWorker ==
  ASSUME WKInv, NEW w \in WK!Workers, WK!Worker(w)
  PROVE  WKInv'
  <1>1. /\ worker \in [WK!Workers -> {"unborn", "test", "wait", "count", "stored", "ended"}]
        /\ tasksComplete \in [WK!Workers -> 0 .. MaxTasks]
        /\ lock \in [WK!Workers -> WK!Workers \cup {WK!None}]
        /\ WK!LockOf(w) \in WK!Workers
        /\ tasksComplete[w] \in 0 .. MaxTasks
        /\ tasksComplete[w] <= tasksPerThread
        /\ tasksComplete = [tasksComplete EXCEPT ![w] = tasksComplete[w]]
    BY WKNat DEF WKInv, WK!TypeOK, WK!LockOf
  <1>2. CASE WK!Begin(w)
    BY <1>1, <1>2, WKMoves DEF WK!Begin, WK!Goto
  <1>3. CASE WK!Test(w)
    <2>1. /\ worker[w] # "ended" /\ tasksComplete' = tasksComplete /\ lock' = lock
          /\ UNCHANGED <<sharesMutex, nThread, tasksPerThread, totalTasksComplete, ending>>
      BY <1>3 DEF WK!Test
    <2>2. CASE tasksComplete[w] < tasksPerThread
      <3>1. worker' = [worker EXCEPT ![w] = "wait"]
        BY <1>3, <2>2 DEF WK!Test, WK!Goto
      <3> QED
        BY <1>1, <2>1, <2>2, <3>1, WKMoves
    <2>3. CASE ~(tasksComplete[w] < tasksPerThread)
      <3>1. worker' = [worker EXCEPT ![w] = "ended"]
        BY <1>3, <2>3 DEF WK!Test, WK!Goto
      <3>2. tasksComplete[w] = tasksPerThread
        BY <1>1, <2>3, WKNat DEF WKInv
      <3> QED
        BY <1>1, <2>1, <3>1, <3>2, WKMoves
    <2> QED
      BY <2>2, <2>3
  <1>4. CASE WK!Acquire(w)
    <2>1. /\ worker[w] = "wait" /\ tasksComplete' = tasksComplete
          /\ lock' \in [WK!Workers -> WK!Workers \cup {WK!None}]
          /\ worker' = [worker EXCEPT ![w] = "count"]
          /\ UNCHANGED <<sharesMutex, nThread, tasksPerThread, totalTasksComplete, ending>>
      BY <1>1, <1>4 DEF WK!Acquire, WK!Goto
    <2>2. tasksComplete[w] < tasksPerThread
      BY <2>1 DEF WKInv
    <2> QED
      BY <1>1, <2>1, <2>2, WKMoves
  <1>5. CASE WK!Count(w)
    <2>1. /\ worker[w] = "count" /\ lock' = lock
          /\ tasksComplete' = [tasksComplete EXCEPT ![w] = tasksComplete[w] + 1]
          /\ worker' = [worker EXCEPT ![w] = "stored"]
          /\ UNCHANGED <<sharesMutex, nThread, tasksPerThread, totalTasksComplete, ending>>
      BY <1>5 DEF WK!Count, WK!Goto
    <2>2. tasksComplete[w] + 1 \in 0 .. MaxTasks /\ tasksComplete[w] + 1 <= tasksPerThread
      <3>1. tasksComplete[w] < tasksPerThread /\ tasksPerThread \in 0 .. MaxTasks
        BY <2>1 DEF WKInv, WK!TypeOK
      <3> QED
        BY <1>1, <3>1, WorkersConstants
    <2> QED
      BY <1>1, <2>1, <2>2, WKMoves
  <1>6. CASE WK!Release(w)
    <2>1. /\ worker[w] = "stored" /\ tasksComplete' = tasksComplete
          /\ lock' \in [WK!Workers -> WK!Workers \cup {WK!None}]
          /\ worker' = [worker EXCEPT ![w] = "test"]
          /\ UNCHANGED <<sharesMutex, nThread, tasksPerThread, totalTasksComplete, ending>>
      BY <1>1, <1>6 DEF WK!Release, WK!Goto
    <2> QED
      BY <1>1, <2>1, WKMoves
  <1> QED
    BY <1>2, <1>3, <1>4, <1>5, <1>6 DEF WK!Worker

LEMMA WKAwait ==
  ASSUME WKInv, WK!Await
  PROVE  WKInv'
  <1>1. WK!Workers' = WK!Workers
    BY DEF WK!Workers, WK!Await
  <1>2. /\ ending \in 0 .. nThread /\ ending' = ending + 1 /\ ending < nThread
        /\ worker[ending] = "ended" /\ nThread \in Nat
        /\ UNCHANGED <<sharesMutex, nThread, tasksPerThread, lock, worker, tasksComplete,
                       totalTasksComplete>>
    BY WKNat DEF WK!Await, WKInv, WK!TypeOK
  <1>3. WK!TypeOK'
    BY <1>1, <1>2 DEF WKInv, WK!TypeOK, WK!None
  <1>4. WK!TotalRight'
    BY <1>2 DEF WK!TotalRight
  <1>5. \A w \in WK!Workers : w < ending + 1 => w < ending \/ w = ending
    BY <1>2, WKNat DEF WKInv
  <1> QED
    BY <1>1, <1>2, <1>3, <1>4, <1>5 DEF WKInv

LEMMA WKAddUp ==
  ASSUME WKInv, WK!AddUp
  PROVE  WKInv'
  <1>1. WK!Workers' = WK!Workers
    BY DEF WK!Workers, WK!AddUp
  <1>2. /\ ending = nThread /\ ending' = nThread + 1 /\ nThread \in Nat
        /\ UNCHANGED <<sharesMutex, nThread, tasksPerThread, lock, worker, tasksComplete>>
    BY WKNat DEF WK!AddUp, WKInv
  <1>3. totalTasksComplete' = SumOf(tasksComplete, WK!Workers)
    BY DEF WK!AddUp, WK!MapThenFoldSet, SumOf, IsSum
  <1>4. \A w \in WK!Workers : w < nThread /\ worker[w] = "ended" /\ tasksComplete[w] = tasksPerThread
    <2>1. \A w \in WK!Workers : w < nThread
      BY <1>2 DEF WK!Workers
    <2> QED
      BY <1>2, <2>1 DEF WKInv
  <1>5. totalTasksComplete' = nThread * tasksPerThread
    <2>1. SumOf(tasksComplete, WK!Workers) = tasksPerThread * Cardinality(WK!Workers)
      BY <1>4, WKNat, SumOfEqual DEF WKInv
    <2>2. tasksPerThread * nThread = nThread * tasksPerThread
      BY WKNat DEF WKInv
    <2> QED
      BY <1>3, <2>1, <2>2, WKNat DEF WKInv
  <1>6. WK!TypeOK'
    <2>1. nThread * tasksPerThread \in 0 .. MaxThread * MaxTasks
      BY WKNat DEF WKInv
    <2>2. nThread + 1 \in 0 .. nThread + 1
      BY <1>2
    <2> QED
      BY <1>1, <1>2, <1>5, <2>1, <2>2 DEF WKInv, WK!TypeOK, WK!None
  <1>7. WK!TotalRight'
    BY <1>1, <1>2, <1>4, <1>5 DEF WK!TotalRight
  <1>8. \A w \in WK!Workers : worker'[w] = "ended"
    BY <1>2, <1>4
  <1> QED
    BY <1>1, <1>2, <1>6, <1>7, <1>8 DEF WKInv

LEMMA WKNext ==
  ASSUME WKInv, WK!Next
  PROVE  WKInv'
  BY WKWorker, WKAwait, WKAddUp DEF WK!Next

LEMMA WKStutter ==
  ASSUME WKInv, UNCHANGED wkVars
  PROVE  WKInv'
  BY DEF WKInv, wkVars, WK!TypeOK, WK!TotalRight, WK!Workers, WK!None

-----------------------------------------------------------------------------
(* AsyncRead                                                               *)

(* No read goes beyond the end of the file, and the loop goes on before    *)
(* it; a read that gives nothing has left no number of bytes.              *)
ARInv ==
  /\ AR!TypeOK
  /\ io \in {"pending", "eof", "failed"} => dwBytesRead = 0
  /\ Offset <= dwFileSize
  /\ AR!WholeFileRead

LEMMA AvailableBounds ==
  ASSUME AR!TypeOK, Offset <= dwFileSize
  PROVE  /\ dwFileSize \in Nat /\ Offset \in Nat /\ BUF_SIZE \in Nat
         /\ AR!Available \in 0 .. BUF_SIZE /\ Offset + AR!Available <= dwFileSize
  BY WorkersConstants DEF AR!TypeOK, AR!Available

LEMMA ARInit ==
  ASSUME AR!Init
  PROVE  ARInv
  <1>1. dwFileSize \in 0 .. MaxFileSize /\ dwFileSize \in Nat
        /\ 0 \in 0 .. BUF_SIZE /\ 0 \in 0 .. dwFileSize + BUF_SIZE
    BY WorkersConstants DEF AR!Init
  <1> QED
    BY <1>1 DEF AR!Init, ARInv, AR!TypeOK, AR!WholeFileRead, AR!Finished

(* A read has given some bytes, or none, and the loop turns.               *)
LEMMA ARAdvances ==
  ASSUME ARInv, NEW bytes \in {0, AR!Available}, NEW continue \in BOOLEAN,
         AR!Advance(bytes, continue), dwFileSize' = dwFileSize,
         dwBytesRead' \in 0 .. BUF_SIZE
  PROVE  ARInv'
  <1>1. /\ dwFileSize \in Nat /\ Offset \in Nat /\ BUF_SIZE \in Nat
        /\ bytes \in 0 .. BUF_SIZE /\ Offset + bytes <= dwFileSize
    BY AvailableBounds DEF ARInv
  <1>2. /\ Offset' = Offset + bytes /\ io' = "none"
        /\ bContinue' = (continue \/ Offset' < dwFileSize)
        /\ pieces' = IF bytes = 0 THEN pieces ELSE Append(pieces, <<Offset, bytes>>)
    BY DEF AR!Advance
  <1>3. pieces \in Seq(Nat \X Nat) /\ pieces' \in Seq(Nat \X Nat)
    <2>1. pieces \in Seq(Nat \X Nat)
      BY DEF ARInv, AR!TypeOK
    <2>2. PICK p \in Nat \X Nat : p = <<Offset, bytes>>
      <3>1. Offset \in Nat /\ bytes \in Nat
        BY ONLY <1>1
      <3> QED
        BY ONLY <3>1
    <2>3. Append(pieces, p) \in Seq(Nat \X Nat)
      BY ONLY <2>1, p \in Nat \X Nat, AppendProperties
    <2> QED
      BY ONLY <1>2, <2>1, <2>2, <2>3
  <1>4. AR!TypeOK'
    BY <1>1, <1>2, <1>3 DEF ARInv, AR!TypeOK
  <1>5. Offset' <= dwFileSize'
    BY <1>1, <1>2
  <1>6. /\ \A i \in DOMAIN pieces :
             pieces[i][1] = IF i = 1 THEN 0 ELSE pieces[i - 1][1] + pieces[i - 1][2]
        /\ Offset = IF pieces = <<>> THEN 0 ELSE pieces[Len(pieces)][1] + pieces[Len(pieces)][2]
    BY DEF ARInv, AR!WholeFileRead
  <1>7. AR!Finished' => Offset' = dwFileSize'
    <2>1. Offset' \in Nat /\ (~(Offset' < dwFileSize) => Offset' = dwFileSize)
      BY <1>1, <1>2
    <2>2. AR!Finished' => ~bContinue'
      BY DEF AR!Finished
    <2> QED
      BY <1>2, <2>1, <2>2, Zenon
  <1>8. CASE bytes = 0
    <2>1. Offset' = Offset /\ pieces' = pieces
      BY <1>1, <1>2, <1>8
    <2> QED
      BY <1>2, <1>4, <1>5, <1>6, <1>7, <2>1 DEF ARInv, AR!WholeFileRead
  <1>9. CASE bytes # 0
    <2> DEFINE n == Len(pieces)
               p == <<Offset, bytes>>
    <2>1. /\ n \in Nat /\ DOMAIN pieces = 1 .. n
          /\ pieces' = Append(pieces, p) /\ Len(pieces') = n + 1 /\ DOMAIN pieces' = 1 .. n + 1
          /\ pieces'[n + 1] = p /\ \A i \in 1 .. n : pieces'[i] = pieces[i]
          /\ pieces' # <<>>
      <3>1. pieces' = Append(pieces, p)
        BY <1>2, <1>9
      <3>2. PICK r : r = p
        OBVIOUS
      <3>3. PICK s \in Seq(Nat \X Nat) : s = pieces
        BY <1>3
      <3>4. r \in Nat \X Nat
        BY <1>1, <3>2
      <3>5. /\ Len(s) \in Nat /\ DOMAIN s = 1 .. Len(s)
            /\ Append(s, r) \in Seq(Nat \X Nat) /\ Append(s, r) # <<>>
            /\ Len(Append(s, r)) = Len(s) + 1
            /\ Append(s, r)[Len(s) + 1] = r /\ \A i \in 1 .. Len(s) : Append(s, r)[i] = s[i]
        BY ONLY <3>4, s \in Seq(Nat \X Nat), AppendProperties, LenProperties
      <3>6. DOMAIN Append(s, r) = 1 .. Len(s) + 1
        BY ONLY <3>5, LenProperties
      <3> QED
        BY ONLY <3>1, <3>2, <3>3, <3>5, <3>6
    <2>2. pieces = <<>> <=> n = 0
      BY <1>3
    <2>3. ASSUME NEW i \in 1 .. n + 1
          PROVE  pieces'[i][1] = IF i = 1 THEN 0 ELSE pieces'[i - 1][1] + pieces'[i - 1][2]
      <3>1. CASE i = n + 1
        <4>1. CASE n = 0
          BY <1>6, <2>1, <2>2, <3>1, <4>1
        <4>2. CASE n # 0
          <5>1. n \in 1 .. n /\ i - 1 = n /\ i # 1
            BY <2>1, <3>1, <4>2
          <5>2. pieces'[n] = pieces[n] /\ Offset = pieces[n][1] + pieces[n][2]
            BY <1>6, <2>1, <2>2, <4>2, <5>1
          <5> QED
            BY <2>1, <3>1, <5>1, <5>2
        <4> QED
          BY <4>1, <4>2
      <3>2. CASE i # n + 1
        <4>1. i \in 1 .. n /\ (i # 1 => i - 1 \in 1 .. n)
          BY <2>1, <3>2
        <4>2. pieces[i][1] = IF i = 1 THEN 0 ELSE pieces[i - 1][1] + pieces[i - 1][2]
          BY <1>6, <2>1, <4>1
        <4> QED
          BY <2>1, <4>1, <4>2
      <3> QED
        BY <3>1, <3>2
    <2>4. Offset' = pieces'[Len(pieces')][1] + pieces'[Len(pieces')][2]
      BY <1>2, <2>1
    <2> HIDE DEF n, p
    <2>5. AR!WholeFileRead'
      BY <1>7, <2>1, <2>3, <2>4 DEF AR!WholeFileRead
    <2> QED
      BY <1>2, <1>4, <1>5, <2>5 DEF ARInv
  <1> QED
    BY <1>8, <1>9

LEMMA ARReadFile ==
  ASSUME ARInv, AR!ReadFile
  PROVE  ARInv'
  <1>1. /\ AR!Available \in 0 .. BUF_SIZE /\ 0 \in 0 .. BUF_SIZE
        /\ bContinue' = FALSE /\ UNCHANGED <<dwFileSize, Offset, pieces>>
    BY AvailableBounds DEF ARInv, AR!ReadFile
  <1>2. \/ io' = "complete" /\ dwBytesRead' = AR!Available
        \/ io' \in {"pending", "failed", "eof"} /\ dwBytesRead' = 0
    BY DEF AR!ReadFile
  <1> QED
    BY <1>1, <1>2 DEF ARInv, AR!TypeOK, AR!WholeFileRead, AR!Finished

LEMMA ARCompleteIo ==
  ASSUME ARInv, AR!CompleteIo
  PROVE  ARInv'
  <1>1. /\ io = "pending" /\ io' \in {"complete", "eof", "failed"}
        /\ UNCHANGED <<dwFileSize, Offset, bContinue, dwBytesRead, pieces>>
    BY DEF AR!CompleteIo
  <1> QED
    BY <1>1 DEF ARInv, AR!TypeOK, AR!WholeFileRead, AR!Finished

LEMMA ARGetOverlappedResult ==
  ASSUME ARInv, AR!GetOverlappedResult
  PROVE  ARInv'
  <1>1. /\ AR!Available \in 0 .. BUF_SIZE /\ 0 \in 0 .. BUF_SIZE
        /\ UNCHANGED dwFileSize /\ bContinue \in BOOLEAN
    BY AvailableBounds DEF ARInv, AR!GetOverlappedResult, AR!TypeOK
  <1>2. CASE io = "pending" /\ bContinue' = TRUE /\ UNCHANGED <<Offset, io, dwBytesRead, pieces>>
    BY <1>1, <1>2 DEF ARInv, AR!TypeOK, AR!WholeFileRead, AR!Finished
  <1>3. CASE /\ io \in {"complete", "eof", "failed"}
             /\ dwBytesRead' = IF io = "complete" THEN AR!Available ELSE dwBytesRead
             /\ AR!Advance(dwBytesRead', bContinue)
    <2>1. dwBytesRead' \in {0, AR!Available} /\ dwBytesRead' \in 0 .. BUF_SIZE
      BY <1>1, <1>3 DEF ARInv
    <2> QED
      BY <1>1, <1>3, <2>1, ARAdvances
  <1> QED
    BY <1>2, <1>3 DEF AR!GetOverlappedResult

LEMMA ARNext ==
  ASSUME ARInv, AR!Next
  PROVE  ARInv'
  BY ARReadFile, ARCompleteIo, ARGetOverlappedResult DEF AR!Next

LEMMA ARStutter ==
  ASSUME ARInv, UNCHANGED arVars
  PROVE  ARInv'
  BY DEF ARInv, arVars, AR!TypeOK, AR!WholeFileRead, AR!Finished

-----------------------------------------------------------------------------
(* RecordAccess                                                            *)

Used(counts) == {recno \in DOMAIN counts : counts[recno] # 0}

(* What WriteRecord will do to the number of records in use, as far as     *)
(* the header knows.                                                       *)
Step == IF ~headerChange THEN 0 ELSE IF record.referenceCount = 0 THEN -1 ELSE 1

(* The header is off by d, but between the two writes by one more or less. *)
(* A reference count that has wrapped around is counted in wrapped before  *)
(* it is written.                                                          *)
OffBy(d) ==
  /\ accessAt \in {"closed", "prompt", "record"} =>
       disk.numNonEmptyRecords = (RA!InUse + d) % Wrap
  /\ accessAt = "prompt" => header = disk.numNonEmptyRecords
  /\ accessAt = "record" =>
       /\ record.recno \in DOMAIN disk.referenceCount
       /\ header = (disk.numNonEmptyRecords + Step) % Wrap
       /\ headerChange =>
            (disk.referenceCount[record.recno] = 0 <=> record.referenceCount # 0)
       /\ ~headerChange =>
            /\ header = disk.numNonEmptyRecords
            /\ disk.referenceCount[record.recno] # 0
            /\ record.referenceCount = 0 => d < torn + wrapped
  /\ accessAt = "header" =>
       /\ header = (RA!InUse + d) % Wrap
       /\ \E e \in {-1, 1} : disk.numNonEmptyRecords = (RA!InUse + d + e) % Wrap

DiskType ==
  [numberRecords : Capacities, numNonEmptyRecords : 0 .. Wrap - 1,
   referenceCount : UNION {[0 .. n - 1 -> 0 .. Wrap - 1] : n \in Capacities}]

RAInv ==
  /\ RA!TypeOK
  /\ disk \in DiskType
  /\ \E d \in -torn .. torn + wrapped : OffBy(d)

LEMMA UsedIsFinite ==
  ASSUME NEW n \in Capacities, NEW counts \in [0 .. n - 1 -> 0 .. Wrap - 1]
  PROVE  IsFiniteSet(Used(counts)) /\ Cardinality(Used(counts)) \in Nat
  <1>1. IsFiniteSet(0 .. n - 1)
    BY WorkersConstants, FS_Interval
  <1>2. Used(counts) \subseteq 0 .. n - 1
    BY DEF Used
  <1> QED
    BY <1>1, <1>2, FS_Subset, FS_CardinalityType

(* One count is written.                                                   *)
LEMMA UsedChanges ==
  ASSUME NEW n \in Capacities, NEW counts \in [0 .. n - 1 -> 0 .. Wrap - 1],
         NEW k \in 0 .. n - 1, NEW c \in 0 .. Wrap - 1, NEW new, new = [counts EXCEPT ![k] = c]
  PROVE  Cardinality(Used(new))
           = Cardinality(Used(counts)) + (IF c # 0 THEN 1 ELSE 0) - (IF counts[k] # 0 THEN 1 ELSE 0)
  <1>1. IsFiniteSet(Used(counts)) /\ Cardinality(Used(counts)) \in Nat
    BY UsedIsFinite
  <1>2. k \in Used(counts) <=> counts[k] # 0
    BY DEF Used
  <1>3. CASE c # 0
    <2>1. Used(new) = Used(counts) \cup {k}
      BY <1>3 DEF Used
    <2>2. Cardinality(Used(new))
            = IF k \in Used(counts) THEN Cardinality(Used(counts)) ELSE Cardinality(Used(counts)) + 1
      BY <1>1, <2>1, FS_AddElement
    <2> QED
      BY <1>1, <1>2, <1>3, <2>2
  <1>4. CASE c = 0
    <2>1. Used(new) = Used(counts) \ {k}
      BY <1>4 DEF Used
    <2>2. Cardinality(Used(new))
            = IF k \in Used(counts) THEN Cardinality(Used(counts)) - 1 ELSE Cardinality(Used(counts))
      BY <1>1, <2>1, FS_RemoveElement
    <2> QED
      BY <1>1, <1>2, <1>4, <2>2
  <1> QED
    BY <1>3, <1>4

LEMMA InUseIs ==
  /\ RA!InUse = Cardinality(Used(disk.referenceCount))
  /\ RA!InUse' = Cardinality(Used(disk'.referenceCount))
  <1>1. \A S : RA!Cardinality(S) = Cardinality(S)
    BY DEF RA!Cardinality, Cardinality
  <1>2. RA!InUse = Cardinality(Used(disk.referenceCount))
    BY <1>1 DEF RA!InUse, Used
  <1>3. RA!InUse' = Cardinality(Used(disk'.referenceCount))
    BY <1>1 DEF RA!InUse, Used
  <1> QED
    BY <1>2, <1>3

LEMMA InUseNat ==
  ASSUME RA!TypeOK
  PROVE  RA!InUse \in Nat
  BY InUseIs, UsedIsFinite DEF RA!TypeOK, RA!DWord

LEMMA RecordIsNat ==
  ASSUME RA!TypeOK, NEW k \in DOMAIN disk.referenceCount
  PROVE  k \in Nat
  <1>1. disk.numberRecords \in Nat
    BY WorkersConstants DEF RA!TypeOK
  <1>2. k \in 0 .. disk.numberRecords - 1
    BY DEF RA!TypeOK
  <1> QED
    BY <1>1, <1>2

LEMMA RAInit ==
  ASSUME RA!Init
  PROVE  RAInv
  <1>1. PICK n \in Capacities : disk = RA!Empty(n)
    BY DEF RA!Init
  <1>2. disk \in DiskType /\ RA!TypeOK
    <2>1. [recno \in 0 .. n - 1 |-> 0] \in [0 .. n - 1 -> 0 .. Wrap - 1]
      BY WorkersConstants
    <2>2. 0 \in Nat /\ 0 \in 0 .. Wrap - 1 /\ 0 \in 0 .. MaxTorn /\ 0 \in 0 .. MaxWrapped
      BY WorkersConstants
    <2>3. /\ disk = [numberRecords |-> n, numNonEmptyRecords |-> 0,
                     referenceCount |-> [recno \in 0 .. n - 1 |-> 0]]
          /\ record = [recno |-> 0, referenceCount |-> 0]
      BY <1>1 DEF RA!Init, RA!Empty
    <2>4. disk \in DiskType
      BY <2>1, <2>2, <2>3 DEF DiskType
    <2>5. /\ disk.numberRecords = n /\ disk.numNonEmptyRecords = 0
          /\ disk.referenceCount \in [0 .. n - 1 -> 0 .. Wrap - 1]
          /\ record \in [recno : Nat, referenceCount : 0 .. Wrap - 1]
      BY <2>1, <2>2, <2>3
    <2>6. RA!TypeOK
      BY <2>2, <2>5 DEF RA!Init, RA!TypeOK, RA!DWord
    <2> QED
      BY <2>4, <2>6
  <1>3. Used(disk.referenceCount) = {}
    BY <1>1 DEF RA!Empty, Used
  <1>4. RA!InUse = 0
    BY <1>3, InUseIs, FS_EmptySet
  <1>5. OffBy(0) /\ 0 \in -torn .. torn + wrapped
    BY <1>1, <1>4, WorkersConstants DEF OffBy, RA!Init, RA!Empty
  <1> QED
    BY <1>2, <1>5 DEF RAInv

LEMMA RACreate ==
  ASSUME RAInv, RA!Create
  PROVE  RAInv'
  <1>1. PICK n \in Capacities : disk' = RA!Empty(n)
    BY DEF RA!Create
  <1>2. (disk \in DiskType)' /\ RA!TypeOK'
    <2>1. [recno \in 0 .. n - 1 |-> 0] \in [0 .. n - 1 -> 0 .. Wrap - 1]
      BY WorkersConstants
    <2> QED
      BY <1>1, <2>1, WorkersConstants DEF RA!Create, RA!Empty, RAInv, RA!TypeOK, RA!DWord, DiskType
  <1>3. Used(disk'.referenceCount) = {}
    BY <1>1 DEF RA!Empty, Used
  <1>4. RA!InUse' = 0
    BY <1>3, InUseIs, FS_EmptySet
  <1>5. OffBy(0)' /\ 0 \in -torn' .. torn' + wrapped'
    BY <1>1, <1>4, WorkersConstants DEF OffBy, RA!Create, RA!Empty
  <1> QED
    BY <1>2, <1>5 DEF RAInv

(* A step that leaves the file as it is.                                   *)
LEMMA RAKeepsFile ==
  ASSUME RAInv, RA!TypeOK', disk' = disk,
         \A d \in -torn .. torn + wrapped : OffBy(d) => \E e \in -torn' .. torn' + wrapped' : OffBy(e)'
  PROVE  RAInv'
  BY DEF RAInv

LEMMA RAOpen ==
  ASSUME RAInv, RA!Open
  PROVE  RAInv'
  <1>1. RA!TypeOK'
    BY DEF RA!Open, RAInv, RA!TypeOK
  <1>2. ASSUME NEW d \in -torn .. torn + wrapped, OffBy(d)
        PROVE  d \in -torn' .. torn' + wrapped' /\ OffBy(d)'
    BY <1>2, InUseIs DEF RA!Open, OffBy
  <1>3. disk' = disk
    BY DEF RA!Open
  <1> QED
    BY <1>1, <1>2, <1>3, RAKeepsFile

LEMMA RADelete ==
  ASSUME RAInv, NEW k \in DOMAIN disk.referenceCount, RA!Delete(k)
  PROVE  RAInv'
  <1>1. header \in Int /\ (header - 1) % Wrap \in 0 .. Wrap - 1
    <2>1. header \in Int /\ header - 1 \in Int
      BY WorkersConstants DEF RAInv, RA!TypeOK, RA!DWord
    <2> QED
      BY <2>1, WorkersConstants, Remainder
  <1>2. RA!TypeOK'
    <2>1. k \in Nat /\ 0 \in 0 .. Wrap - 1
      BY RecordIsNat, WorkersConstants DEF RAInv
    <2> QED
      BY <1>1, <2>1 DEF RA!Delete, RAInv, RA!TypeOK, RA!DWord
  <1>3. ASSUME NEW d \in -torn .. torn + wrapped, OffBy(d)
        PROVE  d \in -torn' .. torn' + wrapped' /\ OffBy(d)'
    <2>1. /\ header = disk.numNonEmptyRecords
          /\ disk.numNonEmptyRecords = (RA!InUse + d) % Wrap
          /\ RA!InUse' = RA!InUse /\ disk' = disk /\ torn' = torn /\ wrapped' = wrapped
          /\ header' = (header + (-1)) % Wrap /\ Step' = -1
          /\ accessAt' = "record" /\ headerChange'
          /\ record'.recno = k /\ record'.referenceCount = 0
          /\ disk.referenceCount[k] # 0
      BY <1>1, <1>3, InUseIs DEF RA!Delete, OffBy, Step
    <2> QED
      BY <2>1 DEF OffBy
  <1>4. disk' = disk
    BY DEF RA!Delete
  <1> QED
    BY <1>2, <1>3, <1>4, RAKeepsFile

LEMMA RAWrite ==
  ASSUME RAInv, NEW k \in DOMAIN disk.referenceCount, RA!Write(k)
  PROVE  RAInv'
  <1> DEFINE count == disk.referenceCount[k]
  <1>1. header \in 0 .. Wrap - 1 /\ count \in 0 .. Wrap - 1
    BY DEF RAInv, RA!TypeOK, RA!DWord
  <1>2. /\ (count + 1) % Wrap \in 0 .. Wrap - 1
        /\ (count + 1) % Wrap = IF count = Wrap - 1 THEN 0 ELSE count + 1
        /\ (header + 1) % Wrap \in 0 .. Wrap - 1
    <2> HIDE DEF count
    <2> QED
      BY <1>1, WorkersConstants
  <1>3. RA!TypeOK'
    <2>1. wrapped' \in 0 .. MaxWrapped
      <3>1. /\ wrapped' = wrapped + (IF count = Wrap - 1 THEN 1 ELSE 0)
            /\ wrapped' <= MaxWrapped
        BY DEF RA!Write
      <3>2. wrapped \in Nat
        BY DEF RAInv, RA!TypeOK
      <3>3. MaxWrapped \in Nat
        BY WorkersConstants
      <3> HIDE DEF count
      <3> QED
        BY <3>1, <3>2, <3>3
    <2>2. k \in Nat
      BY RecordIsNat DEF RAInv
    <2> QED
      BY <1>1, <1>2, <2>1, <2>2 DEF RA!Write, RAInv, RA!TypeOK, RA!DWord
  <1>4. ASSUME NEW d \in -torn .. torn + wrapped, OffBy(d)
        PROVE  d \in -torn' .. torn' + wrapped' /\ OffBy(d)'
    <2>1. /\ header = disk.numNonEmptyRecords
          /\ disk.numNonEmptyRecords = (RA!InUse + d) % Wrap
          /\ RA!InUse' = RA!InUse /\ disk' = disk /\ torn' = torn
          /\ accessAt' = "record"
          /\ record'.recno = k /\ record'.referenceCount = (count + 1) % Wrap
          /\ headerChange' <=> count = 0
          /\ header' = IF count = 0 THEN (header + 1) % Wrap ELSE header
          /\ wrapped' = wrapped + (IF count = Wrap - 1 THEN 1 ELSE 0)
      BY <1>1, <1>4, InUseIs DEF RA!Write, OffBy
    <2>2. torn \in Nat /\ wrapped \in Nat
      BY DEF RAInv, RA!TypeOK
    <2>3. d \in -torn' .. torn' + wrapped'
      BY <2>1, <2>2
    <2>4. CASE count = 0
      <3>1. record'.referenceCount = 1
        BY <1>2, <2>1, <2>4, WorkersConstants
      <3>2. Step' = 1 /\ headerChange'
        BY <2>1, <2>4, <3>1 DEF Step
      <3>3. header' = (disk'.numNonEmptyRecords + Step') % Wrap
        BY <2>1, <2>4, <3>2
      <3> HIDE DEF count
      <3>4. disk'.referenceCount[record'.recno] = 0
        BY <2>1, <2>4 DEF count
      <3>5. record'.recno \in DOMAIN disk'.referenceCount /\ accessAt' = "record"
            /\ disk'.numNonEmptyRecords = (RA!InUse' + d) % Wrap
        BY <2>1
      <3> QED
        BY <2>3, <3>1, <3>2, <3>3, <3>4, <3>5 DEF OffBy
    <2>5. CASE count # 0
      <3>1. ~headerChange' /\ Step' = 0 /\ header' = disk'.numNonEmptyRecords
        BY <2>1, <2>5 DEF Step
      <3>2. header' = (disk'.numNonEmptyRecords + Step') % Wrap
        <4>1. disk'.numNonEmptyRecords = header /\ Wrap \in Nat \ {0}
          BY <2>1, WorkersConstants
        <4>2. PICK m \in Nat : m = header /\ m < Wrap
          BY <1>1, <4>1
        <4>3. m + 0 = m /\ m % Wrap = m
          BY <4>1, <4>2
        <4> QED
          BY <3>1, <4>1, <4>2, <4>3
      <3>3. record'.referenceCount = 0 => d < torn' + wrapped'
        BY <1>1, <1>2, <2>1, <2>2
      <3>4. disk'.referenceCount[record'.recno] # 0
        BY <2>1, <2>5
      <3>5. record'.recno \in DOMAIN disk'.referenceCount /\ accessAt' = "record"
            /\ disk'.numNonEmptyRecords = (RA!InUse' + d) % Wrap
        BY <2>1
      <3> QED
        BY <2>3, <3>1, <3>2, <3>3, <3>4, <3>5 DEF OffBy
    <2> QED
      BY <2>3, <2>4, <2>5
  <1>5. disk' = disk
    BY DEF RA!Write
  <1> QED
    BY <1>3, <1>4, <1>5, RAKeepsFile

LEMMA RAWriteRecord ==
  ASSUME RAInv, RA!WriteRecord
  PROVE  RAInv'
  <1>1. PICK d \in -torn .. torn + wrapped : OffBy(d)
    BY DEF RAInv
  <1> DEFINE n == disk.numberRecords
             counts == disk.referenceCount
             k == record.recno
             c == record.referenceCount
  <1>2. /\ n \in Capacities /\ counts \in [0 .. n - 1 -> 0 .. Wrap - 1]
        /\ k \in 0 .. n - 1 /\ c \in 0 .. Wrap - 1
        /\ disk.numNonEmptyRecords \in 0 .. Wrap - 1
    BY <1>1 DEF RAInv, RA!TypeOK, RA!DWord, RA!WriteRecord, OffBy
  <1>3. /\ disk'.numberRecords = n
        /\ disk'.numNonEmptyRecords = disk.numNonEmptyRecords
        /\ disk'.referenceCount = [counts EXCEPT ![k] = c]
        /\ disk' \in [numberRecords : Capacities, numNonEmptyRecords : 0 .. Wrap - 1,
                      referenceCount : {disk'.referenceCount}]
    BY <1>2 DEF RA!WriteRecord, RAInv, DiskType
  <1>4. disk'.referenceCount \in [0 .. n - 1 -> 0 .. Wrap - 1]
    BY <1>2, <1>3
  <1>5. (disk \in DiskType)' /\ RA!TypeOK'
    <2>1. (disk \in DiskType)'
      BY <1>2, <1>3, <1>4 DEF DiskType
    <2>2. RA!TypeOK'
      BY <1>2, <1>3, <1>4 DEF RA!WriteRecord, RAInv, RA!TypeOK, RA!DWord
    <2> QED
      BY <2>1, <2>2
  <1>6. RA!InUse' = RA!InUse + (IF c # 0 THEN 1 ELSE 0) - (IF counts[k] # 0 THEN 1 ELSE 0)
    <2>1. Cardinality(Used(disk'.referenceCount))
            = Cardinality(Used(counts)) + (IF c # 0 THEN 1 ELSE 0) - (IF counts[k] # 0 THEN 1 ELSE 0)
      <3>1. PICK size, old, at, by, new :
              size = n /\ old = counts /\ at = k /\ by = c /\ new = disk'.referenceCount
        OBVIOUS
      <3> HIDE DEF n, counts, k, c
      <3>2. /\ size \in Capacities /\ old \in [0 .. size - 1 -> 0 .. Wrap - 1]
            /\ at \in 0 .. size - 1 /\ by \in 0 .. Wrap - 1 /\ new = [old EXCEPT ![at] = by]
        BY ONLY <1>2, <1>3, <3>1
      <3>3. Cardinality(Used(new))
              = Cardinality(Used(old)) + (IF by # 0 THEN 1 ELSE 0) - (IF old[at] # 0 THEN 1 ELSE 0)
        BY ONLY <3>2, UsedChanges
      <3> QED
        BY ONLY <3>1, <3>3
    <2> QED
      BY <2>1, InUseIs
  <1>7. RA!InUse \in Nat /\ d \in Int /\ torn \in Nat /\ wrapped \in Nat
    BY InUseNat DEF RAInv, RA!TypeOK
  <1>8. /\ disk.numNonEmptyRecords = (RA!InUse + d) % Wrap
        /\ header = (disk.numNonEmptyRecords + Step) % Wrap
        /\ headerChange => (counts[k] = 0 <=> c # 0)
        /\ ~headerChange =>
             /\ header = disk.numNonEmptyRecords
             /\ counts[k] # 0
             /\ c = 0 => d < torn + wrapped
        /\ accessAt' = IF headerChange THEN "header" ELSE "prompt"
        /\ UNCHANGED <<header, torn, wrapped>>
    BY <1>1 DEF RA!WriteRecord, OffBy
  <1>9. CASE headerChange
    <2>1. Step \in {-1, 1} /\ Step \in Int /\ RA!InUse' = RA!InUse + Step
      BY <1>6, <1>7, <1>8, <1>9 DEF Step
    <2>2. header' = (RA!InUse' + d) % Wrap
      <3>1. (((RA!InUse + d) % Wrap) + Step) % Wrap = (RA!InUse + d + Step) % Wrap
        <4> DEFINE x == RA!InUse + d
                   s == Step
        <4>1. x \in Int /\ s \in Int
          BY <1>7, <2>1
        <4> HIDE DEF x, s
        <4>2. ((x % Wrap) + s) % Wrap = (x + s) % Wrap
          BY <4>1, WorkersConstants, RemainderPlus
        <4> QED
          BY <4>2 DEF x, s
      <3>2. RA!InUse + d + Step = RA!InUse' + d
        BY <1>7, <2>1
      <3> QED
        BY <1>8, <3>1, <3>2
    <2>3. -Step \in {-1, 1} /\ disk'.numNonEmptyRecords = (RA!InUse' + d + (-Step)) % Wrap
      <3>1. RA!InUse + d = RA!InUse' + d + (-Step)
        BY <1>7, <2>1
      <3> QED
        BY <1>3, <1>8, <2>1, <3>1
    <2>4. accessAt' = "header"
      BY <1>8, <1>9
    <2>5. OffBy(d)'
      BY <2>2, <2>3, <2>4 DEF OffBy
    <2>6. d \in -torn' .. torn' + wrapped'
      BY <1>8
    <2> QED
      BY <1>5, <2>5, <2>6 DEF RAInv
  <1>10. CASE ~headerChange
    <2> PICK e \in Int : e = IF c = 0 THEN d + 1 ELSE d
      BY <1>7
    <2>1. RA!InUse + d = RA!InUse' + e /\ e \in -torn' .. torn' + wrapped'
      BY <1>6, <1>7, <1>8, <1>10
    <2>2. OffBy(e)'
      <3>1. disk'.numNonEmptyRecords = (RA!InUse' + e) % Wrap
        BY <1>3, <1>8, <2>1
      <3>2. accessAt' = "prompt" /\ header' = disk'.numNonEmptyRecords
        BY <1>3, <1>8, <1>10
      <3> QED
        BY <3>1, <3>2 DEF OffBy
    <2> QED
      BY <1>5, <2>1, <2>2 DEF RAInv
  <1> QED
    BY <1>9, <1>10

LEMMA RAWriteHeader ==
  ASSUME RAInv, RA!WriteHeader
  PROVE  RAInv'
  <1>1. PICK d \in -torn .. torn + wrapped : OffBy(d)
    BY DEF RAInv
  <1>2. /\ disk'.referenceCount = disk.referenceCount
        /\ disk'.numNonEmptyRecords = header
        /\ disk'.numberRecords = disk.numberRecords
        /\ (disk \in DiskType)'
    BY DEF RA!WriteHeader, RAInv, DiskType, RA!TypeOK, RA!DWord
  <1>3. RA!TypeOK'
    BY <1>2 DEF RA!WriteHeader, RAInv, RA!TypeOK
  <1>4. RA!InUse' = RA!InUse
    BY <1>2, InUseIs
  <1>5. OffBy(d)' /\ d \in -torn' .. torn' + wrapped'
    BY <1>1, <1>2, <1>4 DEF RA!WriteHeader, OffBy
  <1> QED
    BY <1>2, <1>3, <1>5 DEF RAInv

LEMMA RAQuit ==
  ASSUME RAInv, RA!Quit
  PROVE  RAInv'
  <1>1. RA!TypeOK'
    BY DEF RA!Quit, RAInv, RA!TypeOK
  <1>2. ASSUME NEW d \in -torn .. torn + wrapped, OffBy(d)
        PROVE  d \in -torn' .. torn' + wrapped' /\ OffBy(d)'
    BY <1>2, InUseIs DEF RA!Quit, OffBy
  <1>3. disk' = disk
    BY DEF RA!Quit
  <1> QED
    BY <1>1, <1>2, <1>3, RAKeepsFile

LEMMA RACrash ==
  ASSUME RAInv, RA!Crash
  PROVE  RAInv'
  <1>1. RA!TypeOK'
    BY WorkersConstants DEF RA!Crash, RAInv, RA!TypeOK
  <1>2. disk' = disk /\ RA!InUse' = RA!InUse /\ accessAt' = "closed" /\ wrapped' = wrapped
    BY InUseIs DEF RA!Crash
  <1>3. torn \in Nat /\ wrapped \in Nat /\ RA!InUse \in Nat
    BY InUseNat DEF RAInv, RA!TypeOK
  <1>4. ASSUME NEW d \in -torn .. torn + wrapped, OffBy(d)
        PROVE  \E e \in -torn' .. torn' + wrapped' : OffBy(e)'
    <2>1. CASE accessAt = "record"
      <3>1. OffBy(d)' /\ torn' = torn
        BY <1>2, <1>3, <1>4, <2>1 DEF RA!Crash, OffBy
      <3> QED
        BY <1>2, <3>1
    <2>2. CASE accessAt = "header"
      <3>1. PICK e \in {-1, 1} : disk.numNonEmptyRecords = (RA!InUse + d + e) % Wrap
        BY <1>4, <2>2 DEF OffBy
      <3>2. torn' = torn + 1
        BY <2>2 DEF RA!Crash
      <3>3. d + e \in -torn' .. torn' + wrapped' /\ RA!InUse + d + e = RA!InUse' + (d + e)
        BY <1>2, <1>3, <3>2
      <3>4. disk'.numNonEmptyRecords = (RA!InUse' + (d + e)) % Wrap
        BY <1>2, <3>1, <3>3
      <3>5. OffBy(d + e)'
        BY <1>2, <3>4 DEF OffBy
      <3> QED
        BY <3>3, <3>5
    <2> QED
      BY <2>1, <2>2 DEF RA!Crash
  <1> QED
    BY <1>1, <1>2, <1>4, RAKeepsFile

LEMMA RANext ==
  ASSUME RAInv, RA!Next
  PROVE  RAInv'
  BY RACreate, RAOpen, RADelete, RAWrite, RAWriteRecord, RAWriteHeader, RAQuit, RACrash DEF RA!Next

LEMMA RAStutter ==
  ASSUME RAInv, UNCHANGED raVars
  PROVE  RAInv'
  BY InUseIs DEF RAInv, raVars, RA!TypeOK, OffBy, Step

-----------------------------------------------------------------------------
(* Overlapped                                                              *)

(* A record with the remainder of another, and before the next of its      *)
(* slot, is not behind it.                                                 *)
LEMMA SameSlot ==
  ASSUME NEW w \in Nat \ {0}, NEW m \in Int, NEW n \in Int, m % w = n % w, m < n + w
  PROVE  m <= n
  <1>1. PICK p \in Int : m = w * p + (m % w)
    BY Remainder
  <1>2. PICK q \in Int : n = w * q + (n % w)
    BY Remainder
  <1>3. m % w \in Int
    BY Remainder
  <1>4. w * p - w * q = w * (p - q) /\ p - q \in Int
    BY ProductSum
  <1> DEFINE r == p - q
             z == w * r
  <1>5. m - n = z /\ r \in Int /\ z = w * r
    BY <1>1, <1>2, <1>3, <1>4
  <1> HIDE DEF r
  <1>6. z < w /\ z \in Int
    BY <1>5
  <1>7. r <= 0
    BY <1>5, <1>6
  <1>8. z <= 0
    BY <1>5, <1>7
  <1> QED
    BY <1>5, <1>6, <1>8

(* The file has nRecords records, the last of them perhaps short.          *)
LEMMA RecordsOfFile ==
  ASSUME fileSize \in Nat
  PROVE  /\ OV!nRecords \in Nat
         /\ \A k \in Int : k < OV!nRecords <=> k * REC_SIZE < fileSize
  <1> DEFINE x == fileSize + REC_SIZE - 1
             q == x \div REC_SIZE
             r == x % REC_SIZE
  <1>1. x \in Int /\ REC_SIZE \in Nat \ {0}
    BY WorkersConstants
  <1>2. q \in Int /\ x = REC_SIZE * q + r /\ r \in 0 .. REC_SIZE - 1 /\ OV!nRecords = q
    <2>1. OV!nRecords = q
      BY DEF OV!nRecords
    <2> HIDE DEF x
    <2> QED
      BY <1>1, <2>1, Quotient
  <1> HIDE DEF q, r
  <1>3. q * REC_SIZE = x - r /\ q * REC_SIZE \in Int /\ fileSize <= q * REC_SIZE
        /\ q * REC_SIZE < fileSize + REC_SIZE
    BY <1>1, <1>2
  <1>4. q \in Nat
    <2>1. \A m \in Int : m = 0 => ~(q * REC_SIZE < m * REC_SIZE) /\ m * REC_SIZE = 0
      BY <1>1, <1>3
    <2>2. \A m \in Int : q * REC_SIZE < m * REC_SIZE <=> q < m
      BY <1>1, <1>2, Scale
    <2>3. PICK m \in Int : m = 0
      OBVIOUS
    <2> QED
      BY <1>2, <2>1, <2>2, <2>3
  <1>5. ASSUME NEW k \in Int
        PROVE  k < q <=> k * REC_SIZE < fileSize
    <2>1. CASE k < q
      <3>1. k * REC_SIZE <= (q - 1) * REC_SIZE /\ (q - 1) * REC_SIZE = q * REC_SIZE - REC_SIZE
        <4>1. ~(q - 1 < k) /\ q - 1 \in Int
          BY <1>2, <2>1
        <4>2. ~((q - 1) * REC_SIZE < k * REC_SIZE)
          BY <1>1, <4>1, Scale
        <4> QED
          BY <1>1, <1>2, <4>1, <4>2
      <3> QED
        BY <1>1, <1>3, <2>1, <3>1
    <2>2. CASE ~(k < q)
      <3>1. ~(k * REC_SIZE < q * REC_SIZE) /\ k * REC_SIZE \in Int
        BY <1>1, <1>2, <2>2, Scale
      <3> QED
        BY <1>3, <2>2, <3>1
    <2> QED
      BY <2>1, <2>2
  <1> QED
    BY <1>2, <1>4, <1>5

(* A slot is at a record of its own. *)
Place(pos, ic) == \E k \in Nat : pos = k * REC_SIZE /\ k % MAX_OVERLP = ic

RecordsBelow(position) ==
  {k \in 0 .. OV!nRecords - 1 : k * REC_SIZE < position[k % MAX_OVERLP]}

LEMMA RecordsBelowFinite ==
  ASSUME fileSize \in Nat, NEW position
  PROVE  /\ IsFiniteSet(RecordsBelow(position))
         /\ Cardinality(RecordsBelow(position)) \in 0 .. OV!nRecords
         /\ Cardinality(RecordsBelow(position)) = OV!nRecords
              => RecordsBelow(position) = 0 .. OV!nRecords - 1
  <1>1. OV!nRecords \in Nat
    BY RecordsOfFile
  <1>2. PICK S : S = 0 .. OV!nRecords - 1
    OBVIOUS
  <1>3. IsFiniteSet(S) /\ Cardinality(S) = OV!nRecords
    <2>1. PICK b \in Int : b = OV!nRecords - 1
      BY <1>1
    <2>2. 0 \in Int
      OBVIOUS
    <2>3. IsFiniteSet(0 .. b) /\ Cardinality(0 .. b) = IF 0 > b THEN 0 ELSE b - 0 + 1
      BY <2>1, <2>2, FS_Interval
    <2> QED
      BY <1>1, <1>2, <2>1, <2>3
  <1>4. RecordsBelow(position) \in SUBSET S
    BY <1>2 DEF RecordsBelow
  <1>5. /\ IsFiniteSet(RecordsBelow(position))
        /\ Cardinality(RecordsBelow(position)) <= Cardinality(S)
        /\ Cardinality(S) = Cardinality(RecordsBelow(position)) => S = RecordsBelow(position)
    BY <1>3, <1>4, FS_Subset
  <1>6. Cardinality(RecordsBelow(position)) \in Nat
    BY <1>5, FS_CardinalityType
  <1> QED
    BY <1>1, <1>2, <1>3, <1>5, <1>6

(* A slot that goes on to its next record has done one record more.        *)
LEMMA OneMoreRecord ==
  ASSUME fileSize \in Nat, NEW position \in [OV!Ics -> Nat], NEW ic \in OV!Ics,
         NEW k \in Nat, position[ic] = k * REC_SIZE, k % MAX_OVERLP = ic,
         position[ic] < fileSize,
         NEW next \in [OV!Ics -> Nat],
         \A j \in OV!Ics : next[j] = IF j = ic THEN position[j] + REC_SIZE * MAX_OVERLP
                                              ELSE position[j]
  PROVE  /\ RecordsBelow(next) = RecordsBelow(position) \cup {k}
         /\ k \notin RecordsBelow(position)
         /\ Cardinality(RecordsBelow(next)) = Cardinality(RecordsBelow(position)) + 1
         /\ Place(next[ic], ic)
  <1>1. /\ REC_SIZE \in Nat \ {0} /\ MAX_OVERLP \in Nat \ {0} /\ k \in Int
        /\ OV!nRecords \in Nat
    BY WorkersConstants, RecordsOfFile
  <1>2. k \in 0 .. OV!nRecords - 1
    BY <1>1, RecordsOfFile
  <1>3. next[ic] = (k + MAX_OVERLP) * REC_SIZE /\ k + MAX_OVERLP \in Nat
    BY <1>1
  <1>4. k \notin RecordsBelow(position)
    BY <1>1 DEF RecordsBelow
  <1>5. ASSUME NEW m \in 0 .. OV!nRecords - 1
        PROVE  m \in RecordsBelow(next) <=> m \in RecordsBelow(position) \/ m = k
    <2>1. m \in Int /\ m % MAX_OVERLP \in OV!Ics
      <3>1. m \in Int
        OBVIOUS
      <3> QED
        BY <1>1, <3>1, Remainder DEF OV!Ics
    <2>2. CASE m % MAX_OVERLP # ic
      BY <2>1, <2>2 DEF RecordsBelow
    <2>3. CASE m % MAX_OVERLP = ic
      <3>1. m \in RecordsBelow(next) <=> m < k + MAX_OVERLP
        <4>1. m \in RecordsBelow(next) <=> m * REC_SIZE < (k + MAX_OVERLP) * REC_SIZE
          BY <1>3, <2>3 DEF RecordsBelow
        <4>2. PICK n \in Int : n = k + MAX_OVERLP
          BY <1>1
        <4>3. m * REC_SIZE < n * REC_SIZE <=> m < n
          BY <1>1, <2>1, Scale
        <4> QED
          BY <4>1, <4>2, <4>3
      <3>2. m \in RecordsBelow(position) <=> m < k
        <4>1. m * REC_SIZE < k * REC_SIZE <=> m < k
          BY <1>1, <2>1, Scale
        <4> QED
          BY <2>3, <4>1 DEF RecordsBelow
      <3>3. m < k + MAX_OVERLP => m <= k
        BY <1>1, <2>1, <2>3, SameSlot
      <3>4. m <= k => m < k + MAX_OVERLP
        BY <1>1, <2>1
      <3>5. m <= k <=> m < k \/ m = k
        BY <1>1, <2>1
      <3> QED
        BY <3>1, <3>2, <3>3, <3>4, <3>5
    <2> QED
      BY <2>2, <2>3
  <1>6. RecordsBelow(next) = RecordsBelow(position) \cup {k}
    BY <1>2, <1>5 DEF RecordsBelow
  <1>7. IsFiniteSet(RecordsBelow(position))
    BY RecordsBelowFinite
  <1>8. Cardinality(RecordsBelow(next)) = Cardinality(RecordsBelow(position)) + 1
    BY <1>4, <1>6, <1>7, FS_AddElement
  <1>9. Place(next[ic], ic)
    <2>1. PICK n \in Nat : n = k + MAX_OVERLP
      BY <1>3
    <2>2. n % MAX_OVERLP = ic
      <3>1. PICK q \in Int : k = MAX_OVERLP * q + ic /\ ic \in 0 .. MAX_OVERLP - 1 /\ ic \in Int
        BY <1>1, Remainder
      <3>2. MAX_OVERLP * (q + 1) = MAX_OVERLP * q + MAX_OVERLP
        BY <1>1
      <3>3. n = MAX_OVERLP * (q + 1) + ic
        BY <1>1, <2>1, <3>1, <3>2
      <3>4. PICK p \in Int : p = q + 1
        BY <3>1
      <3> QED
        BY <1>1, <3>1, <3>3, <3>4, RemainderIs
    <2> QED
      BY <1>3, <2>1, <2>2 DEF Place
  <1> QED
    BY <1>4, <1>6, <1>8, <1>9

(* Where a slot writes the record it has read, or will read next. *)
WritesTo ==
  [ic \in OV!Ics |-> IF operation[ic] \in {"writing", "written"} THEN offsetOut[ic] ELSE offset[ic]]

Converted(pos) == (OV!Input(pos) + shift) % Byte

Written(pos) == \A i \in 0 .. OV!ReadLength(pos) - 1 : output[pos + i] # OV!Unwritten

(* What the record of a slot is, and how far it has been copied.           *)
SlotInv(ic) ==
  /\ Place(offset[ic], ic)
  /\ operation[ic] = "none" => ~(offset[ic] < fileSize)
  /\ operation[ic] \in {"reading", "read"} =>
       offset[ic] < fileSize /\ nBytes[ic] = OV!ReadLength(offset[ic])
  /\ operation[ic] = "read" =>
       \A i \in 0 .. nBytes[ic] - 1 : rawRec[ic][i] = OV!Input(offset[ic] + i)
  /\ operation[ic] \in {"writing", "written"} =>
       /\ Place(offsetOut[ic], ic)
       /\ offsetOut[ic] < fileSize /\ nBytes[ic] = OV!ReadLength(offsetOut[ic])
       /\ offset[ic] = offsetOut[ic] + REC_SIZE * MAX_OVERLP
       /\ \A i \in 0 .. nBytes[ic] - 1 : ccRec[ic][i] = Converted(offsetOut[ic] + i)
  /\ operation[ic] = "written" => Written(offsetOut[ic])

(* The records passed by the reads and by the writes have been handled,    *)
(* each once by each, and those passed by the writes are written.          *)
OVInv ==
  /\ OV!TypeOK
  /\ \A ic \in OV!Ics : SlotInv(ic)
  /\ \A pos \in DOMAIN output : output[pos] \in {OV!Unwritten, Converted(pos)}
  /\ \A k \in RecordsBelow(WritesTo) : Written(k * REC_SIZE)
  /\ nDone = Cardinality(RecordsBelow(offset)) + Cardinality(RecordsBelow(WritesTo))

LEMMA OVNat ==
  ASSUME OV!TypeOK
  PROVE  /\ fileSize \in Nat /\ shift \in Nat
         /\ REC_SIZE \in Nat \ {0} /\ MAX_OVERLP \in Nat \ {0} /\ Byte \in Nat \ {0, 1}
         /\ offset \in [OV!Ics -> Nat] /\ offsetOut \in [OV!Ics -> Nat]
         /\ WritesTo \in [OV!Ics -> Nat]
  <1>1. fileSize \in Nat /\ shift \in Nat /\ Byte \in Nat \ {0, 1}
    BY WorkersConstants DEF OV!TypeOK, OV!Bytes
  <1>2. offset \in [OV!Ics -> Nat] /\ offsetOut \in [OV!Ics -> Nat]
    BY DEF OV!TypeOK
  <1>3. WritesTo \in [OV!Ics -> Nat]
    BY <1>2 DEF WritesTo
  <1> QED
    BY <1>1, <1>2, <1>3, WorkersConstants

LEMMA ReadLengthIs ==
  ASSUME fileSize \in Nat, NEW pos \in Nat
  PROVE  /\ OV!ReadLength(pos) \in 0 .. REC_SIZE
         /\ pos < fileSize => pos + OV!ReadLength(pos) <= fileSize
         /\ \A i \in 0 .. REC_SIZE - 1 : pos + i < fileSize => i \in 0 .. OV!ReadLength(pos) - 1
         /\ OV!Reads(pos) = IF pos < fileSize THEN "reading" ELSE "none"
  BY WorkersConstants DEF OV!ReadLength, OV!Reads

LEMMA ConvertedIsByte ==
  ASSUME OV!TypeOK, NEW pos \in Nat
  PROVE  /\ Converted(pos) \in OV!Bytes /\ OV!Input(pos) \in OV!Bytes
         /\ Converted(pos) # OV!Unwritten
         /\ OV!Shifted(OV!Input(pos)) = Converted(pos)
  <1>1. Byte \in Nat \ {0} /\ shift \in Int
    BY OVNat
  <1>2. OV!Input(pos) \in 0 .. Byte - 1
    BY <1>1, Remainder DEF OV!Input
  <1>3. PICK x \in Int : x = OV!Input(pos) + shift
    BY <1>1, <1>2
  <1>4. x % Byte \in 0 .. Byte - 1
    BY <1>1, Remainder
  <1>5. Converted(pos) = x % Byte /\ OV!Shifted(OV!Input(pos)) = Converted(pos)
    BY <1>3 DEF Converted, OV!Shifted
  <1> QED
    BY <1>1, <1>2, <1>4, <1>5 DEF OV!Bytes, OV!Unwritten

LEMMA OVInit ==
  ASSUME OV!Init
  PROVE  OVInv
  <1>1. /\ fileSize \in FileSizes /\ fileSize \in Nat
        /\ REC_SIZE \in Nat \ {0} /\ MAX_OVERLP \in Nat \ {0} /\ Byte \in Nat \ {0, 1}
    BY WorkersConstants DEF OV!Init
  <1>2. \A ic \in OV!Ics : ic \in Nat /\ ic \in 0 .. MAX_OVERLP - 1 /\ ic * REC_SIZE \in Nat
    BY <1>1 DEF OV!Ics
  <1>3. /\ offset \in [OV!Ics -> Nat] /\ offsetOut \in [OV!Ics -> Nat]
        /\ \A ic \in OV!Ics : offset[ic] = ic * REC_SIZE
    BY <1>2 DEF OV!Init
  <1>4. /\ nBytes \in [OV!Ics -> 0 .. REC_SIZE]
        /\ operation \in [OV!Ics -> {"none", "reading"}]
        /\ \A ic \in OV!Ics :
             /\ nBytes[ic] = OV!ReadLength(offset[ic])
             /\ operation[ic] = IF offset[ic] < fileSize THEN "reading" ELSE "none"
    BY <1>1, <1>2, <1>3, ReadLengthIs DEF OV!Init
  <1>5. rawRec \in [OV!Ics -> OV!Record] /\ ccRec \in [OV!Ics -> OV!Record]
    BY DEF OV!Init, OV!Record
  <1>6. OV!nRecords \in Nat
    BY <1>1, RecordsOfFile
  <1>7. OV!TypeOK
    <2>1. nDone \in 0 .. 2 * OV!nRecords
      BY <1>6 DEF OV!Init
    <2>2. shift \in OV!Bytes /\ extended \in BOOLEAN
      BY <1>1 DEF OV!Init, OV!Bytes
    <2>3. output \in [0 .. fileSize - 1 -> OV!Bytes \cup {OV!Unwritten}]
      BY DEF OV!Init
    <2> QED
      BY <1>1, <1>3, <1>4, <1>5, <2>1, <2>2, <2>3 DEF OV!TypeOK
  <1>8. \A k \in Nat : k % MAX_OVERLP \in OV!Ics /\ k % MAX_OVERLP \in Int /\ k % MAX_OVERLP <= k
    <2> TAKE k \in Nat
    <2>1. PICK r \in 0 .. MAX_OVERLP - 1 : r = k % MAX_OVERLP
      BY <1>1, Remainder
    <2>2. r % MAX_OVERLP = r
      <3>1. PICK q \in Int : q = 0
        OBVIOUS
      <3>2. r = MAX_OVERLP * q + r
        BY <1>1, <3>1
      <3> QED
        BY <1>1, <3>2, RemainderIs
    <2>3. r \in Int /\ r < k + MAX_OVERLP
      BY <1>1
    <2>4. r <= k
      <3>1. k \in Int /\ r % MAX_OVERLP = k % MAX_OVERLP
        BY <2>1, <2>2
      <3> QED
        BY <1>1, <2>3, <3>1, SameSlot
    <2> QED
      BY <2>1, <2>3, <2>4 DEF OV!Ics
  <1>9. ASSUME NEW ic \in OV!Ics
        PROVE  SlotInv(ic)
    <2>1. ic % MAX_OVERLP = ic
      <3>1. PICK q \in Int : q = 0
        OBVIOUS
      <3>2. ic = MAX_OVERLP * q + ic
        BY <1>1, <1>2, <3>1
      <3> QED
        BY <1>1, <1>2, <3>2, RemainderIs
    <2>2. Place(offset[ic], ic)
      BY <1>2, <1>3, <2>1 DEF Place
    <2>3. operation[ic] \in {"none", "reading"}
      BY <1>4
    <2> QED
      BY <1>4, <2>2, <2>3 DEF SlotInv
  <1>10. WritesTo = offset
    <2>1. \A ic \in OV!Ics : operation[ic] \notin {"writing", "written"}
      BY <1>4
    <2> QED
      BY <1>3, <2>1 DEF WritesTo
  <1>11. RecordsBelow(offset) = {}
    <2>1. ASSUME NEW k \in 0 .. OV!nRecords - 1
          PROVE  ~(k * REC_SIZE < offset[k % MAX_OVERLP])
      <3>1. k \in Nat /\ k \in Int
        OBVIOUS
      <3>2. PICK r \in Int : r = k % MAX_OVERLP /\ r \in OV!Ics /\ r <= k
        BY <1>8, <3>1
      <3>3. ~(k * REC_SIZE < r * REC_SIZE)
        <4>1. ~(k < r)
          BY <3>1, <3>2
        <4> QED
          BY <1>1, <3>1, <4>1, Scale
      <3> QED
        BY <1>3, <3>2, <3>3
    <2> QED
      BY <2>1 DEF RecordsBelow
  <1>12. Cardinality(RecordsBelow(offset)) = 0 /\ nDone = 0
    BY <1>11, FS_EmptySet DEF OV!Init
  <1>13. \A pos \in DOMAIN output : output[pos] = OV!Unwritten
    BY DEF OV!Init
  <1> QED
    BY <1>7, <1>9, <1>10, <1>11, <1>12, <1>13 DEF OVInv

(* A slot that another one's step leaves alone.                            *)
LEMMA SlotKept ==
  ASSUME OV!TypeOK, NEW ic \in OV!Ics, SlotInv(ic),
         fileSize' = fileSize, shift' = shift,
         operation'[ic] = operation[ic], nBytes'[ic] = nBytes[ic], offset'[ic] = offset[ic],
         offsetOut'[ic] = offsetOut[ic], rawRec'[ic] = rawRec[ic], ccRec'[ic] = ccRec[ic],
         \A pos \in DOMAIN output : output[pos] # OV!Unwritten => output'[pos] # OV!Unwritten
  PROVE  SlotInv(ic)'
  <1>1. operation[ic] = "written" => Written(offsetOut[ic])'
    <2> SUFFICES ASSUME operation[ic] = "written"
                 PROVE  Written(offsetOut[ic])'
      OBVIOUS
    <2>1. Written(offsetOut[ic]) /\ offsetOut[ic] < fileSize
      BY DEF SlotInv
    <2>2. fileSize \in Nat /\ offsetOut[ic] \in Nat
      BY OVNat
    <2>3. offsetOut[ic] + OV!ReadLength(offsetOut[ic]) <= fileSize
          /\ OV!ReadLength(offsetOut[ic]) \in Int
      <3>1. REC_SIZE \in Nat
        BY WorkersConstants
      <3> QED
        BY <2>1, <2>2, <3>1, ReadLengthIs
    <2>4. DOMAIN output = 0 .. fileSize - 1
      BY DEF OV!TypeOK
    <2>5. ASSUME NEW i \in 0 .. OV!ReadLength(offsetOut[ic]) - 1
          PROVE  output'[offsetOut[ic] + i] # OV!Unwritten
      <3>1. offsetOut[ic] + i \in DOMAIN output
        BY <2>2, <2>3, <2>4
      <3> QED
        BY <2>1, <3>1 DEF Written
    <2> QED
      BY <2>5 DEF Written, OV!ReadLength, OV!Unwritten
  <1> QED
    BY <1>1 DEF SlotInv, Place, Converted, OV!Input, OV!ReadLength

(* A step that passes no record: the two positions and the count stay.     *)
LEMMA RecordsKept ==
  ASSUME OVInv, fileSize' = fileSize, shift' = shift, offset' = offset,
         WritesTo' = WritesTo, nDone' = nDone,
         \A ic \in OV!Ics : SlotInv(ic)', OV!TypeOK',
         \A pos \in DOMAIN output :
           /\ output'[pos] \in {OV!Unwritten, Converted(pos)}
           /\ output[pos] # OV!Unwritten => output'[pos] # OV!Unwritten
  PROVE  OVInv'
  <1>1. fileSize \in Nat /\ REC_SIZE \in Nat \ {0} /\ DOMAIN output = 0 .. fileSize - 1
        /\ DOMAIN output' = DOMAIN output
    BY OVNat DEF OVInv, OV!TypeOK
  <1>2. RecordsBelow(offset)' = RecordsBelow(offset)
        /\ RecordsBelow(WritesTo)' = RecordsBelow(WritesTo)
    BY DEF RecordsBelow, OV!nRecords
  <1>3. \A k \in RecordsBelow(WritesTo) : \A i \in 0 .. OV!ReadLength(k * REC_SIZE) - 1 :
          output'[k * REC_SIZE + i] # OV!Unwritten
    <2> SUFFICES ASSUME NEW k \in RecordsBelow(WritesTo),
                        NEW i \in 0 .. OV!ReadLength(k * REC_SIZE) - 1
                 PROVE  output'[k * REC_SIZE + i] # OV!Unwritten
      OBVIOUS
    <2>1. k \in Nat /\ k \in Int /\ k < OV!nRecords
      BY <1>1, RecordsOfFile DEF RecordsBelow
    <2>2. PICK pos \in Nat : pos = k * REC_SIZE
      BY <1>1, <2>1
    <2>3. pos < fileSize
      BY <1>1, <2>1, <2>2, RecordsOfFile
    <2>4. pos + OV!ReadLength(pos) <= fileSize /\ OV!ReadLength(pos) \in 0 .. REC_SIZE
      BY <1>1, <2>3, ReadLengthIs
    <2>5. pos + i \in DOMAIN output
      BY <1>1, <2>2, <2>3, <2>4
    <2>6. output[pos + i] # OV!Unwritten
      BY <2>2 DEF OVInv, Written
    <2> QED
      BY <2>2, <2>5, <2>6
  <1>4. \A k \in RecordsBelow(WritesTo)' : Written(k * REC_SIZE)'
    BY <1>2, <1>3 DEF Written, OV!ReadLength, OV!Unwritten
  <1>5. \A pos \in DOMAIN output' : output'[pos] \in {OV!Unwritten, Converted(pos)'}
    BY <1>1 DEF Converted, OV!Input
  <1> QED
    BY <1>2, <1>4, <1>5 DEF OVInv, OV!Unwritten

LEMMA OVCompleteRead ==
  ASSUME OVInv, NEW ic \in OV!Ics, OV!CompleteRead(ic)
  PROVE  OVInv'
  <1>1. /\ operation[ic] = "reading"
        /\ operation' = [operation EXCEPT ![ic] = "read"]
        /\ rawRec' = [rawRec EXCEPT ![ic] = [i \in DOMAIN rawRec[ic] |->
                        IF i < nBytes[ic] THEN OV!Input(offset[ic] + i) ELSE rawRec[ic][i]]]
        /\ UNCHANGED <<extended, fileSize, shift, nBytes, offset, offsetOut, ccRec, output, nDone>>
    BY DEF OV!CompleteRead
  <1>2. /\ operation \in [OV!Ics -> {"none", "reading", "read", "writing", "written"}]
        /\ rawRec \in [OV!Ics -> OV!Record]
        /\ nBytes[ic] \in 0 .. REC_SIZE /\ offset[ic] \in Nat /\ REC_SIZE \in Nat
    BY OVNat DEF OVInv, OV!TypeOK
  <1>3. /\ \A i \in 0 .. REC_SIZE - 1 :
             rawRec'[ic][i] = IF i < nBytes[ic] THEN OV!Input(offset[ic] + i) ELSE rawRec[ic][i]
        /\ rawRec'[ic] \in OV!Record
    <2>1. rawRec[ic] \in [0 .. REC_SIZE - 1 -> OV!Bytes \cup {OV!Unwritten}]
      BY <1>2 DEF OV!Record
    <2>2. rawRec'[ic] = [i \in 0 .. REC_SIZE - 1 |->
                          IF i < nBytes[ic] THEN OV!Input(offset[ic] + i) ELSE rawRec[ic][i]]
      BY <1>1, <1>2, <2>1
    <2>3. \A i \in 0 .. REC_SIZE - 1 : OV!Input(offset[ic] + i) \in OV!Bytes
      <3>1. \A pos \in Nat : OV!Input(pos) \in OV!Bytes
        BY ConvertedIsByte DEF OVInv
      <3> QED
        BY <1>2, <3>1
    <2> QED
      BY <2>1, <2>2, <2>3 DEF OV!Record
  <1>4. /\ operation' \in [OV!Ics -> {"none", "reading", "read", "writing", "written"}]
        /\ rawRec' \in [OV!Ics -> OV!Record]
        /\ operation'[ic] = "read"
        /\ \A j \in OV!Ics : j # ic => operation'[j] = operation[j] /\ rawRec'[j] = rawRec[j]
    BY <1>1, <1>2, <1>3
  <1>5. OV!TypeOK'
    BY <1>1, <1>4 DEF OVInv, OV!TypeOK, OV!Bytes, OV!Unwritten, OV!Ics, OV!Record, OV!nRecords
  <1>6. ASSUME NEW j \in OV!Ics
        PROVE  SlotInv(j)'
    <2>1. CASE j # ic
      BY <1>1, <1>4, <2>1, SlotKept DEF OVInv
    <2>2. CASE j = ic
      <3>1. SlotInv(ic)
        BY DEF OVInv
      <3>2. \A i \in 0 .. nBytes[ic] - 1 : rawRec'[ic][i] = OV!Input(offset[ic] + i)
        BY <1>2, <1>3
      <3> QED
        BY <1>1, <1>4, <2>2, <3>1, <3>2 DEF SlotInv, Place, OV!ReadLength, OV!Input
    <2> QED
      BY <2>1, <2>2
  <1>7. WritesTo' = WritesTo
    BY <1>1, <1>4 DEF WritesTo
  <1> QED
    BY <1>1, <1>5, <1>6, <1>7, RecordsKept DEF OVInv

LEMMA OVCompleteWrite ==
  ASSUME OVInv, NEW ic \in OV!Ics, OV!CompleteWrite(ic)
  PROVE  OVInv'
  <1>1. /\ operation[ic] = "writing"
        /\ operation' = [operation EXCEPT ![ic] = "written"]
        /\ output' = [pos \in DOMAIN output |->
                        IF pos - offsetOut[ic] \in 0 .. nBytes[ic] - 1
                        THEN ccRec[ic][pos - offsetOut[ic]] ELSE output[pos]]
        /\ UNCHANGED <<extended, fileSize, shift, nBytes, offset, offsetOut, rawRec, ccRec, nDone>>
    BY DEF OV!CompleteWrite
  <1>2. /\ operation \in [OV!Ics -> {"none", "reading", "read", "writing", "written"}]
        /\ nBytes[ic] \in 0 .. REC_SIZE /\ offsetOut[ic] \in Nat /\ REC_SIZE \in Nat
        /\ DOMAIN output = 0 .. fileSize - 1 /\ fileSize \in Nat
        /\ output \in [0 .. fileSize - 1 -> OV!Bytes \cup {OV!Unwritten}]
    BY OVNat DEF OVInv, OV!TypeOK
  <1>3. /\ SlotInv(ic) /\ offsetOut[ic] < fileSize /\ nBytes[ic] = OV!ReadLength(offsetOut[ic])
        /\ \A i \in 0 .. nBytes[ic] - 1 : ccRec[ic][i] = Converted(offsetOut[ic] + i)
    BY <1>1 DEF OVInv, SlotInv
  <1>4. /\ operation' \in [OV!Ics -> {"none", "reading", "read", "writing", "written"}]
        /\ operation'[ic] = "written"
        /\ \A j \in OV!Ics : j # ic => operation'[j] = operation[j]
    BY <1>1, <1>2
  <1>5. ASSUME NEW pos \in DOMAIN output
        PROVE  /\ output'[pos] = IF pos - offsetOut[ic] \in 0 .. nBytes[ic] - 1
                                 THEN Converted(pos) ELSE output[pos]
               /\ Converted(pos) \in OV!Bytes /\ Converted(pos) # OV!Unwritten
               /\ output[pos] \in {OV!Unwritten, Converted(pos)}
    <2>1. pos \in Nat
      BY <1>2
    <2>2. Converted(pos) \in OV!Bytes /\ Converted(pos) # OV!Unwritten
      BY <2>1, ConvertedIsByte DEF OVInv
    <2>3. ASSUME pos - offsetOut[ic] \in 0 .. nBytes[ic] - 1
          PROVE  ccRec[ic][pos - offsetOut[ic]] = Converted(pos)
      <3>1. offsetOut[ic] + (pos - offsetOut[ic]) = pos
        BY <1>2, <2>1
      <3> QED
        BY <1>3, <2>3, <3>1
    <2> QED
      BY <1>1, <2>2, <2>3 DEF OVInv
  <1>6. output' \in [0 .. fileSize - 1 -> OV!Bytes \cup {OV!Unwritten}]
    <2>1. \A pos \in DOMAIN output : output'[pos] \in OV!Bytes \cup {OV!Unwritten}
      BY <1>2, <1>5
    <2>2. output' = [pos \in 0 .. fileSize - 1 |-> output'[pos]]
      BY <1>1, <1>2
    <2> QED
      BY <1>2, <2>1, <2>2
  <1>7. OV!TypeOK'
    BY <1>1, <1>4, <1>6
    DEF OVInv, OV!TypeOK, OV!Bytes, OV!Unwritten, OV!Ics, OV!Record, OV!nRecords
  <1>8. \A i \in 0 .. nBytes[ic] - 1 : output'[offsetOut[ic] + i] # OV!Unwritten
    <2> TAKE i \in 0 .. nBytes[ic] - 1
    <2>1. offsetOut[ic] + nBytes[ic] <= fileSize
      BY <1>2, <1>3, ReadLengthIs
    <2>2. PICK pos \in 0 .. fileSize - 1 : pos = offsetOut[ic] + i
      BY <1>2, <2>1
    <2>3. pos - offsetOut[ic] \in 0 .. nBytes[ic] - 1
      BY <1>2, <2>2
    <2> QED
      BY <1>2, <1>5, <2>2, <2>3
  <1>9. ASSUME NEW j \in OV!Ics
        PROVE  SlotInv(j)'
    <2>1. CASE j # ic
      <3>1. SlotInv(j) /\ OV!TypeOK
        BY DEF OVInv
      <3>2. \A pos \in DOMAIN output : output[pos] # OV!Unwritten => output'[pos] # OV!Unwritten
        BY <1>5
      <3> QED
        BY <1>1, <1>4, <2>1, <3>1, <3>2, SlotKept
    <2>2. CASE j = ic
      BY <1>1, <1>3, <1>4, <1>8, <2>2
      DEF SlotInv, Place, Written, Converted, OV!ReadLength, OV!Input, OV!Unwritten
    <2> QED
      BY <2>1, <2>2
  <1>10. WritesTo' = WritesTo
    BY <1>1, <1>4 DEF WritesTo
  <1> QED
    BY <1>1, <1>5, <1>7, <1>9, <1>10, RecordsKept

LEMMA CountType ==
  ASSUME OVInv
  PROVE  /\ OV!nRecords \in Nat
         /\ Cardinality(RecordsBelow(offset)) \in Nat
         /\ Cardinality(RecordsBelow(WritesTo)) \in Nat
         /\ nDone \in 0 .. 2 * OV!nRecords
  <1>1. fileSize \in Nat
    BY OVNat DEF OVInv
  <1>2. \A p : Cardinality(RecordsBelow(p)) \in 0 .. OV!nRecords
    BY <1>1, RecordsBelowFinite
  <1>3. OV!nRecords \in Nat
    BY <1>1, RecordsOfFile
  <1> QED
    BY <1>2, <1>3 DEF OVInv, OV!TypeOK

(* The slot writes the record it has read, and its reads pass that record. *)
LEMMA OVReadDone ==
  ASSUME OVInv, NEW ic \in OV!Ics, OV!ReadDone(ic)
  PROVE  OVInv'
  <1>1. /\ operation[ic] = "read" /\ nDone < 2 * OV!nRecords
        /\ nDone' = nDone + 1
        /\ offsetOut' = [offsetOut EXCEPT ![ic] = offset[ic]]
        /\ ccRec' = [ccRec EXCEPT ![ic] = [i \in DOMAIN ccRec[ic] |->
                       IF i < nBytes[ic] THEN OV!Shifted(rawRec[ic][i]) ELSE ccRec[ic][i]]]
        /\ operation' = [operation EXCEPT ![ic] = "writing"]
        /\ offset' = [offset EXCEPT ![ic] = offset[ic] + REC_SIZE * MAX_OVERLP]
        /\ UNCHANGED <<extended, fileSize, shift, nBytes, rawRec, output>>
    BY DEF OV!ReadDone, OV!Handled
  <1>2. /\ operation \in [OV!Ics -> {"none", "reading", "read", "writing", "written"}]
        /\ ccRec \in [OV!Ics -> OV!Record]
        /\ nBytes[ic] \in 0 .. REC_SIZE
        /\ fileSize \in Nat /\ REC_SIZE \in Nat \ {0} /\ MAX_OVERLP \in Nat \ {0}
        /\ offset \in [OV!Ics -> Nat] /\ offsetOut \in [OV!Ics -> Nat]
        /\ WritesTo \in [OV!Ics -> Nat]
    BY OVNat DEF OVInv, OV!TypeOK
  <1>3. /\ SlotInv(ic) /\ offset[ic] < fileSize /\ nBytes[ic] = OV!ReadLength(offset[ic])
        /\ \A i \in 0 .. nBytes[ic] - 1 : rawRec[ic][i] = OV!Input(offset[ic] + i)
    BY <1>1 DEF OVInv, SlotInv
  <1>4. PICK k \in Nat : offset[ic] = k * REC_SIZE /\ k % MAX_OVERLP = ic
    BY <1>3 DEF SlotInv, Place
  <1>5. /\ operation' \in [OV!Ics -> {"none", "reading", "read", "writing", "written"}]
        /\ offset' \in [OV!Ics -> Nat] /\ offsetOut' \in [OV!Ics -> Nat]
        /\ operation'[ic] = "writing" /\ offsetOut'[ic] = offset[ic]
        /\ offset'[ic] = offset[ic] + REC_SIZE * MAX_OVERLP
        /\ \A j \in OV!Ics : j # ic =>
             /\ operation'[j] = operation[j] /\ offset'[j] = offset[j]
             /\ offsetOut'[j] = offsetOut[j]
    <2>1. offset[ic] + REC_SIZE * MAX_OVERLP \in Nat
      BY <1>2
    <2> QED
      BY <1>1, <1>2, <2>1
  <1>6. /\ \A i \in 0 .. nBytes[ic] - 1 : ccRec'[ic][i] = Converted(offset[ic] + i)
        /\ ccRec' \in [OV!Ics -> OV!Record]
        /\ \A j \in OV!Ics : j # ic => ccRec'[j] = ccRec[j]
    <2>1. ccRec[ic] \in [0 .. REC_SIZE - 1 -> OV!Bytes \cup {OV!Unwritten}]
      BY <1>2 DEF OV!Record
    <2>2. ccRec'[ic] = [i \in 0 .. REC_SIZE - 1 |->
                          IF i < nBytes[ic] THEN OV!Shifted(rawRec[ic][i]) ELSE ccRec[ic][i]]
      BY <1>1, <1>2, <2>1
    <2>3. ASSUME NEW i \in 0 .. REC_SIZE - 1, i < nBytes[ic]
          PROVE  OV!Shifted(rawRec[ic][i]) = Converted(offset[ic] + i)
                 /\ Converted(offset[ic] + i) \in OV!Bytes
      <3>1. PICK pos \in Nat : pos = offset[ic] + i
        BY <1>2
      <3>2. i \in 0 .. nBytes[ic] - 1
        BY <1>2, <2>3
      <3>3. rawRec[ic][i] = OV!Input(pos)
        BY <1>3, <3>1, <3>2
      <3>4. OV!Shifted(OV!Input(pos)) = Converted(pos) /\ Converted(pos) \in OV!Bytes
        BY ConvertedIsByte DEF OVInv
      <3> QED
        BY <3>1, <3>3, <3>4
    <2>4. ccRec'[ic] \in OV!Record
      BY <2>1, <2>2, <2>3 DEF OV!Record
    <2>5. \A i \in 0 .. nBytes[ic] - 1 : ccRec'[ic][i] = Converted(offset[ic] + i)
      BY <1>2, <2>2, <2>3
    <2> QED
      BY <1>1, <1>2, <2>4, <2>5
  <1>7. OV!TypeOK'
    <2>1. nDone' \in 0 .. 2 * OV!nRecords
      BY <1>1, CountType
    <2> QED
      BY <1>1, <1>5, <1>6, <2>1
      DEF OVInv, OV!TypeOK, OV!Bytes, OV!Unwritten, OV!Ics, OV!Record, OV!nRecords
  <1>8. WritesTo' = WritesTo
    <2>1. \A j \in OV!Ics : WritesTo'[j] = WritesTo[j]
      BY <1>1, <1>5 DEF WritesTo
    <2>2. WritesTo' = [j \in OV!Ics |-> WritesTo'[j]] /\ WritesTo = [j \in OV!Ics |-> WritesTo[j]]
      BY DEF WritesTo, OV!Ics
    <2> QED
      BY <2>1, <2>2
  <1>9. PICK next \in [OV!Ics -> Nat] : next = offset'
    BY <1>5
  <1>10. \A j \in OV!Ics : next[j] = IF j = ic THEN offset[j] + REC_SIZE * MAX_OVERLP ELSE offset[j]
    BY <1>5, <1>9
  <1>11. /\ Cardinality(RecordsBelow(next)) = Cardinality(RecordsBelow(offset)) + 1
         /\ Place(next[ic], ic)
    <2>1. /\ fileSize \in Nat /\ offset \in [OV!Ics -> Nat] /\ offset[ic] < fileSize
          /\ offset[ic] = k * REC_SIZE /\ k % MAX_OVERLP = ic
      BY <1>2, <1>3, <1>4
    <2> QED
      BY <1>10, <2>1, OneMoreRecord
  <1>12. RecordsBelow(offset)' = RecordsBelow(next)
    BY <1>1, <1>9 DEF RecordsBelow, OV!nRecords
  <1>13. RecordsBelow(WritesTo)' = RecordsBelow(WritesTo)
    BY <1>1, <1>8 DEF RecordsBelow, OV!nRecords
  <1>14. ASSUME NEW j \in OV!Ics
         PROVE  SlotInv(j)'
    <2>1. CASE j # ic
      <3>1. SlotInv(j) /\ OV!TypeOK
        BY DEF OVInv
      <3> QED
        BY <1>1, <1>5, <1>6, <2>1, <3>1, SlotKept
    <2>2. CASE j = ic
      <3>1. Place(offset'[ic], ic)
        BY <1>9, <1>11
      <3>2. Place(offsetOut'[ic], ic)
        BY <1>3, <1>5 DEF SlotInv
      <3>3. /\ offsetOut'[ic] < fileSize' /\ nBytes'[ic] = OV!ReadLength(offsetOut[ic])'
            /\ offset'[ic] = offsetOut'[ic] + REC_SIZE * MAX_OVERLP
        BY <1>1, <1>3, <1>5 DEF OV!ReadLength
      <3>4. \A i \in 0 .. nBytes'[ic] - 1 : ccRec'[ic][i] = Converted(offsetOut[ic] + i)'
        <4>1. nBytes'[ic] = nBytes[ic] /\ offsetOut'[ic] = offset[ic]
          BY <1>1, <1>5
        <4>2. ASSUME NEW i
              PROVE  Converted(offsetOut[ic] + i)' = Converted(offset[ic] + i)
          BY <1>1, <4>1 DEF Converted, OV!Input
        <4>3. \A i \in 0 .. nBytes[ic] - 1 : ccRec'[ic][i] = Converted(offset[ic] + i)
          BY <1>6
        <4> QED
          BY ONLY <4>1, <4>2, <4>3
      <3>5. Place(offset[ic], ic)' /\ Place(offsetOut[ic], ic)'
        BY <3>1, <3>2 DEF Place
      <3>6. operation'[ic] \notin {"none", "reading", "read", "written"}
        BY <1>5
      <3>7. SlotInv(ic)'
        BY <3>3, <3>4, <3>5, <3>6 DEF SlotInv
      <3> QED
        BY <2>2, <3>7
    <2> QED
      BY <2>1, <2>2
  <1>15. nDone' = Cardinality(RecordsBelow(offset)') + Cardinality(RecordsBelow(WritesTo)')
    BY <1>1, <1>11, <1>12, <1>13, CountType DEF OVInv
  <1>16. /\ \A pos \in DOMAIN output' : output'[pos] \in {OV!Unwritten, Converted(pos)}'
         /\ \A k1 \in RecordsBelow(WritesTo)' : Written(k1 * REC_SIZE)'
    BY <1>1, <1>13 DEF OVInv, Converted, OV!Input, Written, OV!ReadLength, OV!Unwritten
  <1> QED
    BY <1>7, <1>14, <1>15, <1>16 DEF OVInv

(* The slot has written its record, and reads the next, if there is one.   *)
LEMMA OVWriteDone ==
  ASSUME OVInv, NEW ic \in OV!Ics, OV!WriteDone(ic)
  PROVE  OVInv'
  <1>1. /\ operation[ic] = "written" /\ nDone < 2 * OV!nRecords
        /\ nDone' = nDone + 1
        /\ operation' = [operation EXCEPT ![ic] = OV!Reads(offset[ic])]
        /\ nBytes' = [nBytes EXCEPT ![ic] = OV!ReadLength(offset[ic])]
        /\ UNCHANGED <<extended, fileSize, shift, offset, offsetOut, rawRec, ccRec, output>>
    BY DEF OV!WriteDone, OV!Handled
  <1>2. /\ operation \in [OV!Ics -> {"none", "reading", "read", "writing", "written"}]
        /\ nBytes \in [OV!Ics -> 0 .. REC_SIZE]
        /\ fileSize \in Nat /\ REC_SIZE \in Nat \ {0} /\ MAX_OVERLP \in Nat \ {0}
        /\ offset \in [OV!Ics -> Nat] /\ offsetOut \in [OV!Ics -> Nat]
        /\ WritesTo \in [OV!Ics -> Nat]
    BY OVNat DEF OVInv, OV!TypeOK
  <1>3. /\ SlotInv(ic) /\ offsetOut[ic] < fileSize
        /\ offset[ic] = offsetOut[ic] + REC_SIZE * MAX_OVERLP
        /\ Written(offsetOut[ic])
    BY <1>1 DEF OVInv, SlotInv
  <1>4. PICK k \in Nat : offsetOut[ic] = k * REC_SIZE /\ k % MAX_OVERLP = ic
    BY <1>1, <1>3 DEF SlotInv, Place
  <1>5. /\ OV!ReadLength(offset[ic]) \in 0 .. REC_SIZE
        /\ OV!Reads(offset[ic]) = IF offset[ic] < fileSize THEN "reading" ELSE "none"
    BY <1>2, ReadLengthIs
  <1>6. /\ operation' \in [OV!Ics -> {"none", "reading", "read", "writing", "written"}]
        /\ nBytes' \in [OV!Ics -> 0 .. REC_SIZE]
        /\ operation'[ic] = IF offset[ic] < fileSize THEN "reading" ELSE "none"
        /\ nBytes'[ic] = OV!ReadLength(offset[ic])
        /\ \A j \in OV!Ics : j # ic => operation'[j] = operation[j] /\ nBytes'[j] = nBytes[j]
    BY <1>1, <1>2, <1>5
  <1>7. OV!TypeOK'
    <2>1. nDone' \in 0 .. 2 * OV!nRecords
      BY <1>1, CountType
    <2> QED
      BY <1>1, <1>6, <2>1
      DEF OVInv, OV!TypeOK, OV!Bytes, OV!Unwritten, OV!Ics, OV!Record, OV!nRecords
  <1>8. WritesTo[ic] = offsetOut[ic]
    BY <1>1 DEF WritesTo
  <1>9. PICK next \in [OV!Ics -> Nat] : next = WritesTo'
    <2>1. WritesTo' \in [OV!Ics -> Nat]
      BY <1>1, <1>2 DEF WritesTo, OV!Ics
    <2> QED
      BY <2>1
  <1>10. \A j \in OV!Ics :
           next[j] = IF j = ic THEN WritesTo[j] + REC_SIZE * MAX_OVERLP ELSE WritesTo[j]
    <2> TAKE j \in OV!Ics
    <2>1. CASE j = ic
      <3>1. operation'[ic] \notin {"writing", "written"}
        BY <1>6
      <3>2. WritesTo'[ic] = offset[ic]
        BY <1>1, <3>1 DEF WritesTo
      <3> QED
        BY <1>3, <1>8, <1>9, <2>1, <3>2
    <2>2. CASE j # ic
      BY <1>1, <1>6, <1>9, <2>2 DEF WritesTo
    <2> QED
      BY <2>1, <2>2
  <1>11. /\ RecordsBelow(next) = RecordsBelow(WritesTo) \cup {k}
         /\ Cardinality(RecordsBelow(next)) = Cardinality(RecordsBelow(WritesTo)) + 1
    <2>1. /\ fileSize \in Nat /\ WritesTo \in [OV!Ics -> Nat] /\ WritesTo[ic] < fileSize
          /\ WritesTo[ic] = k * REC_SIZE /\ k % MAX_OVERLP = ic
      BY <1>2, <1>3, <1>4, <1>8
    <2> HIDE DEF WritesTo
    <2> QED
      BY <1>10, <2>1, OneMoreRecord
  <1>12. RecordsBelow(WritesTo)' = RecordsBelow(next)
    BY <1>1, <1>9 DEF RecordsBelow, OV!nRecords
  <1>13. RecordsBelow(offset)' = RecordsBelow(offset)
    BY <1>1 DEF RecordsBelow, OV!nRecords
  <1>14. ASSUME NEW j \in OV!Ics
         PROVE  SlotInv(j)'
    <2>1. CASE j # ic
      <3>1. SlotInv(j) /\ OV!TypeOK
        BY DEF OVInv
      <3> QED
        BY <1>1, <1>6, <2>1, <3>1, SlotKept
    <2>2. CASE j = ic
      <3>1. operation'[ic] \in {"reading", "none"}
        BY <1>6
      <3> QED
        BY <1>1, <1>3, <1>6, <2>2, <3>1 DEF SlotInv, Place, OV!ReadLength
    <2> QED
      BY <2>1, <2>2
  <1>15. nDone' = Cardinality(RecordsBelow(offset)') + Cardinality(RecordsBelow(WritesTo)')
    BY <1>1, <1>11, <1>12, <1>13, CountType DEF OVInv
  <1>16. \A m \in RecordsBelow(WritesTo)' : Written(m * REC_SIZE)
    BY <1>3, <1>4, <1>11, <1>12 DEF OVInv
  <1>17. /\ \A pos \in DOMAIN output' : output'[pos] \in {OV!Unwritten, Converted(pos)}'
         /\ \A m \in RecordsBelow(WritesTo)' : Written(m * REC_SIZE)'
    BY <1>1, <1>16 DEF OVInv, Converted, OV!Input, Written, OV!ReadLength, OV!Unwritten
  <1> QED
    BY <1>7, <1>14, <1>15, <1>17 DEF OVInv

LEMMA OVNext ==
  ASSUME OVInv, OV!Next
  PROVE  OVInv'
  BY OVCompleteRead, OVCompleteWrite, OVReadDone, OVWriteDone DEF OV!Next

LEMMA OVStutter ==
  ASSUME OVInv, UNCHANGED ovVars
  PROVE  OVInv'
  <1>1. WritesTo' = WritesTo
    BY DEF ovVars, WritesTo
  <1>2. \A ic \in OV!Ics : SlotInv(ic)'
    BY DEF OVInv, ovVars, SlotInv, Place, Written, Converted, OV!ReadLength, OV!Input, OV!Unwritten
  <1>3. OV!TypeOK'
    BY DEF OVInv, ovVars, OV!TypeOK, OV!Bytes, OV!Unwritten, OV!Ics, OV!Record, OV!nRecords
  <1> QED
    BY <1>1, <1>2, <1>3, RecordsKept DEF OVInv, ovVars

(* With as many operations handled as there are records to read and to     *)
(* write, no slot has any left.                                            *)
LEMMA OVConverted ==
  ASSUME OVInv
  PROVE  OV!CopyConverted
  <1>1. \A pos \in DOMAIN output :
          output[pos] \in {OV!Unwritten, (OV!Input(pos) + shift) % Byte}
    BY DEF OVInv, Converted
  <1>2. ASSUME OV!AllCopied
        PROVE  /\ \A pos \in DOMAIN output : output[pos] # OV!Unwritten
               /\ \A ic \in OV!Ics : operation[ic] = "none"
    <2>1. /\ fileSize \in Nat /\ REC_SIZE \in Nat \ {0} /\ MAX_OVERLP \in Nat \ {0}
          /\ OV!nRecords \in Nat
      BY OVNat, CountType DEF OVInv
    <2>2. \A p : Cardinality(RecordsBelow(p)) \in 0 .. OV!nRecords
                 /\ (Cardinality(RecordsBelow(p)) = OV!nRecords
                       => RecordsBelow(p) = 0 .. OV!nRecords - 1)
      BY <2>1, RecordsBelowFinite
    <2>3. /\ RecordsBelow(offset) = 0 .. OV!nRecords - 1
          /\ RecordsBelow(WritesTo) = 0 .. OV!nRecords - 1
      <3>1. \A a, b \in 0 .. OV!nRecords : a + b = 2 * OV!nRecords
                                           => a = OV!nRecords /\ b = OV!nRecords
        BY <2>1
      <3>2. Cardinality(RecordsBelow(offset)) + Cardinality(RecordsBelow(WritesTo))
              = 2 * OV!nRecords
        BY <1>2 DEF OVInv, OV!AllCopied
      <3> QED
        BY <2>2, <3>1, <3>2
    <2>4. ASSUME NEW p, NEW ic, Place(p[ic], ic), p[ic] < fileSize,
                 RecordsBelow(p) = 0 .. OV!nRecords - 1
          PROVE  FALSE
      <3>1. PICK k \in Nat : p[ic] = k * REC_SIZE /\ k % MAX_OVERLP = ic
        BY <2>4 DEF Place
      <3>2. k \in Int /\ k \in 0 .. OV!nRecords - 1
        BY <2>1, <2>4, <3>1, RecordsOfFile
      <3>3. k * REC_SIZE < k * REC_SIZE
        BY <2>4, <3>1, <3>2 DEF RecordsBelow
      <3> QED
        BY <2>1, <3>2, <3>3
    <2>5. ASSUME NEW ic \in OV!Ics
          PROVE  operation[ic] = "none"
      <3>1. SlotInv(ic)
        BY DEF OVInv
      <3>2. ~(offset[ic] < fileSize)
        BY <2>3, <2>4, <3>1 DEF SlotInv
      <3>3. operation[ic] \notin {"writing", "written"}
        <4>1. operation[ic] \in {"writing", "written"} => WritesTo[ic] = offsetOut[ic]
          BY DEF WritesTo
        <4> QED
          BY <2>3, <2>4, <3>1, <4>1 DEF SlotInv
      <3>4. operation[ic] \in {"none", "reading", "read", "writing", "written"}
        BY DEF OVInv, OV!TypeOK
      <3> QED
        BY <3>1, <3>2, <3>3, <3>4 DEF SlotInv
    <2>6. ASSUME NEW pos \in DOMAIN output
          PROVE  output[pos] # OV!Unwritten
      <3>1. pos \in 0 .. fileSize - 1
        BY DEF OVInv, OV!TypeOK
      <3>0. pos \in Int
        BY <2>1, <3>1
      <3>2. PICK k \in Int : pos = REC_SIZE * k + (pos % REC_SIZE)
        BY <2>1, <3>0, Remainder
      <3>3. PICK i \in 0 .. REC_SIZE - 1 : i = pos % REC_SIZE
        BY <2>1, <3>1, Remainder
      <3>4. pos = k * REC_SIZE + i /\ k * REC_SIZE \in Int
        BY <2>1, <3>2, <3>3
      <3>5. k * REC_SIZE < fileSize /\ -REC_SIZE < k * REC_SIZE
        BY <2>1, <3>1, <3>3, <3>4
      <3>6. 0 <= k
        <4>1. PICK m \in Int : m = -1
          OBVIOUS
        <4>2. m * REC_SIZE = -REC_SIZE
          BY <2>1, <4>1
        <4>3. m < k
          BY <2>1, <3>5, <4>2, Scale
        <4> QED
          BY <4>1, <4>3
      <3>7. k < OV!nRecords
        BY <2>1, <3>5, RecordsOfFile
      <3>8. k \in RecordsBelow(WritesTo)
        BY <2>1, <2>3, <3>6, <3>7
      <3>9. PICK start \in Nat : start = k * REC_SIZE
        BY <2>1, <3>6
      <3>10. i \in 0 .. OV!ReadLength(start) - 1
        BY <2>1, <3>1, <3>4, <3>9, ReadLengthIs
      <3> QED
        BY <3>4, <3>8, <3>9, <3>10 DEF OVInv, Written
    <2> QED
      BY <2>5, <2>6
  <1> QED
    BY <1>1, <1>2 DEF OV!CopyConverted

-----------------------------------------------------------------------------
(* The records as a bag                                                    *)

LEMMA BagCounts ==
  ASSUME NEW n \in Nat, NEW s, DOMAIN s = 1 .. n, NEW t, DOMAIN t = 1 .. n
  PROVE  SM!ToBag(s) = SM!ToBag(t) <=> SameCounts(s, t, n)
  <1> DEFINE C(u, x) == Cardinality({i \in DOMAIN u : u[i] = x})
  <1>1. \A u : SM!ToBag(u) = [x \in SM!Range(u) |-> C(u, x)]
    <2>1. \A S : SM!Cardinality(S) = Cardinality(S)
      BY DEF SM!Cardinality, Cardinality
    <2> QED
      BY <2>1 DEF SM!ToBag
  <1>2. /\ \A x : C(s, x) = CountIn(s, 0, n, x) /\ (C(s, x) = 0 <=> x \notin SM!Range(s))
        /\ \A x : C(t, x) = CountIn(t, 0, n, x) /\ (C(t, x) = 0 <=> x \notin SM!Range(t))
    <2>1. ASSUME NEW u, DOMAIN u = 1 .. n, NEW x
          PROVE  C(u, x) = CountIn(u, 0, n, x) /\ (C(u, x) = 0 <=> x \notin SM!Range(u))
      <3>1. Places(u, 0, n, x) = {i \in DOMAIN u : u[i] = x}
        BY <2>1 DEF Places
      <3>2. C(u, x) = CountIn(u, 0, n, x)
        BY <3>1 DEF CountIn
      <3>3. CountIn(u, 0, n, x) = 0 <=> Places(u, 0, n, x) = {}
        BY CountNat
      <3> QED
        BY <3>1, <3>2, <3>3 DEF SM!Range
    <2> QED
      BY <2>1
  <1> HIDE DEF C
  <1>3. ASSUME SM!ToBag(s) = SM!ToBag(t)
        PROVE  SameCounts(s, t, n)
    <2>1. SM!Range(s) = SM!Range(t)
      BY <1>1, <1>3
    <2>2. \A x \in SM!Range(s) : C(s, x) = C(t, x)
      BY <1>1, <1>3, <2>1
    <2>3. \A x : C(s, x) = C(t, x)
      BY <1>2, <2>1, <2>2
    <2> QED
      BY <1>2, <2>3 DEF SameCounts
  <1>4. ASSUME SameCounts(s, t, n)
        PROVE  SM!ToBag(s) = SM!ToBag(t)
    <2>1. \A x : C(s, x) = C(t, x)
      BY <1>2, <1>4 DEF SameCounts
    <2>2. SM!Range(s) = SM!Range(t)
      BY <1>2, <2>1
    <2> QED
      BY <1>1, <2>1, <2>2
  <1> QED
    BY <1>3, <1>4

-----------------------------------------------------------------------------
(* What the two sorts compute is what SequenceLemmas has lemmas about.     *)

LEMMA SameMerge == \A p1, p2 : SM!MergeArrays(p1, p2) = MergeArrays(p1, p2)
  BY DEF SM!MergeArrays, MergeArrays, SM!FromFirst, FromFirst

LEMMA SameTree ==
  /\ BT!NULL = 0 /\ NULL = 0
  /\ \A p, nodes : BT!Below(p, nodes) = Below(p, nodes)
  /\ \A nodes : BT!pRoot(nodes) = pRoot(nodes)
  /\ \A r, s : BT!KeyBefore(r, s) = KeyBefore(r, s)
  BY DEF BT!NULL, NULL, BT!Below, Below, BT!pRoot, pRoot, BT!KeyBefore, KeyBefore

LEMMA SameScan == \A nodes : BT!Scan(nodes) = Scan(nodes)
  BY SameTree DEF BT!Scan, Scan

LEMMA SameInsert == \A nodes, data : BT!InsertTree(nodes, data) = InsertTree(nodes, data)
  BY DEF BT!InsertTree, InsertTree, BT!NULL, NULL, BT!pRoot, pRoot, BT!KeyBefore, KeyBefore

LEMMA SameOrder ==
  /\ \A s : BT!ToSet(s) = ToSet(s)
  /\ \A s, t : BT!StablySorted(s, t) <=> Stable(s) /\ ToSet(s) = ToSet(t)
  BY DEF BT!ToSet, ToSet, BT!StablySorted, Stable, BT!Precedes, Precedes

-----------------------------------------------------------------------------
(* Parts of the records                                                    *)

NumbersOf(s, n) == DOMAIN s = 1 .. n /\ \A i \in 1 .. n : s[i] \in Nat

(* The k records of s behind the first a ones are put in order, giving r.  *)
Rearranged(s, r, n, a, k) ==
  /\ NumbersOf(r, n)
  /\ \A i \in 1 .. n : i \notin a + 1 .. a + k => r[i] = s[i]
  /\ SameCounts(r, s, n)
  /\ Ordered(r, a, k)

LEMMA NumbersAreSeq ==
  ASSUME NEW n \in Nat, NEW s
  PROVE  s \in Seq(Nat) /\ Len(s) = n <=> s \in [1 .. n -> Nat]
  OBVIOUS

(* A part, taken out.                                                      *)
LEMMA PartIs ==
  ASSUME NEW n \in Nat, pRecords \in Seq(Nat), Len(pRecords) = n,
         NEW a \in Nat, NEW k \in Nat, a + k <= n, NEW first, first = a + 1
  PROVE  /\ Numbers(SM!Part(first, k)) /\ Len(SM!Part(first, k)) = k
         /\ Found(pRecords, a, SM!Part(first, k), 0, k)
  <1>1. \A i \in 1 .. n : pRecords[i] \in Nat
    BY ElementOfSeq
  <1>2. first + k - 1 = a + k
    OBVIOUS
  <1> DEFINE p == SubSeq(pRecords, a + 1, a + k)
  <1>3. p = [i \in 1 .. k |-> pRecords[a + i]]
    <2>1. \A i \in a + 1 .. a + k : pRecords[i] \in Nat
      BY <1>1
    <2>2. \A m \in Int, l \in Int : SubSeq(pRecords, m, l) = [i \in 1 .. (1 + l - m) |-> pRecords[i + m - 1]]
      OBVIOUS
    <2>3. 1 + (a + k) - (a + 1) = k
      OBVIOUS
    <2>4. \A i \in 1 .. k : i + (a + 1) - 1 = a + i
      OBVIOUS
    <2> QED
      BY <2>2, <2>3, <2>4
  <1>4. \A i \in 1 .. k : p[i] \in Nat /\ p[0 + i] = pRecords[a + i]
    <2>1. \A i \in 1 .. k : a + i \in 1 .. n /\ 0 + i = i
      OBVIOUS
    <2> HIDE DEF p
    <2> QED
      BY <1>1, <1>3, <2>1
  <1>5. DOMAIN p = 1 .. k
    <2> HIDE DEF p
    <2> QED
      BY <1>3
  <1>6. p \in [1 .. k -> Nat]
    <2>1. p = [i \in 1 .. k |-> p[i]]
      <3> HIDE DEF p
      <3> QED
        BY <1>3
    <2> HIDE DEF p
    <2> QED
      BY <1>4, <2>1
  <1>7. Len(p) = k
    <2> HIDE DEF p
    <2> QED
      BY <1>6, NumbersAreSeq
  <1>8. SM!Part(first, k) = p
    BY <1>2 DEF SM!Part
  <1> HIDE DEF p
  <1>9. Numbers(p)
    BY <1>4, <1>5, <1>7 DEF Numbers
  <1> QED
    BY <1>4, <1>7, <1>8, <1>9 DEF Found

(* A part replaced by its records in order.                                *)
LEMMA ReplacedIs ==
  ASSUME NEW n \in Nat, pRecords \in Seq(Nat), Len(pRecords) = n,
         NEW a \in Nat, NEW k \in Nat, a + k <= n, NEW first, first = a + 1,
         NEW p, Numbers(p), Len(p) = k, Ordered(p, 0, k),
         \A x : CountIn(p, 0, k, x) = CountIn(pRecords, a, k, x)
  PROVE  Rearranged(pRecords, SM!Replaced(first, p), n, a, k)
  <1> DEFINE r == SM!Replaced(first, p)
  <1>1. DOMAIN pRecords = 1 .. n /\ \A i \in 1 .. n : pRecords[i] \in Nat
    BY ElementOfSeq, NumbersAreSeq
  <1>2. first + k - 1 = a + k /\ first .. a + k = a + 1 .. a + k
    OBVIOUS
  <1>3. r = [i \in 1 .. n |-> IF i \in a + 1 .. a + k THEN p[i - first + 1] ELSE pRecords[i]]
    BY <1>1, <1>2 DEF SM!Replaced
  <1>4. \A i \in a + 1 .. a + k : i - first + 1 = i - a /\ i - a \in 1 .. k /\ i \in 1 .. n
    OBVIOUS
  <1> HIDE DEF r
  <1>5. /\ DOMAIN r = 1 .. n
        /\ \A i \in a + 1 .. a + k : r[i] = p[i - a]
        /\ \A i \in 1 .. n : i \notin a + 1 .. a + k => r[i] = pRecords[i]
    BY <1>3, <1>4
  <1>6. NumbersOf(r, n)
    BY <1>1, <1>4, <1>5 DEF Numbers, NumbersOf
  <1>7. Found(p, 0, r, a, k)
    <2>1. \A i \in 1 .. k : a + i \in a + 1 .. a + k /\ (a + i) - a = 0 + i
      OBVIOUS
    <2> QED
      BY <1>5, <2>1 DEF Found
  <1>8. PICK zero \in Nat : zero = 0
    OBVIOUS
  <1>9. Ordered(r, a, k)
    BY <1>7, <1>8, OrderedFound
  <1>10. \A x : CountIn(r, a, k, x) = CountIn(pRecords, a, k, x)
    <2> TAKE x
    <2>1. CountIn(r, a, k, x) = CountIn(p, zero, k, x)
      BY <1>7, <1>8, CountFound
    <2> QED
      BY <1>8, <2>1
  <1>12. SameCounts(r, pRecords, n)
    BY <1>5, <1>10, SameElsewhere
  <1> QED
    BY <1>5, <1>6, <1>9, <1>12 DEF Rearranged, r

(* A thread sorts its part.                                                *)
LEMMA SortedPart ==
  ASSUME NEW n \in Nat, pRecords \in Seq(Nat), Len(pRecords) = n,
         NEW a \in Nat, NEW k \in Nat, a + k <= n, NEW first, first = a + 1,
         NEW p \in [DOMAIN SM!Part(first, k) -> SM!ToSet(SM!Part(first, k))],
         SM!InOrder(p), SM!ToBag(p) = SM!ToBag(SM!Part(first, k))
  PROVE  Rearranged(pRecords, SM!Replaced(first, p), n, a, k)
  <1> DEFINE mine == SM!Part(first, k)
  <1>1. Numbers(mine) /\ Len(mine) = k /\ Found(pRecords, a, mine, 0, k)
    BY PartIs
  <1>2. p \in [DOMAIN mine -> SM!ToSet(mine)] /\ SM!ToBag(p) = SM!ToBag(mine)
    OBVIOUS
  <1> HIDE DEF mine
  <1>3. DOMAIN p = 1 .. k /\ DOMAIN mine = 1 .. k /\ p \in [1 .. k -> Nat]
    <2>1. DOMAIN mine = 1 .. k /\ \A i \in 1 .. k : mine[i] \in Nat
      BY <1>1 DEF Numbers
    <2>2. SM!ToSet(mine) \subseteq Nat
      BY <2>1 DEF SM!ToSet
    <2> QED
      BY <1>2, <2>1, <2>2
  <1>4. Len(p) = k
    BY <1>3, NumbersAreSeq
  <1>5. Numbers(p)
    BY <1>3, <1>4 DEF Numbers
  <1>6. Ordered(p, 0, k)
    <2>1. \A i \in 0 + 1 .. 0 + k : i \in DOMAIN p
      BY <1>3
    <2> QED
      BY <2>1 DEF Ordered, SM!InOrder
  <1>7. SameCounts(p, mine, k)
    BY <1>2, <1>3, BagCounts
  <1>8. \A x : CountIn(p, 0, k, x) = CountIn(pRecords, a, k, x)
    <2> TAKE x
    <2>1. PICK zero \in Nat : zero = 0
      OBVIOUS
    <2>2. CountIn(mine, zero, k, x) = CountIn(pRecords, a, k, x)
      BY <1>1, <2>1, CountFound
    <2> QED
      BY <1>7, <2>1, <2>2 DEF SameCounts
  <1> QED
    BY <1>4, <1>5, <1>6, <1>8, ReplacedIs

(* A thread merges two parts in order.                                     *)
LEMMA MergedParts ==
  ASSUME NEW n \in Nat, pRecords \in Seq(Nat), Len(pRecords) = n,
         NEW a \in Nat, NEW k \in Nat, a + 2 * k <= n, NEW first, first = a + 1,
         Ordered(pRecords, a, k), Ordered(pRecords, a + k, k)
  PROVE  Rearranged(pRecords,
                    SM!Replaced(first, SM!MergeArrays(SM!Part(first, k), SM!Part(first + k, k))),
                    n, a, 2 * k)
  <1> DEFINE p1 == SM!Part(first, k)
             p2 == SM!Part(first + k, k)
             m == SM!MergeArrays(p1, p2)
  <1>0. PICK zero \in Nat : zero = 0
    OBVIOUS
  <1>1. PICK b \in Nat : b = a + k
    OBVIOUS
  <1>2. Numbers(p1) /\ Len(p1) = k /\ Found(pRecords, a, p1, zero, k)
    <2>1. a + k <= n
      OBVIOUS
    <2> QED
      BY <1>0, <2>1, PartIs
  <1>3. Numbers(p2) /\ Len(p2) = k /\ Found(pRecords, b, p2, zero, k)
    <2>1. b + k <= n /\ first + k = b + 1
      BY <1>1
    <2> QED
      BY <1>0, <2>1, PartIs
  <1>4. Ordered(p1, 0, k) /\ Ordered(p2, 0, k)
    BY <1>0, <1>1, <1>2, <1>3, OrderedFound
  <1> HIDE DEF p1, p2
  <1>5. PICK N \in Nat : N = 2 * k /\ N = Len(p1) + Len(p2)
    BY <1>2, <1>3
  <1>6. DOMAIN m = 1 .. N /\ \E t : IsPath(p1, p2, t, m, N)
    BY <1>2, <1>3, <1>5, MergePath, SameMerge
  <1> HIDE DEF m
  <1>7. PICK t : IsPath(p1, p2, t, m, N)
    BY <1>6
  <1>8. Ordered(m, 0, N)
    BY <1>2, <1>3, <1>4, <1>5, <1>7, PathOrdered
  <1>9. \A x : CountIn(m, 0, N, x) = CountIn(p1, 0, k, x) + CountIn(p2, 0, k, x)
    <2> TAKE x
    <2>1. Numbers(p1) /\ Numbers(p2) /\ N = Len(p1) + Len(p2) /\ IsPath(p1, p2, t, m, N)
      BY <1>2, <1>3, <1>5, <1>7
    <2>2. CountIn(m, 0, N, x) = CountIn(p1, 0, Len(p1), x) + CountIn(p2, 0, Len(p2), x)
      BY <2>1, PathCounts
    <2> QED
      BY <1>2, <1>3, <2>2
  <1>10. \A x : CountIn(m, 0, N, x) = CountIn(pRecords, a, N, x)
    <2> TAKE x
    <2>1. CountIn(pRecords, a, N, x) = CountIn(pRecords, a, k, x) + CountIn(pRecords, a + k, k, x)
      BY <1>5, CountTwice
    <2>2. CountIn(p1, zero, k, x) = CountIn(pRecords, a, k, x)
      BY <1>2, CountFound
    <2>3. CountIn(p2, zero, k, x) = CountIn(pRecords, b, k, x)
      BY <1>3, CountFound
    <2> QED
      BY <1>0, <1>1, <1>9, <2>1, <2>2, <2>3
  <1>11. m \in [1 .. N -> Nat]
    <2>1. ASSUME NEW i \in 1 .. N
          PROVE  m[i] \in Nat
      <3>0. i \in 0 .. N /\ i - 1 \in 0 .. N /\ i \in Int
        BY <1>5
      <3>1. /\ t[i] \in 0 .. k /\ i - t[i] \in 0 .. k
            /\ t[i - 1] \in 0 .. k /\ (i - 1) - t[i - 1] \in 0 .. k
        BY <1>2, <1>3, <1>7, <3>0 DEF IsPath
      <3>2. PICK c \in Int : c = t[i - 1]
        BY <3>1
      <3>3. \/ t[i] = c + 1 /\ m[i] = p1[t[i]]
            \/ t[i] = c /\ m[i] = p2[i - t[i]]
        BY <1>7, <3>2 DEF IsPath, TakesFirst, TakesSecond
      <3>4. \/ t[i] \in 1 .. k /\ m[i] = p1[t[i]]
            \/ i - t[i] \in 1 .. k /\ m[i] = p2[i - t[i]]
        <4>1. CASE t[i] = c + 1 /\ m[i] = p1[t[i]]
          <5>1. c \in 0 .. k /\ t[i] \in 0 .. k
            BY <3>1, <3>2
          <5>2. t[i] \in 1 .. k
            BY ONLY <4>1, <5>1, k \in Nat
          <5> QED
            BY <4>1, <5>2
        <4>2. CASE t[i] = c /\ m[i] = p2[i - t[i]]
          <5>1. (i - 1) - c \in 0 .. k
            BY <3>1, <3>2
          <5>2. i - c \in 1 .. k
            BY <3>0, <3>1, <4>2, <5>1
          <5> QED
            BY <4>2, <5>2
        <4> QED
          BY <3>3, <4>1, <4>2
      <3> QED
        BY <1>2, <1>3, <3>4 DEF Numbers
    <2>2. m = [i \in 1 .. N |-> m[i]]
      <3>1. m = [i \in 1 .. Len(p1) + Len(p2) |-> m[i]]
        BY DEF m, SM!MergeArrays
      <3> QED
        BY <1>5, <3>1
    <2> QED
      BY <2>1, <2>2
  <1>12. Numbers(m) /\ Len(m) = N
    BY <1>11, NumbersAreSeq DEF Numbers
  <1>13. Rearranged(pRecords, SM!Replaced(first, m), n, a, N)
    <2>1. a + N <= n
      BY <1>5
    <2> QED
      BY <1>8, <1>10, <1>12, <2>1, ReplacedIs
  <1> QED
    BY <1>5, <1>13 DEF m, p1, p2

-----------------------------------------------------------------------------
(* The merge sort: what a thread that does not sort any more has behind    *)
(* its first record is in order, as far as its group reaches; the other    *)
(* threads of the group have ended, with groups of their own inside it.    *)
Groups(th) ==
  /\ Divides(twoToi[th], th) /\ th + twoToi[th] <= numFiles
  /\ sorter[th] \in {"suspended", "sort"} => twoToi[th] = 1
  /\ resumed <= th => sorter[th] = "suspended"
  /\ sorter[th] \in {"merge", "ended"} => Ordered(pRecords, th * SM!nRecTh, SM!InGroup(th))
  /\ sorter[th] = "ended" => ~SM!Goes(th)
  /\ \A u \in SM!Sorters : th < u /\ u < th + twoToi[th] =>
       sorter[u] = "ended" /\ u + twoToi[u] <= th + twoToi[th]

SMInv ==
  /\ SM!TypeOK
  /\ twoToi \in [SM!Sorters -> Powers]
  /\ SameCounts(pRecords, input, SM!nRec)
  /\ sortAt = "resume" => resumed < numFiles
  /\ sortAt = "print" => sorter[0] = "ended"
  /\ fault => ~SM!EvenParts
  /\ \A th \in SM!Sorters : Groups(th)

LEMMA SMNat ==
  ASSUME SM!TypeOK
  PROVE  /\ SM!nRec \in Nat /\ numFiles \in Nat \ {0} /\ SM!nRecTh \in Nat
         /\ SM!nRec = numFiles * SM!nRecTh + (SM!nRec % numFiles)
         /\ SM!nRec % numFiles \in Nat
         /\ pRecords \in Seq(Nat) /\ Len(pRecords) = SM!nRec
         /\ input \in Seq(Nat)
  <1>1. /\ input \in Seq(Nat) /\ pRecords \in Seq(Nat) /\ Len(pRecords) = SM!nRec
        /\ numFiles \in Nat \ {0}
    BY WorkersConstants DEF SM!TypeOK
  <1>2. SM!nRec \in Nat
    BY <1>1, LenProperties DEF SM!nRec
  <1>3. PICK n \in Nat : n = SM!nRec
    BY <1>2
  <1>4. /\ n \div numFiles \in Int /\ n = numFiles * (n \div numFiles) + (n % numFiles)
        /\ n % numFiles \in 0 .. numFiles - 1
    BY <1>1, Quotient
  <1>5. PICK q \in Int : q = n \div numFiles
    BY <1>4
  <1>6. PICK r \in Nat : r = n % numFiles /\ r < numFiles
    BY <1>1, <1>4
  <1>7. n = numFiles * q + r
    BY <1>4, <1>5, <1>6
  <1>8. q \in Nat
    <2>1. PICK m \in Int : m = -1
      OBVIOUS
    <2>2. m * numFiles = -numFiles /\ q * numFiles = numFiles * q
      BY <1>1, <2>1
    <2>3. -numFiles < numFiles * q
      <3>1. PICK p \in Int : p = numFiles * q
        BY <1>1
      <3>2. n = p + r /\ n >= 0 /\ r < numFiles /\ numFiles \in Int
        BY <1>1, <1>6, <1>7, <3>1
      <3>3. -numFiles < p
        BY <3>2
      <3> QED
        BY <3>1, <3>3
    <2>4. m < q
      BY <1>1, <2>2, <2>3, Scale
    <2> QED
      BY <2>1, <2>4
  <1> QED
    BY <1>1, <1>3, <1>5, <1>6, <1>7, <1>8 DEF SM!nRecTh

(* Where the group of a thread lies.                                       *)
LEMMA GroupBounds ==
  ASSUME SMInv, NEW th \in SM!Sorters
  PROVE  /\ th \in Nat /\ th < numFiles /\ twoToi[th] \in Powers /\ twoToi[th] \in Nat \ {0}
         /\ th * SM!nRecTh \in Nat /\ SM!InGroup(th) \in Nat
         /\ SM!InGroup(th) = SM!nRecTh * twoToi[th]
         /\ SM!First(th) = th * SM!nRecTh + 1
         /\ th * SM!nRecTh + SM!InGroup(th) = (th + twoToi[th]) * SM!nRecTh
         /\ th + twoToi[th] <= numFiles
         /\ (th + twoToi[th]) * SM!nRecTh <= SM!nRec
         /\ numFiles * SM!nRecTh <= SM!nRec
  <1>1. /\ SM!nRec \in Nat /\ numFiles \in Nat \ {0} /\ SM!nRecTh \in Nat
        /\ SM!nRec = numFiles * SM!nRecTh + (SM!nRec % numFiles)
        /\ SM!nRec % numFiles \in Nat
    BY SMNat DEF SMInv
  <1>2. th \in Nat /\ th < numFiles
    BY <1>1 DEF SM!Sorters
  <1>3. twoToi[th] \in Powers /\ twoToi[th] \in Nat \ {0}
    BY PowersPositive DEF SMInv
  <1>4. th + twoToi[th] <= numFiles
    BY DEF SMInv, Groups
  <1>5. PICK w \in Nat : w = SM!nRecTh
    BY <1>1
  <1>6. PICK t \in Nat \ {0} : t = twoToi[th]
    BY <1>3
  <1>7. th * w \in Nat /\ w * t \in Nat /\ th * w + w * t = (th + t) * w /\ numFiles * w \in Nat
    BY <1>1, <1>2
  <1>8. (th + t) * w <= numFiles * w
    BY <1>1, <1>2, <1>4, <1>6, ProductOrder
  <1>9. PICK r \in Nat : r = SM!nRec % numFiles
    BY <1>1
  <1>10. SM!nRec = numFiles * w + r
    BY <1>1, <1>5, <1>9
  <1>11. numFiles * w <= SM!nRec /\ (th + t) * w <= SM!nRec
    BY <1>1, <1>2, <1>7, <1>8, <1>10
  <1>12. SM!InGroup(th) = w * t /\ SM!First(th) = th * w + 1
    BY <1>5, <1>6 DEF SM!InGroup, SM!First
  <1> QED
    BY <1>2, <1>3, <1>4, <1>5, <1>6, <1>7, <1>11, <1>12

(* A thread that works leaves the groups of others in order: those before  *)
(* it end before it begins, for it has not ended; those behind it are not  *)
(* reached or lie within what it puts in order.                            *)
LEMMA OthersKept ==
  ASSUME SMInv, NEW th \in SM!Sorters, sorter[th] # "ended", NEW g \in Nat,
         NEW r, Rearranged(pRecords, r, SM!nRec, th * SM!nRecTh, SM!nRecTh * g),
         NEW v \in SM!Sorters, v # th, sorter[v] \in {"merge", "ended"},
         th < v => th + g <= v \/ v + twoToi[v] <= th + g
  PROVE  Ordered(r, v * SM!nRecTh, SM!InGroup(v))
  <1> DEFINE k == SM!InGroup(v)
  <1>1. PICK w \in Nat : w = SM!nRecTh
    BY SMNat DEF SMInv
  <1>2. PICK t \in Nat \ {0} : t = twoToi[v]
    BY GroupBounds
  <1>3. th \in Nat /\ v \in Nat /\ SM!nRec \in Nat
    BY GroupBounds, SMNat DEF SMInv
  <1>4. PICK a \in Nat : a = th * w
    BY <1>3
  <1>5. PICK b \in Nat : b = v * w
    BY <1>3
  <1>6. k \in Nat /\ b + k = (v + t) * w /\ b + k <= SM!nRec
    BY <1>1, <1>2, <1>5, GroupBounds
  <1>7. PICK l \in Nat : l = w * g
    OBVIOUS
  <1>8. a + l = (th + g) * w
    BY <1>3, <1>4, <1>7
  <1>9. Ordered(pRecords, b, k)
    BY <1>1, <1>5 DEF SMInv, Groups
  <1>10. /\ \A i \in 1 .. SM!nRec : i \notin a + 1 .. a + l => r[i] = pRecords[i]
         /\ Ordered(r, a, l)
    BY <1>1, <1>4, <1>7 DEF Rearranged
  <1> HIDE DEF k
  <1>11. ASSUME b + k <= a \/ a + l <= b
         PROVE  Ordered(r, b, k)
    <2>1. \A i \in b + 1 .. b + k : i \in 1 .. SM!nRec /\ i \notin a + 1 .. a + l
      BY <1>3, <1>6, <1>11
    <2>2. \A i \in b + 1 .. b + k : r[i] = pRecords[i]
      BY <1>10, <2>1
    <2> QED
      BY <1>9, <2>2 DEF Ordered
  <1>12. CASE v < th
    <2>1. v + t <= th
      <3>1. th < v + t => sorter[th] = "ended"
        BY <1>2, <1>12 DEF SMInv, Groups
      <3> QED
        BY <1>3, <3>1
    <2>2. (v + t) * w <= th * w
      BY <1>3, <2>1, ProductOrder
    <2> QED
      BY <1>4, <1>5, <1>6, <1>11, <2>2, <1>1 DEF k
  <1>13. CASE th < v /\ th + g <= v
    <2>1. (th + g) * w <= v * w
      BY <1>3, <1>13, ProductOrder
    <2> QED
      BY <1>5, <1>8, <1>11, <2>1, <1>1 DEF k
  <1>14. CASE th < v /\ v + t <= th + g
    <2>1. (v + t) * w <= (th + g) * w /\ th * w <= v * w
      BY <1>3, <1>14, ProductOrder
    <2>2. a <= b /\ b + k <= a + l
      BY <1>4, <1>5, <1>6, <1>8, <2>1
    <2>3. Ordered(r, b, k)
      BY <1>6, <1>10, <2>2, OrderedPart
    <2> QED
      BY <1>1, <1>5, <2>3 DEF k
  <1> QED
    BY <1>2, <1>3, <1>12, <1>13, <1>14

LEMMA SMInit ==
  ASSUME SM!Init
  PROVE  SMInv
  <1>1. /\ input \in Seq(Nat) /\ pRecords = input /\ numFiles \in Nat \ {0}
        /\ numFiles <= MaxThreads /\ SM!nRec \in Nat
    BY WorkersConstants, LenProperties DEF SM!Init, SM!nRec
  <1>2. SM!TypeOK
    <2>1. pRecords \in Seq(Nat) /\ Len(pRecords) = SM!nRec /\ input \in RecordFiles
      BY <1>1 DEF SM!Init, SM!nRec
    <2>2. numFiles \in 1 .. MaxThreads /\ resumed \in 0 .. numFiles
      BY <1>1, WorkersConstants DEF SM!Init
    <2>3. sorter \in [SM!Sorters -> {"suspended", "sort", "merge", "ended"}]
      BY DEF SM!Init
    <2>4. \A th \in SM!Sorters : twoToi[th] \in 1 .. 2 * MaxThreads
      BY <1>1, <2>2, WorkersConstants DEF SM!Init
    <2> QED
      BY <2>1, <2>2, <2>3, <2>4 DEF SM!Init, SM!TypeOK
  <1>3. SameCounts(pRecords, input, SM!nRec)
    BY <1>1 DEF SameCounts
  <1>4. 1 \in Powers
    BY PowersClosed DEF Doubling
  <1>5. ASSUME NEW th \in SM!Sorters
        PROVE  Groups(th)
    <2>1. th \in Int /\ th + 1 <= numFiles
      BY <1>1 DEF SM!Sorters
    <2>2. twoToi[th] = 1 /\ sorter[th] = "suspended"
      BY DEF SM!Init
    <2>3. Divides(1, th)
      BY <2>1 DEF Divides
    <2>4. \A u \in SM!Sorters : ~(th < u /\ u < th + 1)
      BY <2>1 DEF SM!Sorters
    <2> QED
      BY <2>1, <2>2, <2>3, <2>4 DEF Groups
  <1> QED
    BY <1>1, <1>2, <1>3, <1>4, <1>5 DEF SMInv, SM!Init

(* What does not change while the threads run.                             *)
LEMMA SMFixed ==
  ASSUME input' = input, numFiles' = numFiles
  PROVE  /\ SM!nRec' = SM!nRec /\ SM!nRecTh' = SM!nRecTh /\ SM!Sorters' = SM!Sorters
         /\ SM!EvenParts' = SM!EvenParts
  BY DEF SM!nRec, SM!nRecTh, SM!Sorters, SM!EvenParts

LEMMA SMResume ==
  ASSUME SMInv, SM!Resume
  PROVE  SMInv'
  <1>0. /\ input' = input /\ numFiles' = numFiles /\ pRecords' = pRecords /\ twoToi' = twoToi
        /\ fault' = fault /\ ~fault /\ sortAt = "resume" /\ resumed' = resumed + 1
        /\ sorter' = [sorter EXCEPT ![resumed] = "sort"]
        /\ sortAt' = IF resumed' = numFiles THEN "wait" ELSE "resume"
    BY DEF SM!Resume
  <1>1. resumed \in Nat /\ numFiles \in Nat \ {0} /\ resumed < numFiles /\ resumed \in SM!Sorters
    BY <1>0, SMNat DEF SMInv, SM!TypeOK, SM!Sorters
  <1>3. sorter[resumed] = "suspended" /\ twoToi[resumed] = 1
    BY <1>1 DEF SMInv, Groups
  <1>4. sorter \in [SM!Sorters -> {"suspended", "sort", "merge", "ended"}]
    BY DEF SMInv, SM!TypeOK
  <1>2. SM!TypeOK'
    <2>1. sorter' \in [SM!Sorters -> {"suspended", "sort", "merge", "ended"}]
      BY <1>0, <1>4
    <2>2. resumed' \in 0 .. numFiles /\ sortAt' \in {"resume", "wait", "print"}
      BY <1>0, <1>1
    <2>3. /\ input \in RecordFiles /\ pRecords \in Seq(Nat) /\ Len(pRecords) = SM!nRec
          /\ numFiles \in 1 .. MaxThreads /\ fault \in BOOLEAN
          /\ \A th \in SM!Sorters : twoToi[th] \in 1 .. 2 * MaxThreads
      BY DEF SMInv, SM!TypeOK
    <2> QED
      BY <1>0, <2>1, <2>2, <2>3, SMFixed DEF SM!TypeOK
  <1>5. ASSUME NEW th \in SM!Sorters
        PROVE  Groups(th)'
    <2>1. Groups(th) /\ th \in Int
      BY <1>1 DEF SMInv, SM!Sorters
    <2>2. SM!InGroup(th)' = SM!InGroup(th) /\ SM!Goes(th)' = SM!Goes(th)
      BY <1>0, SMFixed DEF SM!InGroup, SM!Goes
    <2>3. \A u \in SM!Sorters : sorter[u] = "ended" => sorter'[u] = "ended"
      BY <1>0, <1>3, <1>4
    <2>4. th # resumed => sorter'[th] = sorter[th]
      BY <1>0, <1>4
    <2>5. th = resumed => sorter'[th] = "sort"
      BY <1>0, <1>1, <1>4
    <2>6. resumed' <= th => resumed <= th /\ th # resumed
      BY <1>0, <1>1, <2>1
    <2>7. \A u \in SM!Sorters' : th < u /\ u < th + twoToi'[th] =>
            sorter'[u] = "ended" /\ u + twoToi'[u] <= th + twoToi'[th]
      BY <1>0, <2>1, <2>3, SMFixed DEF Groups
    <2> QED
      BY <1>0, <1>3, <2>1, <2>2, <2>4, <2>5, <2>6, <2>7, SMFixed DEF Groups
  <1>6. sortAt' = "resume" => resumed' < numFiles'
    BY <1>0, <1>1
  <1> QED
    BY <1>0, <1>2, <1>5, <1>6, SMFixed DEF SMInv

LEMMA SMWaitFirst ==
  ASSUME SMInv, SM!WaitFirst
  PROVE  SMInv'
  <1>0. /\ UNCHANGED <<input, pRecords, numFiles, resumed, sorter, twoToi, fault>>
        /\ sorter[0] = "ended" /\ sortAt' = "print"
    BY DEF SM!WaitFirst
  <1>1. SM!TypeOK'
    BY <1>0 DEF SMInv, SM!TypeOK, SM!nRec, SM!Sorters
  <1>2. \A th : Groups(th)' = Groups(th)
    BY <1>0, SMFixed DEF Groups, SM!InGroup, SM!Goes
  <1> QED
    BY <1>0, <1>1, <1>2, SMFixed DEF SMInv

(* The numbers stay the same when a part of them is put in order.          *)
LEMMA SMRearranged ==
  ASSUME SMInv, NEW a, NEW k, Rearranged(pRecords, pRecords', SM!nRec, a, k),
         pRecords' = [i \in DOMAIN pRecords |-> pRecords'[i]]
  PROVE  /\ pRecords' \in Seq(Nat) /\ Len(pRecords') = SM!nRec
         /\ SameCounts(pRecords', input, SM!nRec)
  <1>1. SM!nRec \in Nat /\ pRecords \in [1 .. SM!nRec -> Nat]
    BY SMNat, NumbersAreSeq DEF SMInv
  <1>2. pRecords' \in [1 .. SM!nRec -> Nat]
    BY <1>1 DEF Rearranged, NumbersOf
  <1>3. SameCounts(pRecords', input, SM!nRec)
    BY DEF SMInv, SameCounts, Rearranged
  <1> QED
    BY <1>1, <1>2, <1>3, NumbersAreSeq

LEMMA SMSortPart ==
  ASSUME SMInv, NEW th \in SM!Sorters, SM!SortPart(th)
  PROVE  SMInv'
  <1> DEFINE w == SM!nRecTh
             mine == SM!Part(SM!First(th), w)
  <1>0. /\ UNCHANGED <<input, numFiles, resumed, twoToi, sortAt, fault>> /\ ~fault
        /\ sorter[th] = "sort" /\ sorter' = [sorter EXCEPT ![th] = "merge"]
    BY DEF SM!SortPart
  <1>1. PICK p \in [DOMAIN mine -> SM!ToSet(mine)] :
          /\ SM!InOrder(p) /\ SM!ToBag(p) = SM!ToBag(mine)
          /\ pRecords' = SM!Replaced(SM!First(th), p)
    BY DEF SM!SortPart
  <1>2. PICK a \in Nat : a = th * w
    BY GroupBounds
  <1>3. /\ SM!nRec \in Nat /\ w \in Nat /\ pRecords \in Seq(Nat) /\ Len(pRecords) = SM!nRec
        /\ numFiles \in Nat \ {0}
    BY SMNat DEF SMInv
  <1>4. twoToi[th] = 1 /\ ~(resumed <= th)
    BY <1>0 DEF SMInv, Groups
  <1>5. a + w <= SM!nRec /\ SM!First(th) = a + 1 /\ SM!InGroup(th) = w
    <2>1. SM!InGroup(th) = w * 1 /\ w * 1 = w
      BY <1>3, <1>4, GroupBounds
    <2> QED
      BY <1>2, <2>1, GroupBounds
  <1>6. Rearranged(pRecords, pRecords', SM!nRec, a, w)
    <2>1. a + 1 = SM!First(th)
      BY <1>5
    <2> HIDE DEF w
    <2> QED
      BY <1>1, <1>3, <1>5, <2>1, SortedPart
  <1>7. /\ pRecords' \in Seq(Nat) /\ Len(pRecords') = SM!nRec
        /\ SameCounts(pRecords', input, SM!nRec)
    <2>1. pRecords' = [i \in DOMAIN pRecords |-> pRecords'[i]]
      BY <1>1 DEF SM!Replaced
    <2> QED
      BY <1>6, <2>1, SMRearranged
  <1>8. sorter \in [SM!Sorters -> {"suspended", "sort", "merge", "ended"}]
    BY DEF SMInv, SM!TypeOK
  <1>9. SM!TypeOK'
    BY <1>0, <1>7, <1>8, SMFixed DEF SMInv, SM!TypeOK
  <1>10. PICK one \in Nat : one = 1
    OBVIOUS
  <1>11. Rearranged(pRecords, pRecords', SM!nRec, th * SM!nRecTh, SM!nRecTh * one)
    <2>1. SM!nRecTh * one = w
      BY <1>3, <1>10
    <2> QED
      BY <1>2, <1>6, <2>1
  <1>12. ASSUME NEW v \in SM!Sorters
         PROVE  Groups(v)'
    <2>1. Groups(v) /\ v \in Int /\ th \in Int
      BY <1>3 DEF SMInv, SM!Sorters
    <2>2. SM!InGroup(v)' = SM!InGroup(v) /\ SM!Goes(v)' = SM!Goes(v)
      BY <1>0, SMFixed DEF SM!InGroup, SM!Goes
    <2>3. \A u \in SM!Sorters : sorter[u] = "ended" => sorter'[u] = "ended"
      BY <1>0, <1>8
    <2>4. v # th => sorter'[v] = sorter[v]
      BY <1>0, <1>8
    <2>5. v = th => sorter'[v] = "merge"
      BY <1>0, <1>8
    <2>6. sorter'[v] \in {"merge", "ended"} => Ordered(pRecords', v * SM!nRecTh, SM!InGroup(v))
      <3>1. CASE v = th
        BY <1>2, <1>5, <1>6, <3>1 DEF Rearranged
      <3>2. CASE v # th
        <4>1. th < v => th + one <= v
          BY <1>10, <2>1
        <4> QED
          BY <1>0, <1>11, <2>4, <3>2, <4>1, OthersKept
      <3> QED
        BY <3>1, <3>2
    <2>7. \A u \in SM!Sorters' : v < u /\ u < v + twoToi'[v] =>
            sorter'[u] = "ended" /\ u + twoToi'[u] <= v + twoToi'[v]
      BY <1>0, <2>1, <2>3, SMFixed DEF Groups
    <2> QED
      BY <1>0, <1>4, <2>1, <2>2, <2>4, <2>5, <2>6, <2>7, SMFixed DEF Groups
  <1>13. sortAt' = "print" => sorter'[0] = "ended"
    <2>1. 0 \in SM!Sorters
      BY <1>3 DEF SM!Sorters
    <2> QED
      BY <1>0, <1>8, <2>1 DEF SMInv
  <1> QED
    BY <1>0, <1>7, <1>9, <1>12, <1>13, SMFixed DEF SMInv

LEMMA SMEndSort ==
  ASSUME SMInv, NEW th \in SM!Sorters, SM!EndSort(th)
  PROVE  SMInv'
  <1>0. /\ UNCHANGED <<input, pRecords, numFiles, resumed, twoToi, sortAt, fault>>
        /\ sorter[th] = "merge" /\ sorter' = [sorter EXCEPT ![th] = "ended"] /\ ~SM!Goes(th)
    BY DEF SM!EndSort
  <1>1. sorter \in [SM!Sorters -> {"suspended", "sort", "merge", "ended"}]
    BY DEF SMInv, SM!TypeOK
  <1>2. SM!TypeOK'
    BY <1>0, <1>1, SMFixed DEF SMInv, SM!TypeOK, SM!nRec
  <1>3. ASSUME NEW v \in SM!Sorters
        PROVE  Groups(v)'
    <2>1. Groups(v) /\ Groups(th)
      BY DEF SMInv
    <2>2. SM!InGroup(v)' = SM!InGroup(v) /\ SM!Goes(v)' = SM!Goes(v)
      BY <1>0, SMFixed DEF SM!InGroup, SM!Goes
    <2>3. \A u \in SM!Sorters : sorter[u] = "ended" => sorter'[u] = "ended"
      BY <1>0, <1>1
    <2>4. v # th => sorter'[v] = sorter[v]
      BY <1>0, <1>1
    <2>5. v = th => sorter'[v] = "ended"
      BY <1>0, <1>1
    <2>6. \A u \in SM!Sorters' : v < u /\ u < v + twoToi'[v] =>
            sorter'[u] = "ended" /\ u + twoToi'[u] <= v + twoToi'[v]
      BY <1>0, <2>1, <2>3, SMFixed DEF Groups
    <2> QED
      BY <1>0, <2>1, <2>2, <2>4, <2>5, <2>6, SMFixed DEF Groups
  <1>4. sortAt' = "print" => sorter'[0] = "ended"
    <2>1. 0 \in SM!Sorters
      BY SMNat DEF SMInv, SM!Sorters
    <2> QED
      BY <1>0, <1>1, <2>1 DEF SMInv
  <1> QED
    BY <1>0, <1>2, <1>3, <1>4, SMFixed DEF SMInv

(* A thread that goes on begins at a multiple of twice its group.          *)
LEMMA GoesFar ==
  ASSUME SMInv, NEW th \in SM!Sorters, SM!Goes(th)
  PROVE  /\ Divides(2 * twoToi[th], th)
         /\ SM!nRecTh * twoToi[th] < SM!nRec
  <1>1. twoToi[th] \in Nat \ {0} /\ th \in Nat /\ SM!InGroup(th) = SM!nRecTh * twoToi[th]
    BY GroupBounds
  <1>2. PICK d \in Nat \ {0} : d = 2 * twoToi[th]
    BY <1>1
  <1>3. th % d = 0 /\ SM!InGroup(th) < SM!nRec
    BY <1>2 DEF SM!Goes
  <1>4. Divides(d, th)
    BY <1>1, <1>3, RemainderDivides
  <1> QED
    BY <1>1, <1>2, <1>3, <1>4

(* The thread that is waited for has ended with a group of the same size.  *)
LEMMA SameSize ==
  ASSUME SMInv, NEW th \in SM!Sorters, SM!Goes(th),
         NEW other \in SM!Sorters, other = th + twoToi[th], sorter[other] = "ended"
  PROVE  twoToi[other] = twoToi[th]
  <1>1. PICK t \in Powers : t = twoToi[th]
    BY GroupBounds
  <1>2. PICK s \in Powers : s = twoToi[other]
    BY GroupBounds
  <1>3. t \in Nat \ {0} /\ s \in Nat \ {0} /\ th \in Nat /\ other \in Nat /\ other = th + t
    BY <1>1, <1>2, PowersPositive, GroupBounds
  <1>4. PICK w \in Nat : w = SM!nRecTh
    BY SMNat DEF SMInv
  <1>5. PICK n \in Nat : n = SM!nRec
    BY SMNat DEF SMInv
  <1>6. Divides(2 * t, th) /\ w * t < n
    BY <1>1, <1>4, <1>5, GoesFar
  <1>7. Divides(s, other) /\ ~SM!Goes(other)
    BY <1>2 DEF SMInv, Groups
  <1>8. (other + s) * w <= n /\ SM!InGroup(other) = w * s
    BY <1>2, <1>4, <1>5, GroupBounds
  <1>9. w * s < n
    <2>1. CASE w = 0
      BY <1>3, <1>6, <2>1
    <2>2. CASE w # 0
      <3>1. /\ (other + s) * w = other * w + w * s /\ other * w \in Int /\ w * s \in Int
            /\ other \in Nat \ {0} /\ w \in Nat \ {0}
        BY <1>3, <2>2
      <3>2. other * w > 0
        BY <3>1
      <3> QED
        BY <1>8, <3>1, <3>2
    <2> QED
      BY <2>1, <2>2
  <1>10. PICK d \in Nat \ {0} : d = 2 * s
    BY <1>3
  <1>11. ~Divides(d, other)
    <2>1. other % d # 0
      BY <1>2, <1>5, <1>7, <1>8, <1>9, <1>10 DEF SM!Goes
    <2> QED
      BY <1>3, <2>1, RemainderDivides
  <1>12. Divides(s, th + t) /\ ~Divides(2 * s, th + t) /\ th \in Int
    BY <1>3, <1>7, <1>10, <1>11
  <1>13. s = t
    BY <1>6, <1>12, NextGroup
  <1> QED
    BY <1>1, <1>2, <1>13

(* Where the records are divided into 2^k equal parts the group next to it *)
(* is there.                                                               *)
LEMMA EvenRoom ==
  ASSUME SMInv, SM!EvenParts, NEW th \in SM!Sorters, SM!Goes(th)
  PROVE  th + 2 * twoToi[th] <= numFiles
  <1>1. PICK t \in Powers : t = twoToi[th]
    BY GroupBounds
  <1>2. PICK w \in Nat : w = SM!nRecTh
    BY SMNat DEF SMInv
  <1>3. t \in Nat \ {0} /\ th \in Nat /\ th < numFiles /\ numFiles \in Nat \ {0}
    BY <1>1, PowersPositive, GroupBounds, SMNat DEF SMInv
  <1>4. numFiles \in Powers
    BY PowersClosed DEF SM!EvenParts, Doubling
  <1>5. SM!nRec = numFiles * w
    BY <1>2, <1>3, SMNat DEF SMInv, SM!EvenParts
  <1>6. Divides(2 * t, th) /\ w * t < numFiles * w
    BY <1>1, <1>2, <1>5, GoesFar
  <1>7. t < numFiles
    <2>1. numFiles <= t => numFiles * w <= t * w
      BY <1>3, ProductOrder
    <2>2. t * w = w * t /\ w * t \in Int /\ numFiles * w \in Int
      BY <1>3
    <2> QED
      BY <1>3, <1>6, <2>1, <2>2
  <1>8. Divides(2 * t, numFiles)
    BY <1>4, <1>7, SmallerPower
  <1>9. PICK d \in Nat \ {0} : d = 2 * t
    BY <1>3
  <1>10. Divides(d, numFiles - th)
    BY <1>3, <1>6, <1>8, <1>9, DividesSum
  <1>11. PICK q \in Int : numFiles - th = d * q
    BY <1>10 DEF Divides
  <1>12. d <= d * q
    <2>1. d * q > 0 /\ d * q \in Int
      BY <1>3, <1>11
    <2>2. q > 0
      BY <1>9, <2>1
    <2>3. PICK m \in Nat : q = m + 1
      <3>1. q - 1 \in Nat /\ q = (q - 1) + 1
        BY <2>2
      <3> QED
        BY <3>1
    <2>4. d * q = d * m + d /\ d * m \in Nat
      BY <2>3
    <2> QED
      BY <2>4
  <1> QED
    BY <1>1, <1>3, <1>9, <1>11, <1>12

(* The threads of both groups, but the first one, have ended.              *)
LEMMA InsideBoth ==
  ASSUME SMInv, NEW th \in SM!Sorters, SM!Goes(th),
         NEW other \in SM!Sorters, other = th + twoToi[th], sorter[other] = "ended",
         NEW u \in SM!Sorters, th < u, u < th + 2 * twoToi[th]
  PROVE  sorter[u] = "ended" /\ u + twoToi[u] <= th + 2 * twoToi[th]
  <1>1. PICK t \in Nat \ {0} : t = twoToi[th]
    BY GroupBounds
  <1>2. twoToi[other] = t
    BY <1>1, SameSize
  <1>3. PICK s \in Nat \ {0} : s = twoToi[u]
    BY GroupBounds
  <1>4. th \in Nat /\ u \in Nat /\ other \in Nat /\ other = th + t
    BY <1>1, GroupBounds
  <1>5. CASE u < th + t
    <2>1. sorter[u] = "ended" /\ u + s <= th + t
      BY <1>1, <1>3, <1>5 DEF SMInv, Groups
    <2> QED
      BY <1>1, <1>3, <1>4, <2>1
  <1>6. CASE u = other
    BY <1>1, <1>2, <1>4, <1>6
  <1>7. CASE other < u
    <2>1. u < other + t
      BY <1>1, <1>4
    <2>2. sorter[u] = "ended" /\ u + s <= other + t
      BY <1>2, <1>3, <1>7, <2>1 DEF SMInv, Groups
    <2> QED
      BY <1>1, <1>3, <1>4, <2>2
  <1> QED
    BY <1>4, <1>5, <1>6, <1>7

(* A round that runs past the end: only where the parts are not even.      *)
LEMMA SMFault ==
  ASSUME SMInv, NEW th \in SM!Sorters, SM!Goes(th),
         \/ th + twoToi[th] >= numFiles
         \/ SM!First(th) + 2 * SM!InGroup(th) - 1 > SM!nRec
  PROVE  ~SM!EvenParts
  <1> SUFFICES ASSUME SM!EvenParts PROVE FALSE
    OBVIOUS
  <1>1. PICK t \in Nat \ {0} : t = twoToi[th]
    BY GroupBounds
  <1>2. PICK w \in Nat : w = SM!nRecTh
    BY SMNat DEF SMInv
  <1>3. PICK n \in Nat : n = SM!nRec
    BY SMNat DEF SMInv
  <1>4. th \in Nat /\ numFiles \in Nat /\ th + 2 * t <= numFiles
    BY <1>1, GroupBounds, EvenRoom, SMNat DEF SMInv
  <1>5. th + t < numFiles
    BY <1>4
  <1>6. numFiles * w <= n /\ SM!First(th) = th * w + 1 /\ SM!InGroup(th) = w * t
    BY <1>1, <1>2, <1>3, GroupBounds
  <1>7. (th + 2 * t) * w <= numFiles * w
    BY <1>4, ProductOrder
  <1>8. /\ (th + 2 * t) * w = th * w + 2 * (w * t)
        /\ th * w \in Int /\ w * t \in Int /\ numFiles * w \in Int
    BY <1>4
  <1>9. ~((th * w + 1) + 2 * (w * t) - 1 > n)
    BY <1>6, <1>7, <1>8
  <1> QED
    BY <1>1, <1>3, <1>5, <1>6, <1>9, <1>4

LEMMA SMMergePart ==
  ASSUME SMInv, NEW th \in SM!Sorters, SM!MergePart(th)
  PROVE  SMInv'
  <1> DEFINE t == twoToi[th]
             k == SM!InGroup(th)
             first == SM!First(th)
  <1>0. /\ UNCHANGED <<input, numFiles, resumed, sorter, sortAt>>
        /\ ~fault /\ sorter[th] = "merge" /\ SM!Goes(th)
    BY DEF SM!MergePart
  <1>1. CASE th + t >= numFiles \/ first + 2 * k - 1 > SM!nRec
    <2>1. fault' = TRUE /\ pRecords' = pRecords /\ twoToi' = twoToi
      BY <1>1 DEF SM!MergePart
    <2>2. ~SM!EvenParts
      BY <1>0, <1>1, SMFault
    <2>3. \A v : Groups(v)' = Groups(v)
      BY <1>0, <2>1, SMFixed DEF Groups, SM!InGroup, SM!Goes
    <2>4. SM!TypeOK'
      BY <1>0, <2>1, SMFixed DEF SMInv, SM!TypeOK
    <2> QED
      BY <1>0, <2>1, <2>2, <2>3, <2>4, SMFixed DEF SMInv
  <1>2. CASE ~(th + t >= numFiles \/ first + 2 * k - 1 > SM!nRec)
    <2>1. /\ sorter[th + t] = "ended" /\ fault' = fault
          /\ pRecords' = SM!Replaced(first, SM!MergeArrays(SM!Part(first, k),
                                                           SM!Part(first + k, k)))
          /\ twoToi' = [twoToi EXCEPT ![th] = 2 * @]
      BY <1>2 DEF SM!MergePart
    <2>2. PICK w \in Nat : w = SM!nRecTh
      BY SMNat DEF SMInv
    <2>3. PICK g \in Nat : g = 2 * t
      BY GroupBounds
    <2>4. /\ th \in Nat /\ t \in Nat \ {0} /\ t \in Powers /\ numFiles \in Nat \ {0}
          /\ SM!nRec \in Nat /\ k \in Nat /\ k = w * t /\ first = th * w + 1
          /\ th * w \in Nat /\ th * w + k = (th + t) * w
      BY <2>2, GroupBounds, SMNat DEF SMInv
    <2>5. PICK other \in SM!Sorters : other = th + t
      <3>1. th + t \in 0 .. numFiles - 1
        BY <1>2, <2>4
      <3> QED
        BY <3>1 DEF SM!Sorters
    <2>6. sorter[other] = "ended" /\ twoToi[other] = t
      BY <1>0, <2>1, <2>5, SameSize
    <2>7. PICK a \in Nat : a = th * w
      BY <2>4
    <2>8. a + 2 * k <= SM!nRec /\ first = a + 1 /\ other * w = a + k
      BY <1>2, <2>4, <2>5, <2>7
    <2>9. Ordered(pRecords, a, k) /\ Ordered(pRecords, a + k, k)
      <3>1. SM!InGroup(other) = k
        BY <2>6 DEF SM!InGroup
      <3>2. Ordered(pRecords, th * SM!nRecTh, SM!InGroup(th))
        BY <1>0 DEF SMInv, Groups
      <3>3. Ordered(pRecords, other * SM!nRecTh, SM!InGroup(other))
        BY <2>6 DEF SMInv, Groups
      <3> QED
        BY <2>2, <2>7, <2>8, <3>1, <3>2, <3>3
    <2>10. Rearranged(pRecords, pRecords', SM!nRec, a, 2 * k)
      <3>1. pRecords \in Seq(Nat) /\ Len(pRecords) = SM!nRec
        BY SMNat DEF SMInv
      <3>2. PICK n \in Nat : n = SM!nRec
        BY <2>4
      <3>3. PICK b \in Nat : b = k
        BY <2>4
      <3>4. PICK f : f = first
        OBVIOUS
      <3> HIDE DEF k, first
      <3>5. Rearranged(pRecords,
                       SM!Replaced(f, SM!MergeArrays(SM!Part(f, b), SM!Part(f + b, b))),
                       n, a, 2 * b)
        BY <2>8, <2>9, <3>1, <3>2, <3>3, <3>4, MergedParts
      <3> QED
        BY <2>1, <3>2, <3>3, <3>4, <3>5
    <2>11. Rearranged(pRecords, pRecords', SM!nRec, th * SM!nRecTh, SM!nRecTh * g)
      <3>1. SM!nRecTh * g = 2 * k
        BY <2>2, <2>3, <2>4
      <3> QED
        BY <2>2, <2>7, <2>10, <3>1
    <2>12. /\ pRecords' \in Seq(Nat) /\ Len(pRecords') = SM!nRec
           /\ SameCounts(pRecords', input, SM!nRec)
      <3>1. pRecords' = [i \in DOMAIN pRecords |-> pRecords'[i]]
        BY <2>1 DEF SM!Replaced
      <3> QED
        BY <2>11, <3>1, SMRearranged
    <2>13. twoToi \in [SM!Sorters -> Powers] /\ g \in Powers
      BY <2>3, <2>4, PowersClosed DEF SMInv, Doubling
    <2>14. /\ twoToi' \in [SM!Sorters -> Powers] /\ twoToi'[th] = g
           /\ \A v \in SM!Sorters : v # th => twoToi'[v] = twoToi[v]
      BY <2>1, <2>3, <2>13
    <2>15. th + g <= numFiles
      <3>1. other + twoToi[other] <= numFiles
        BY DEF SMInv, Groups
      <3> QED
        BY <2>3, <2>4, <2>5, <2>6, <3>1
    <2>16. SM!TypeOK'
      <3>1. g \in 1 .. 2 * MaxThreads
        <4>1. numFiles <= MaxThreads /\ g >= 1 /\ g \in Nat
          BY <2>3, <2>4 DEF SMInv, SM!TypeOK
        <4> QED
          BY <2>4, <2>15, <4>1, WorkersConstants
      <3>2. \A v \in SM!Sorters : twoToi'[v] \in 1 .. 2 * MaxThreads
        BY <2>14, <3>1 DEF SMInv, SM!TypeOK
      <3>3. /\ input \in RecordFiles /\ numFiles \in 1 .. MaxThreads /\ resumed \in 0 .. numFiles
            /\ sorter \in [SM!Sorters -> {"suspended", "sort", "merge", "ended"}]
            /\ sortAt \in {"resume", "wait", "print"} /\ fault \in BOOLEAN
        BY DEF SMInv, SM!TypeOK
      <3> QED
        BY <1>0, <2>1, <2>12, <3>2, <3>3, SMFixed DEF SM!TypeOK
    <2>17. \A u \in SM!Sorters : th < u /\ u < th + g =>
             sorter[u] = "ended" /\ u + twoToi[u] <= th + g
      BY <1>0, <2>3, <2>5, <2>6, InsideBoth
    <2>18. ASSUME NEW v \in SM!Sorters, v # th
           PROVE  Groups(v)'
      <3>1. Groups(v) /\ v \in Nat
        BY GroupBounds DEF SMInv
      <3>2. SM!InGroup(v)' = SM!InGroup(v) /\ SM!Goes(v)' = SM!Goes(v) /\ twoToi'[v] = twoToi[v]
        BY <1>0, <2>14, <2>18, SMFixed DEF SM!InGroup, SM!Goes
      <3>3. sorter[v] \in {"merge", "ended"} => Ordered(pRecords', v * SM!nRecTh, SM!InGroup(v))
        <4>1. th < v => th + g <= v \/ v + twoToi[v] <= th + g
          BY <2>3, <2>4, <2>17, <3>1
        <4> QED
          BY <1>0, <2>11, <2>18, <4>1, OthersKept
      <3>4. \A u \in SM!Sorters' : v < u /\ u < v + twoToi'[v] =>
              sorter'[u] = "ended" /\ u + twoToi'[u] <= v + twoToi'[v]
        BY <1>0, <2>14, <3>1, <3>2, SMFixed DEF Groups
      <3> QED
        BY <1>0, <3>1, <3>2, <3>3, <3>4, SMFixed DEF Groups
    <2>19. Groups(th)'
      <3>1. Divides(g, th)
        BY <1>0, <2>3, GoesFar
      <3>2. Ordered(pRecords', th * SM!nRecTh, SM!nRecTh * g)
        BY <2>11 DEF Rearranged
      <3>3. SM!InGroup(th)' = SM!nRecTh * g
        BY <1>0, <2>14, SMFixed DEF SM!InGroup
      <3>4. ~(resumed <= th)
        BY <1>0 DEF SMInv, Groups
      <3>5. \A u \in SM!Sorters' : th < u /\ u < th + twoToi'[th] =>
              sorter'[u] = "ended" /\ u + twoToi'[u] <= th + twoToi'[th]
        <4>1. \A u \in SM!Sorters : th < u => u # th
          BY <2>4
        <4> QED
          BY <1>0, <2>14, <2>17, <4>1, SMFixed
      <3> QED
        BY <1>0, <2>14, <2>15, <3>1, <3>2, <3>3, <3>4, <3>5, SMFixed DEF Groups
    <2> QED
      BY <1>0, <2>1, <2>12, <2>14, <2>16, <2>18, <2>19, SMFixed DEF SMInv
  <1> QED
    BY <1>1, <1>2

LEMMA SMNext ==
  ASSUME SMInv, SM!Next \/ UNCHANGED SM!smVars
  PROVE  SMInv'
  <1>1. CASE UNCHANGED SM!smVars
    <2>1. UNCHANGED <<input, pRecords, numFiles, resumed, sorter, twoToi, sortAt, fault>>
      BY <1>1 DEF SM!smVars
    <2>2. \A th : Groups(th)' = Groups(th)
      BY <2>1, SMFixed DEF Groups, SM!InGroup, SM!Goes
    <2>3. SM!TypeOK'
      BY <2>1, SMFixed DEF SMInv, SM!TypeOK
    <2> QED
      BY <2>1, <2>2, <2>3, SMFixed DEF SMInv
  <1>2. CASE SM!Resume
    BY <1>2, SMResume
  <1>3. CASE SM!WaitFirst
    BY <1>3, SMWaitFirst
  <1>4. CASE \E th \in SM!Sorters : SM!SortThread(th)
    BY <1>4, SMSortPart, SMMergePart, SMEndSort DEF SM!SortThread
  <1> QED
    BY <1>1, <1>2, <1>3, <1>4 DEF SM!Next

LEMMA SMSorted ==
  ASSUME SMInv
  PROVE  SM!SortRight
  <1>1. /\ SM!nRec \in Nat /\ SM!nRecTh \in Nat /\ numFiles \in Nat \ {0}
        /\ pRecords \in Seq(Nat) /\ Len(pRecords) = SM!nRec /\ input \in Seq(Nat)
    BY SMNat DEF SMInv
  <1>2. PICK n \in Nat : n = SM!nRec
    BY <1>1
  <1>3. DOMAIN pRecords = 1 .. n /\ DOMAIN input = 1 .. n
    BY <1>1, <1>2 DEF SM!nRec
  <1>4. SM!ToBag(pRecords) = SM!ToBag(input)
    BY <1>2, <1>3, BagCounts DEF SMInv
  <1>5. ASSUME sortAt = "print"
        PROVE  /\ SM!InOrder(pRecords)
               /\ SM!nRec > 0 => \A th \in SM!Sorters : sorter[th] = "ended"
    <2>1. PICK z \in SM!Sorters : z = 0
      BY <1>1 DEF SM!Sorters
    <2>2. sorter[z] = "ended" /\ Ordered(pRecords, z * SM!nRecTh, SM!InGroup(z)) /\ ~SM!Goes(z)
      BY <1>5, <2>1 DEF SMInv, Groups
    <2>3. PICK w \in Nat : w = SM!nRecTh
      BY <1>1
    <2>4. PICK t \in Nat \ {0} : t = twoToi[z]
      BY GroupBounds
    <2>5. SM!InGroup(z) = w * t /\ (z + t) * w <= n /\ numFiles * w <= n /\ z + t <= numFiles
      BY <1>2, <2>3, <2>4, GroupBounds
    <2>6. ~(w * t < n)
      <3>1. PICK d \in Nat \ {0} : d = 2 * t
        OBVIOUS
      <3>2. z % d = 0
        BY <2>1
      <3> QED
        BY <1>2, <2>2, <2>4, <2>5, <3>1, <3>2 DEF SM!Goes
    <2>7. w * t = n /\ z * w = 0
      BY <2>1, <2>5, <2>6
    <2>8. Ordered(pRecords, 0, n)
      BY <2>2, <2>3, <2>5, <2>7
    <2>9. SM!InOrder(pRecords)
      BY <1>3, <2>8 DEF Ordered, SM!InOrder
    <2>10. ASSUME n > 0, NEW th \in SM!Sorters
           PROVE  sorter[th] = "ended"
      <3>1. t = numFiles
        <4>1. w \in Nat \ {0}
          BY <2>4, <2>7, <2>10
        <4>2. numFiles * w \in Int /\ t * w = w * t
          BY <1>1
        <4>3. ~(t * w < numFiles * w)
          <5>1. PICK whole \in Int, part \in Int : whole = numFiles * w /\ part = t * w
            BY <4>2
          <5>2. n \in Nat /\ whole <= n /\ part = n
            BY <1>1, <2>5, <2>7, <4>2, <5>1
          <5> QED
            BY ONLY <5>1, <5>2
        <4>4. ~(t < numFiles)
          BY <1>1, <4>1, <4>3, Scale
        <4> QED
          BY <1>1, <2>1, <2>5, <4>4
      <3>2. th \in Nat /\ th < z + t
        BY <2>1, <3>1, GroupBounds
      <3> QED
        BY <2>1, <2>2, <2>4, <3>2 DEF SMInv, Groups
    <2> QED
      BY <1>2, <2>9, <2>10
  <1> QED
    BY <1>4, <1>5 DEF SMInv, SM!SortRight

-----------------------------------------------------------------------------
(* The tree sort                                                           *)

BTInv ==
  /\ BT!TypeOK
  /\ hNode \in Seq(Node)
  /\ report \in Seq([failed : BOOLEAN, lines : Seq(Record)])
  /\ sortbtAt = "open" => hNode = <<>>
  /\ BT!TreeSorted

LEMMA FilesTagged ==
  /\ FileLists \subseteq Seq([exists : BOOLEAN, records : Seq(Record)])
  /\ \A fs \in FileLists : \A i \in DOMAIN fs : \A j \in DOMAIN fs[i].records :
       fs[i].records[j].tag = j
  BY WorkersAssumption DEF Record

LEMMA BTFile ==
  ASSUME BTInv, iFile <= Len(files)
  PROVE  /\ iFile \in Nat /\ Len(files) \in Nat /\ iFile \in 1 .. Len(files)
         /\ files[iFile].records \in Seq(Record)
         /\ \A j \in DOMAIN files[iFile].records : files[iFile].records[j].tag = j
  <1>1. /\ files \in FileLists /\ iFile \in 1 .. Len(files) + 1
        /\ files \in Seq([exists : BOOLEAN, records : Seq(Record)])
    BY FilesTagged DEF BTInv, BT!TypeOK
  <1>2. Len(files) \in Nat /\ iFile \in 1 .. Len(files) /\ DOMAIN files = 1 .. Len(files)
    BY <1>1
  <1>3. files[iFile] \in [exists : BOOLEAN, records : Seq(Record)]
    BY <1>1, <1>2, ElementOfSeq
  <1>4. \A j \in DOMAIN files[iFile].records : files[iFile].records[j].tag = j
    BY <1>1, <1>2, FilesTagged
  <1> QED
    BY <1>2, <1>3, <1>4

(* What was read of a file.                                                *)
LEMMA FirstRecords ==
  ASSUME NEW s \in Seq(Record), NEW n \in Nat, n <= Len(s)
  PROVE  ToSet(SubSeq(s, 1, n)) = {s[i] : i \in 1 .. n}
  <1>1. DOMAIN SubSeq(s, 1, n) = 1 .. n /\ \A i \in 1 .. n : SubSeq(s, 1, n)[i] = s[i]
    OBVIOUS
  <1> QED
    BY <1>1 DEF ToSet

LEMMA BTFill ==
  ASSUME BTInv, sortbtAt = "fill"
  PROVE  /\ iFile <= Len(files) /\ Len(hNode) \in Nat /\ Len(hNode) <= Len(files[iFile].records)
         /\ IsTree(hNode, Len(hNode))
         /\ \A p \in 1 .. Len(hNode) : hNode[p].data = files[iFile].records[p]
         /\ Stable(Scan(hNode)) /\ Scan(hNode) \in Seq(Record)
         /\ ToSet(Scan(hNode)) = {files[iFile].records[i] : i \in 1 .. Len(hNode)}
  <1>1. hNode \in Seq(Node) /\ Len(hNode) \in Nat /\ DOMAIN hNode = 1 .. Len(hNode)
    BY DEF BTInv
  <1>2. /\ iFile <= Len(files) /\ Len(hNode) <= Len(files[iFile].records)
        /\ \A p \in 1 .. Len(hNode) :
             /\ hNode[p].data = files[iFile].records[p]
             /\ Below(p, hNode) \subseteq p + 1 .. Len(hNode)
    BY <1>1, SameTree DEF BTInv, BT!TypeOK
  <1>3. IsTree(hNode, Len(hNode))
    BY <1>1, <1>2 DEF IsTree
  <1>4. /\ Stable(Scan(hNode))
        /\ ToSet(Scan(hNode)) = ToSet(SubSeq(files[iFile].records, 1, Len(hNode)))
    BY SameOrder, SameScan DEF BTInv, BT!TreeSorted
  <1>5. ToSet(Scan(hNode)) = {files[iFile].records[i] : i \in 1 .. Len(hNode)}
    BY <1>1, <1>2, <1>4, BTFile, FirstRecords
  <1>6. Scan(hNode) \in Seq(Record)
    <2>1. PICK g : IsScan(hNode, g, 0, Len(hNode)) /\ Scan(hNode) = g[pRoot(hNode)]
      BY <1>1, <1>3, ScanIs
    <2>2. pRoot(hNode) \in 0 .. Len(hNode)
      BY <1>1 DEF pRoot, NULL
    <2> QED
      BY <1>1, <1>3, <2>1, <2>2, ScanTyped
  <1> QED
    BY <1>1, <1>2, <1>3, <1>4, <1>5, <1>6

LEMMA BTInit ==
  ASSUME BT!Init
  PROVE  BTInv
  <1>1. files \in Seq([exists : BOOLEAN, records : Seq(Record)])
    BY FilesTagged DEF BT!Init
  <1>2. Len(files) \in Nat
    BY <1>1
  <1>3. BT!TypeOK
    BY <1>2 DEF BT!Init, BT!TypeOK
  <1>4. BT!TreeSorted
    BY DEF BT!Init, BT!TreeSorted
  <1> QED
    BY <1>3, <1>4 DEF BT!Init, BTInv

LEMMA BTOpen ==
  ASSUME BTInv, BT!Open
  PROVE  BTInv'
  <1>0. /\ iFile <= Len(files) /\ sortbtAt' = "fill" /\ hNode = <<>>
        /\ files' = files /\ iFile' = iFile /\ NoPrint' = NoPrint /\ hNode' = hNode
        /\ report' = report
    BY DEF BT!Open, BTInv
  <1>1. Len(hNode) = 0 /\ DOMAIN hNode = {} /\ files[iFile].records \in Seq(Record)
    BY <1>0, BTFile
  <1>2. Len(files[iFile].records) \in Nat
    BY <1>1
  <1>3. BT!TypeOK'
    BY <1>0, <1>1, <1>2 DEF BTInv, BT!TypeOK
  <1>4. BT!StablySorted(Scan(hNode), SubSeq(files[iFile].records, 1, Len(hNode)))
    <2>1. PICK z \in Nat : z = 0
      OBVIOUS
    <2>2. ToSet(SubSeq(files[iFile].records, 1, z)) = {}
      <3>1. ToSet(SubSeq(files[iFile].records, 1, z)) = {files[iFile].records[i] : i \in 1 .. z}
        BY <1>1, <1>2, <2>1, FirstRecords
      <3>2. 1 .. z = {}
        BY <2>1
      <3> QED
        BY <3>1, <3>2
    <2>3. Scan(hNode) = <<>> /\ ToSet(<<>>) = {} /\ DOMAIN <<>> = {}
      BY <1>0, ScanEmpty DEF ToSet
    <2>4. BT!StablySorted(<<>>, SubSeq(files[iFile].records, 1, z))
      BY <2>2, <2>3, SameOrder DEF Stable
    <2> QED
      BY <1>1, <2>1, <2>3, <2>4
  <1>5. BT!TreeSorted'
    BY <1>0, <1>4, SameScan DEF BTInv, BT!TreeSorted
  <1> QED
    BY <1>0, <1>3, <1>5 DEF BTInv

LEMMA BTFileDone ==
  ASSUME BTInv, iFile <= Len(files),
         NEW outcome \in [failed : BOOLEAN, lines : Seq(Record)], BT!FileDone(outcome),
         ~outcome.failed /\ ~NoPrint => BT!StablySorted(outcome.lines, files[iFile].records)
  PROVE  BTInv'
  <1>0. /\ report' = Append(report, outcome) /\ iFile' = iFile + 1 /\ sortbtAt' = "open"
        /\ hNode' = <<>> /\ files' = files /\ NoPrint' = NoPrint
    BY DEF BT!FileDone
  <1>1. /\ iFile \in 1 .. Len(files) /\ iFile \in Nat /\ Len(files) \in Nat
        /\ report \in Seq([failed : BOOLEAN, lines : Seq(Record)]) /\ Len(report) = iFile - 1
    BY BTFile DEF BTInv, BT!TypeOK
  <1> DEFINE Outcome == [failed : BOOLEAN, lines : Seq(Record)]
  <1> HIDE DEF Outcome
  <1>2. /\ report' \in Seq(Outcome) /\ Len(report') = Len(report) + 1
        /\ \A i \in 1 .. Len(report) : report'[i] = report[i]
        /\ report'[Len(report) + 1] = outcome
    BY <1>0, <1>1, AppendProperties DEF Outcome
  <1>3. Len(report') = iFile /\ DOMAIN report' = 1 .. iFile /\ DOMAIN report = 1 .. iFile - 1
    BY <1>1, <1>2
  <1>4. BT!TypeOK'
    <2>1. iFile' \in 1 .. Len(files) + 1 /\ Len(report') = iFile' - 1
      BY <1>0, <1>1, <1>3
    <2>2. sortbtAt' \in {"open", "fill"} /\ sortbtAt' # "fill"
      BY <1>0
    <2> QED
      BY <1>0, <2>1, <2>2 DEF BTInv, BT!TypeOK
  <1>5. ASSUME NEW i \in DOMAIN report', ~report'[i].failed, ~NoPrint
        PROVE  BT!StablySorted(report'[i].lines, files[i].records)
    <2>1. CASE i = iFile
      <3>1. report'[i] = outcome
        BY <1>1, <1>2, <2>1
      <3> QED
        BY <1>5, <2>1, <3>1
    <2>2. CASE i # iFile
      <3>1. i \in 1 .. iFile - 1
        BY <1>1, <1>3, <2>2
      <3>2. report'[i] = report[i] /\ i \in DOMAIN report
        BY <1>1, <1>2, <1>3, <3>1
      <3> QED
        BY <1>5, <3>2 DEF BTInv, BT!TreeSorted
    <2> QED
      BY <2>1, <2>2
  <1>6. BT!TreeSorted'
    BY <1>0, <1>5 DEF BT!TreeSorted
  <1> QED
    BY <1>0, <1>2, <1>4, <1>6 DEF BTInv, Outcome

LEMMA BTException ==
  ASSUME BTInv, BT!Exception
  PROVE  BTInv'
  <1>1. iFile <= Len(files) /\ BT!FileDone([failed |-> TRUE, lines |-> <<>>])
    BY DEF BT!Exception
  <1>2. [failed |-> TRUE, lines |-> <<>>] \in [failed : BOOLEAN, lines : Seq(Record)]
    OBVIOUS
  <1> QED
    BY <1>1, <1>2, BTFileDone

LEMMA BTPrintFile ==
  ASSUME BTInv, BT!PrintFile
  PROVE  BTInv'
  <1>1. sortbtAt = "fill" /\ Len(hNode) = Len(files[iFile].records)
    BY DEF BT!PrintFile
  <1> DEFINE lines == IF NoPrint THEN <<>> ELSE Scan(hNode)
             records == files[iFile].records
  <1>2. /\ iFile <= Len(files) /\ Stable(Scan(hNode)) /\ Scan(hNode) \in Seq(Record)
        /\ ToSet(Scan(hNode)) = {records[i] : i \in 1 .. Len(hNode)}
    BY <1>1, BTFill
  <1>3. lines \in Seq(Record)
    BY <1>2
  <1>4. records \in Seq(Record)
    BY <1>2, BTFile
  <1>5. ToSet(records) = {records[i] : i \in 1 .. Len(hNode)}
    <2> HIDE DEF records
    <2>1. DOMAIN records = 1 .. Len(hNode)
      BY <1>1, <1>4 DEF records
    <2> QED
      BY <2>1 DEF ToSet
  <1>6. ~NoPrint => BT!StablySorted(lines, records)
    <2> HIDE DEF records
    <2> QED
      BY <1>2, <1>5, SameOrder
  <1>7. BT!FileDone([failed |-> FALSE, lines |-> lines])
    BY SameScan DEF BT!PrintFile
  <1>8. [failed |-> FALSE, lines |-> lines] \in [failed : BOOLEAN, lines : Seq(Record)]
    <2> HIDE DEF lines
    <2> QED
      BY <1>3
  <1> HIDE DEF lines
  <1> QED
    BY <1>2, <1>6, <1>7, <1>8, BTFileDone

LEMMA BTFillTree ==
  ASSUME BTInv, BT!FillTree
  PROVE  BTInv'
  <1> DEFINE records == files[iFile].records
  <1>0. /\ sortbtAt = "fill" /\ Len(hNode) < Len(records)
        /\ hNode' = InsertTree(hNode, records[Len(hNode) + 1])
        /\ files' = files /\ iFile' = iFile /\ NoPrint' = NoPrint
        /\ sortbtAt' = sortbtAt /\ report' = report
    BY SameInsert DEF BT!FillTree
  <1>1. /\ iFile <= Len(files) /\ Len(hNode) \in Nat
        /\ IsTree(hNode, Len(hNode))
        /\ \A p \in 1 .. Len(hNode) : hNode[p].data = records[p]
        /\ Stable(Scan(hNode))
        /\ ToSet(Scan(hNode)) = {records[i] : i \in 1 .. Len(hNode)}
    BY <1>0, BTFill
  <1>2. records \in Seq(Record) /\ \A j \in DOMAIN records : records[j].tag = j
    BY <1>1, BTFile
  <1> HIDE DEF records
  <1>3. PICK n \in Nat : n = Len(hNode)
    BY <1>1
  <1>4. n + 1 \in 1 .. Len(records) /\ DOMAIN records = 1 .. Len(records) /\ Len(records) \in Nat
    BY <1>0, <1>2, <1>3
  <1>5. PICK x \in Record : x = records[n + 1] /\ x.tag = n + 1
    BY <1>2, <1>4, ElementOfSeq
  <1>6. IsLater(hNode, n, x)
    <2>1. \A p \in 1 .. n : p \in DOMAIN records /\ p < n + 1
      BY <1>4
    <2> QED
      BY <1>1, <1>2, <1>3, <1>5, <2>1 DEF IsLater
  <1>7. PICK new : new = hNode'
    OBVIOUS
  <1>8. /\ IsTree(new, n + 1)
        /\ \A p \in 1 .. n : new[p].data = hNode[p].data
        /\ new[n + 1].data = x
        /\ Stable(Scan(new))
        /\ ToSet(Scan(new)) = ToSet(Scan(hNode)) \cup {x}
    BY <1>0, <1>1, <1>3, <1>5, <1>6, <1>7, InsertSorts
  <1>9. \A p \in 1 .. n + 1 : p \in 1 .. n \/ p = n + 1
    OBVIOUS
  <1>10. \A p \in 1 .. n + 1 : new[p].data = records[p]
    BY <1>1, <1>3, <1>5, <1>8, <1>9
  <1>11. ToSet(Scan(new)) = {records[i] : i \in 1 .. n + 1}
    <2>1. n + 1 \in 1 .. n + 1 /\ \A p \in 1 .. n : p \in 1 .. n + 1
      OBVIOUS
    <2> QED
      BY <1>1, <1>3, <1>5, <1>8, <1>9, <2>1
  <1>12. new \in Seq(Node) /\ Len(new) = n + 1 /\ DOMAIN new = 1 .. n + 1
         /\ \A p \in 1 .. n + 1 : Below(p, new) \subseteq p + 1 .. n + 1
    BY <1>8 DEF IsTree
  <1>13. BT!StablySorted(Scan(new), SubSeq(records, 1, n + 1))
    <2>1. PICK m \in Nat : m = n + 1
      OBVIOUS
    <2>2. ToSet(SubSeq(records, 1, m)) = {records[i] : i \in 1 .. m}
      BY <1>2, <1>4, <2>1, FirstRecords
    <2> QED
      BY <1>8, <1>11, <2>1, <2>2, SameOrder
  <1>15. BT!TypeOK'
    <2>1. \A p \in DOMAIN hNode' :
            /\ hNode'[p].data = files'[iFile'].records[p]
            /\ Below(p, hNode)' \subseteq p + 1 .. Len(hNode')
      BY <1>0, <1>7, <1>10, <1>12 DEF Below, NULL, records
    <2>2. iFile' <= Len(files') /\ Len(hNode') <= Len(files'[iFile'].records)
      BY <1>0, <1>1, <1>4, <1>7, <1>12 DEF records
    <2> QED
      BY <1>0, <2>1, <2>2, SameTree DEF BTInv, BT!TypeOK
  <1>16. BT!TreeSorted'
    <2>1. BT!StablySorted(Scan(hNode'), SubSeq(files'[iFile'].records, 1, Len(hNode')))
      BY <1>0, <1>7, <1>12, <1>13 DEF records
    <2> QED
      BY <1>0, <2>1, SameScan DEF BTInv, BT!TreeSorted
  <1> QED
    BY <1>0, <1>7, <1>12, <1>15, <1>16 DEF BTInv

LEMMA BTNext ==
  ASSUME BTInv, BT!Next \/ UNCHANGED BT!btVars
  PROVE  BTInv'
  <1>1. CASE UNCHANGED BT!btVars
    BY <1>1 DEF BT!btVars, BTInv, BT!TypeOK, BT!TreeSorted, BT!Below
  <1>2. CASE BT!Next
    BY <1>2, BTOpen, BTException, BTFillTree, BTPrintFile DEF BT!Next
  <1> QED
    BY <1>1, <1>2

-----------------------------------------------------------------------------
(* The threads of grepMT: what a command line is, and the typing of the    *)
(* tables.                                                                 *)

LEMMA FunctionIsFiles ==
  ASSUME NEW n \in Nat, NEW S, NEW f \in [1 .. n -> S]
  PROVE  f \in Seq(S) /\ Len(f) = n /\ DOMAIN f = 1 .. n
  OBVIOUS

LEMMA SeqMore ==
  ASSUME NEW S, NEW s \in Seq(S), NEW p
  PROVE  s \in Seq(S \cup {p})
  OBVIOUS

FileEntry == [kind : STRING, lines : Seq(Seq(STRING)), terminated : BOOLEAN]

LEMMA CommandFiles ==
  ASSUME NEW c \in Commands
  PROVE  /\ DOMAIN c.files = 1 .. Len(c.files) /\ Len(c.files) \in Nat
         /\ \A i \in DOMAIN c.files : c.files[i] \in FileEntry
  <1>1. c.files \in Seq(FileEntry)
    BY WorkersAssumption DEF FileEntry
  <1> QED
    BY <1>1, ElementOfSeq

Entry(at, file, temp, pattern, line, out, lines, result) ==
  [at |-> at, file |-> file, temp |-> temp, pattern |-> pattern, line |-> line,
   out |-> out, lines |-> lines, result |-> result]

IsThread(g) == \E a, f, t, p, n, o, x, r : g = Entry(a, f, t, p, n, o, x, r)

IsEntry(g, at, file, temp, pattern, line, out, lines, result) ==
  /\ IsThread(g)
  /\ g.at = at /\ g.file = file /\ g.temp = temp /\ g.pattern = pattern
  /\ g.line = line /\ g.out = out /\ g.lines = lines /\ g.result = result

(* What the steps of a thread do to its entry.                             *)
LEMMA EntryChanges ==
  ASSUME NEW g, NEW at, NEW file, NEW temp, NEW pattern, NEW line, NEW out, NEW lines, NEW result,
         IsEntry(g, at, file, temp, pattern, line, out, lines, result), NEW v
  PROVE  /\ IsEntry([g EXCEPT !.at = v], v, file, temp, pattern, line, out, lines, result)
         /\ IsEntry([g EXCEPT !.file = v], at, v, temp, pattern, line, out, lines, result)
         /\ IsEntry([g EXCEPT !.temp = v], at, file, v, pattern, line, out, lines, result)
         /\ IsEntry([g EXCEPT !.pattern = v], at, file, temp, v, line, out, lines, result)
         /\ IsEntry([g EXCEPT !.line = v], at, file, temp, pattern, v, out, lines, result)
         /\ IsEntry([g EXCEPT !.out = v], at, file, temp, pattern, line, v, lines, result)
         /\ IsEntry([g EXCEPT !.lines = v], at, file, temp, pattern, line, out, v, result)
         /\ IsEntry([g EXCEPT !.result = v], at, file, temp, pattern, line, out, lines, v)
  <1>1. PICK a, f, t, p, n, o, x, r : g = Entry(a, f, t, p, n, o, x, r)
    BY DEF IsThread, IsEntry
  <1>2. \A b, c, d, e, h, i, j, k :
          IsEntry(Entry(b, c, d, e, h, i, j, k), b, c, d, e, h, i, j, k)
    <2>1. \A b, c, d, e, h, i, j, k : IsThread(Entry(b, c, d, e, h, i, j, k))
      BY Zenon DEF IsThread
    <2>2. \A b, c, d, e, h, i, j, k :
            /\ Entry(b, c, d, e, h, i, j, k).at = b
            /\ Entry(b, c, d, e, h, i, j, k).file = c
            /\ Entry(b, c, d, e, h, i, j, k).temp = d
            /\ Entry(b, c, d, e, h, i, j, k).pattern = e
            /\ Entry(b, c, d, e, h, i, j, k).line = h
            /\ Entry(b, c, d, e, h, i, j, k).out = i
            /\ Entry(b, c, d, e, h, i, j, k).lines = j
            /\ Entry(b, c, d, e, h, i, j, k).result = k
      BY DEF Entry
    <2> QED
      BY <2>1, <2>2 DEF IsEntry
  <1>3. /\ a = at /\ f = file /\ t = temp /\ p = pattern
        /\ n = line /\ o = out /\ x = lines /\ r = result
    BY <1>1, <1>2 DEF IsEntry
  <1>4. /\ [g EXCEPT !.at = v] = Entry(v, f, t, p, n, o, x, r)
        /\ [g EXCEPT !.file = v] = Entry(a, v, t, p, n, o, x, r)
        /\ [g EXCEPT !.temp = v] = Entry(a, f, v, p, n, o, x, r)
        /\ [g EXCEPT !.pattern = v] = Entry(a, f, t, v, n, o, x, r)
        /\ [g EXCEPT !.line = v] = Entry(a, f, t, p, v, o, x, r)
        /\ [g EXCEPT !.out = v] = Entry(a, f, t, p, n, v, x, r)
        /\ [g EXCEPT !.lines = v] = Entry(a, f, t, p, n, o, v, r)
        /\ [g EXCEPT !.result = v] = Entry(a, f, t, p, n, o, x, v)
    BY <1>1 DEF Entry
  <1> QED
    BY <1>2, <1>3, <1>4

(* The threads that main still waits for. A thread reads the entry of the  *)
(* tables with its own number, and until then that entry is its own.       *)
Waiting == {tHandle[i] : i \in 1 .. threadCount}

OwnEntry(th) ==
  /\ grep[th].at \in {"unborn", "begin"} => tHandle[th] = th
  /\ grep[th].at \notin {"unborn", "begin"} => grep[th].file = th /\ grep[th].temp = th
  /\ grep[th].at \in {"unborn", "begin", "pattern", "file"} => grep[th].result = 1
  /\ grep[th].at = "ended" => grep[th].out = "closed" \/ grep[th].result = 1
  /\ grep[th].out = "closed" => grep[th].at = "ended"
  /\ grep[th].at = "line" \/ grep[th].out = "closed" => ~GM!IsOption(command.pattern)
  /\ th \notin Waiting =>
       /\ grep[th].at = "ended"
       /\ grep[th].result = 1 \/ \E n \in DOMAIN printed : printed[n].file = th

PrintedInOrder == \E S : printed \in Seq(S)

IsReport(p, waiting, threads) ==
  /\ p.file \in GM!Files \ waiting
  /\ threads[p.file].result = 0 /\ p.lines = threads[p.file].lines

TablesInv ==
  /\ \A i \in GM!Files : gArg[i] = [file |-> tHandle[i], temp |-> tHandle[i]]
  /\ \A i, j \in 1 .. threadCount : tHandle[i] = tHandle[j] => i = j
  /\ \A th \in GM!Files : OwnEntry(th)
  /\ PrintedInOrder
  /\ \A n \in DOMAIN printed : IsReport(printed[n], Waiting, grep)
  /\ \A m, n \in DOMAIN printed : printed[m].file = printed[n].file => m = n
  /\ temps = {t \in GM!Files : t \in Waiting \/ grep[t].out = "open"}

(* What a thread has found: the matching lines of those it has read. seen  *)
(* are the lines it gets to see, found the matching ones up to each line.  *)
IsSearch(g, codes, seen, found) ==
  /\ g.at \in {"unborn", "begin", "pattern", "file"} => g.line = 0 /\ g.lines = <<>>
  /\ g.at \in {"file", "line"} => g.pattern = codes
  /\ g.at = "line" => g.line \in 0 .. Len(seen) /\ g.lines = found[g.line]
  /\ g.out = "closed" => g.lines = found[Len(seen)]
  /\ g.result = 1 <=> g.lines = <<>>

Codes == GM!prepSearchString(command.pattern, below, FALSE)
Seen(th) == GM!Scanned(GM!File(th))

Searches(th, g) == IsSearch(g, Codes, Seen(th), GM!MatchingUpTo(th))

SearchInv == GM!NoOption => ~ignoreCase /\ \A th \in GM!Files : Searches(th, grep[th])

GMInv ==
  /\ GM!TypeOK
  /\ grep = [th \in GM!Files |-> grep[th]] /\ \A th \in GM!Files : IsThread(grep[th])
  /\ TablesInv
  /\ SearchInv

(* The lines of a file one by one.                                         *)
LEMMA MatchingIs ==
  ASSUME GMInv, NEW th \in GM!Files
  PROVE  /\ Len(Seen(th)) \in Nat
         /\ GM!MatchingUpTo(th)[0] = <<>>
         /\ \A n \in 1 .. Len(Seen(th)) :
              GM!MatchingUpTo(th)[n] = IF GM!patternMatch(Codes, Seen(th)[n])
                                       THEN Append(GM!MatchingUpTo(th)[n - 1], Seen(th)[n])
                                       ELSE GM!MatchingUpTo(th)[n - 1]
         /\ \A n \in 0 .. Len(Seen(th)) : GM!MatchingUpTo(th)[n] \in Seq(Seq(STRING))
  <1>1. GM!File(th) \in FileEntry
    BY CommandFiles DEF GMInv, GM!TypeOK, GM!Files, GM!File
  <1>2. PICK s : s = Seen(th)
    OBVIOUS
  <1>3. s \in Seq(Seq(STRING))
    <2>1. PICK lines \in Seq(Seq(STRING)) : lines = GM!File(th).lines
      BY <1>1 DEF FileEntry
    <2>2. s = lines \/ (lines # <<>> /\ s = SubSeq(lines, 1, Len(lines) - 1))
      BY <1>2, <2>1 DEF Seen, GM!Scanned, GM!Front
    <2> DEFINE T == Seq(STRING)
    <2>3. lines \in Seq(T) /\ Len(lines) \in Nat
      BY <2>1
    <2> HIDE DEF T
    <2>4. PICK m \in Int : m = Len(lines) - 1
      BY <2>3
    <2>5. SubSeq(lines, 1, m) \in Seq(T)
      BY <2>3, <2>4, SubSeqProperties
    <2>6. s \in Seq(T)
      BY <2>2, <2>3, <2>4, <2>5
    <2> QED
      BY <2>6 DEF T
  <1>4. Len(s) \in Nat /\ DOMAIN s = 1 .. Len(s)
    BY <1>3
  <1> DEFINE K == {n \in DOMAIN s : GM!patternMatch(Codes, s[n])}
  <1>5. GM!MatchingUpTo(th) = Kept(s, K)
    BY <1>2 DEF GM!MatchingUpTo, GM!KeptUpTo, Kept, Seen, Codes
  <1>6. \A n \in 1 .. Len(s) : n \in K <=> GM!patternMatch(Codes, s[n])
    BY <1>4
  <1> HIDE DEF K
  <1>7. IsKept(s, K, Kept(s, K), Len(s))
    BY <1>4, KeptIs
  <1>8. \A n \in 0 .. Len(s) : Kept(s, K)[n] \in Seq(Seq(STRING))
    BY <1>3, KeptInSeq
  <1> QED
    BY <1>2, <1>4, <1>5, <1>6, <1>7, <1>8 DEF IsKept, KeptNext

LEMMA GMInit ==
  ASSUME GM!Init
  PROVE  GMInv
  <1> DEFINE N == Len(command.files)
  <1>1. N \in Nat /\ GM!Files = 1 .. N
    BY CommandFiles DEF GM!Init, GM!Files
  <1>2. gArg \in [GM!Files -> [file : GM!Files, temp : GM!Files]]
    BY DEF GM!Init
  <1>3. \A th \in GM!Files :
          /\ IsThread(grep[th])
          /\ grep[th].at = "unborn" /\ grep[th].out = "none" /\ grep[th].result = 1
          /\ grep[th].line = 0 /\ grep[th].lines = <<>>
    <2>1. \A th \in GM!Files : grep[th] = GM!Unborn
      BY DEF GM!Init
    <2>2. IsThread(GM!Unborn)
      BY DEF GM!Unborn, IsThread, Entry
    <2>3. /\ GM!Unborn.at = "unborn" /\ GM!Unborn.out = "none" /\ GM!Unborn.result = 1
          /\ GM!Unborn.line = 0 /\ GM!Unborn.lines = <<>>
      BY DEF GM!Unborn
    <2> QED
      BY <2>1, <2>2, <2>3
  <1>4. grep = [th \in GM!Files |-> grep[th]]
    BY DEF GM!Init
  <1>5. tHandle \in [GM!Files -> GM!Files] /\ threadCount \in 0 .. Len(command.files)
    BY <1>1 DEF GM!Init
  <1>6. Waiting = GM!Files
    BY <1>1 DEF GM!Init, Waiting
  <1>7. TablesInv
    <2>1. \A i \in GM!Files : tHandle[i] = i /\ gArg[i] = [file |-> i, temp |-> i]
      BY DEF GM!Init
    <2>2. 1 .. threadCount = GM!Files
      BY <1>1 DEF GM!Init
    <2>3. printed = <<>> /\ printed \in Seq({}) /\ DOMAIN printed = {}
      BY DEF GM!Init
    <2>4. \A th \in GM!Files : OwnEntry(th)
      BY <1>3, <1>6, <2>1 DEF OwnEntry
    <2>5. temps = GM!Files
      BY DEF GM!Init
    <2>6. PrintedInOrder
      BY <2>3 DEF PrintedInOrder
    <2> QED
      BY <1>6, <2>1, <2>2, <2>3, <2>4, <2>5, <2>6 DEF TablesInv
  <1>8. SearchInv
    BY <1>3 DEF GM!Init, SearchInv, Searches, IsSearch
  <1> QED
    BY <1>1, <1>2, <1>3, <1>4, <1>5, <1>7, <1>8 DEF GM!Init, GMInv, GM!TypeOK

(* A thread at work is one that main waits for.                            *)
MayBecome(th, g) ==
  /\ grep[th].at # "ended"
  /\ g.at \in {"begin", "pattern", "file", "line", "ended"}
  /\ g.at = "begin" => grep[th].at = "unborn"
  /\ g.at # "begin" => g.file = th /\ g.temp = th
  /\ g.at \in {"begin", "pattern", "file"} => g.result = 1
  /\ g.at = "ended" => g.out = "closed" \/ g.result = 1
  /\ g.out = "closed" => g.at = "ended"
  /\ g.at = "line" \/ g.out = "closed" => ~GM!IsOption(command.pattern)

(* A step of a thread changes its own entry.                               *)
LEMMA ThreadMoves ==
  ASSUME GMInv, NEW th \in GM!Files, NEW g, IsThread(g), MayBecome(th, g),
         g.out \in {"none", "open", "closed"}, g.result \in {0, 1},
         grep' = [grep EXCEPT ![th] = g],
         ignoreCase' \in BOOLEAN, GM!NoOption => ~ignoreCase' /\ Searches(th, g),
         UNCHANGED <<command, below, gArg, tHandle, threadCount, printed, temps, wild>>
  PROVE  GMInv'
  <1>1. GM!Files' = GM!Files /\ Waiting' = Waiting
    BY DEF GM!Files, Waiting
  <1>2. /\ grep' = [t \in GM!Files |-> grep'[t]]
        /\ \A t \in GM!Files : grep'[t] = IF t = th THEN g ELSE grep[t]
    BY DEF GMInv
  <1>3. th \in Waiting
    BY DEF GMInv, TablesInv, OwnEntry, MayBecome
  <1>4. OwnEntry(th)'
    BY <1>1, <1>2, <1>3 DEF GMInv, TablesInv, OwnEntry, MayBecome
  <1>5. ASSUME NEW t \in GM!Files, t # th
        PROVE  OwnEntry(t)'
    BY <1>1, <1>2, <1>5 DEF GMInv, TablesInv, OwnEntry
  <1>6. ASSUME NEW n \in DOMAIN printed
        PROVE  IsReport(printed[n], Waiting', grep')
    <2>1. IsReport(printed[n], Waiting, grep)
      BY DEF GMInv, TablesInv
    <2>2. printed[n].file \in GM!Files /\ printed[n].file # th
      BY <1>3, <2>1 DEF IsReport
    <2> QED
      BY <1>1, <1>2, <2>1, <2>2 DEF IsReport
  <1>7. temps = {t \in GM!Files : t \in Waiting \/ grep'[t].out = "open"}
    BY <1>2, <1>3 DEF GMInv, TablesInv
  <1>8. TablesInv'
    <2>1. TablesInv
      BY DEF GMInv
    <2>2. \A t \in GM!Files : OwnEntry(t)'
      BY <1>4, <1>5
    <2>3. PrintedInOrder'
      BY <2>1 DEF TablesInv, PrintedInOrder
    <2>4. (\A i \in GM!Files : gArg[i] = [file |-> tHandle[i], temp |-> tHandle[i]])'
      BY <1>1, <2>1 DEF TablesInv
    <2>5. (\A i, j \in 1 .. threadCount : tHandle[i] = tHandle[j] => i = j)'
      BY <2>1 DEF TablesInv
    <2>6. (\A t \in GM!Files : OwnEntry(t))'
      BY <1>1, <2>2
    <2>7. (\A n \in DOMAIN printed : IsReport(printed[n], Waiting, grep))'
      BY <1>1, <1>6 DEF IsReport
    <2>8. (\A m, n \in DOMAIN printed : printed[m].file = printed[n].file => m = n)'
      BY <2>1 DEF TablesInv
    <2>9. (temps = {t \in GM!Files : t \in Waiting \/ grep[t].out = "open"})'
      BY <1>1, <1>7
    <2> QED
      BY <2>3, <2>4, <2>5, <2>6, <2>7, <2>8, <2>9 DEF TablesInv
  <1>9. GM!TypeOK'
    BY <1>1, <1>2 DEF GMInv, GM!TypeOK, MayBecome
  <1>10. SearchInv'
    <2>1. \A t \in GM!Files : GM!NoOption => Searches(t, grep'[t])
      BY <1>2 DEF GMInv, SearchInv
    <2>2. \A t \in GM!Files : Searches(t, grep[t])' <=> Searches(t, grep'[t])
      BY DEF Searches, Seen, Codes, GM!File, GM!MatchingUpTo
    <2>3. GM!NoOption' <=> GM!NoOption
      BY <1>1 DEF GM!NoOption, GM!File, GM!IsOption
    <2> QED
      BY <1>1, <2>1, <2>2, <2>3 DEF SearchInv
  <1> QED
    BY <1>1, <1>2, <1>8, <1>9, <1>10 DEF GMInv

LEMMA SearchKept ==
  ASSUME SearchInv, UNCHANGED <<command, below, grep, ignoreCase>>
  PROVE  SearchInv'
  BY DEF SearchInv, GM!NoOption, Searches, Seen, Codes, GM!File, GM!Files, GM!MatchingUpTo

(* main takes the entry i of a thread h that has ended, and moves the last *)
(* entry to its place.                                                     *)
LEMMA CollectKeeps ==
  ASSUME GMInv, NEW i \in GM!Files, GM!Collect(i)
  PROVE  GMInv'
  <1> DEFINE N == Len(command.files)
  <1>1. N \in Nat /\ GM!Files = 1 .. N
    BY CommandFiles DEF GMInv, GM!TypeOK, GM!Files
  <1>2. i <= threadCount /\ threadCount \in 0 .. N
    BY DEF GMInv, GM!TypeOK, GM!Collect
  <1>3. threadCount \in GM!Files /\ i \in 1 .. threadCount /\ threadCount - 1 \in 0 .. N
    BY <1>1, <1>2
  <1>4. GM!Files' = GM!Files /\ wild' = wild /\ UNCHANGED <<command, below, grep, ignoreCase>>
    BY DEF GM!Files, GM!Collect
  <1>5. /\ gArg' \in [GM!Files -> [file : GM!Files, temp : GM!Files]]
        /\ tHandle' \in [GM!Files -> GM!Files]
        /\ threadCount' = threadCount - 1
        /\ \A k \in GM!Files : /\ gArg'[k] = IF k = i THEN gArg[threadCount] ELSE gArg[k]
                               /\ tHandle'[k] = IF k = i THEN tHandle[threadCount] ELSE tHandle[k]
    BY <1>3 DEF GMInv, GM!TypeOK, GM!Collect
  <1>6. temps' \subseteq GM!Files
    BY DEF GMInv, GM!TypeOK, GM!Collect
  <1>7. GM!TypeOK'
    BY <1>3, <1>4, <1>5, <1>6 DEF GMInv, GM!TypeOK
  <1>0. PICK h : h = tHandle[i]
    OBVIOUS
  <1>8. /\ h \in GM!Files /\ grep[h].at = "ended"
        /\ gArg[i].file = h /\ gArg[i].temp = h
    BY <1>0 DEF GMInv, GM!TypeOK, TablesInv, GM!Collect, GM!Ended
  <1>9. /\ \A j, k \in 1 .. threadCount : tHandle[j] = tHandle[k] => j = k
        /\ \A k \in 1 .. threadCount - 1 : k \in 1 .. threadCount /\ k \in GM!Files /\ k # threadCount
        /\ threadCount \in 1 .. threadCount
        /\ \A k \in 1 .. threadCount : k = threadCount \/ k \in 1 .. threadCount - 1
    BY <1>1, <1>2, <1>3 DEF GMInv, TablesInv
  <1>10. \A j, k \in 1 .. threadCount' : tHandle'[j] = tHandle'[k] => j = k
    BY <1>3, <1>5, <1>9
  <1>11. Waiting' = Waiting \ {h}
    <2>1. ASSUME NEW k \in 1 .. threadCount - 1
          PROVE  tHandle'[k] \in Waiting \ {h}
      BY <1>0, <1>3, <1>5, <1>9 DEF Waiting
    <2>2. ASSUME NEW k \in 1 .. threadCount, tHandle[k] # h
          PROVE  tHandle[k] \in Waiting'
      <3>1. CASE k = threadCount
        <4>1. i \in 1 .. threadCount' /\ tHandle'[i] = tHandle[k]
          BY <1>0, <1>3, <1>5, <1>9, <2>2, <3>1
        <4> QED
          BY <4>1 DEF Waiting
      <3>2. CASE k \in 1 .. threadCount - 1
        <4>1. k \in 1 .. threadCount' /\ tHandle'[k] = tHandle[k]
          BY <1>0, <1>5, <1>9, <2>2, <3>2
        <4> QED
          BY <4>1 DEF Waiting
      <3> QED
        BY <1>9, <3>1, <3>2
    <2>3. Waiting' \subseteq Waiting \ {h}
      BY <1>5, <2>1 DEF Waiting
    <2>4. Waiting \ {h} \subseteq Waiting'
      BY <2>2 DEF Waiting
    <2> QED
      BY <2>3, <2>4
  <1>12. h \in Waiting
    BY <1>0, <1>3 DEF Waiting
  <1> DEFINE p == [file |-> gArg[i].file, lines |-> grep[gArg[i].temp].lines]
  <1>13. printed' = IF grep[h].result = 0 THEN Append(printed, p) ELSE printed
    BY <1>0 DEF GM!Collect
  <1>14. p.file = h /\ p.lines = grep[h].lines
    BY <1>8
  <1> HIDE DEF p
  <1>15. PICK S : printed \in Seq(S)
    BY DEF GMInv, TablesInv, PrintedInOrder
  <1> DEFINE T == S \cup {p}
  <1>16. printed \in Seq(T) /\ p \in T
    BY <1>15, SeqMore
  <1> HIDE DEF T
  <1>17. /\ Append(printed, p) \in Seq(T)
         /\ Len(printed) \in Nat /\ DOMAIN printed = 1 .. Len(printed)
         /\ DOMAIN Append(printed, p) = 1 .. Len(printed) + 1
         /\ Append(printed, p)[Len(printed) + 1] = p
         /\ \A n \in 1 .. Len(printed) : Append(printed, p)[n] = printed[n]
    BY <1>16, AppendProperties, LenProperties
  <1>18. PICK last : last = Len(printed) + 1
    OBVIOUS
  <1>19. /\ last \notin DOMAIN printed
         /\ \A n \in DOMAIN printed : n \in DOMAIN printed' /\ printed'[n] = printed[n]
         /\ grep[h].result = 0 => last \in DOMAIN printed' /\ printed'[last] = p
         /\ \A n \in DOMAIN printed' :
              n \in DOMAIN printed \/ (n = last /\ grep[h].result = 0)
    BY <1>13, <1>17, <1>18
  <1>20. PrintedInOrder'
    <2>1. printed' \in Seq(T)
      BY <1>13, <1>16, <1>17
    <2> QED
      BY <2>1 DEF PrintedInOrder
  <1>21. \A n \in DOMAIN printed :
           IsReport(printed[n], Waiting, grep) /\ printed[n].file # h /\ IsReport(printed[n], Waiting', grep')
    BY <1>4, <1>11, <1>12 DEF GMInv, TablesInv, IsReport
  <1>22. \A n \in DOMAIN printed' : IsReport(printed'[n], Waiting', grep')
    <2>1. grep[h].result = 0 => IsReport(p, Waiting', grep')
      BY <1>4, <1>8, <1>11, <1>14 DEF IsReport
    <2> QED
      BY <1>19, <1>21, <2>1
  <1>23. \A m, n \in DOMAIN printed' : printed'[m].file = printed'[n].file => m = n
    <2>1. \A m, n \in DOMAIN printed : printed[m].file = printed[n].file => m = n
      BY DEF GMInv, TablesInv
    <2>2. \A n \in DOMAIN printed : printed'[n].file # h /\ printed'[n] = printed[n]
      BY <1>19, <1>21
    <2>3. \A n \in DOMAIN printed' : n \in DOMAIN printed \/ (n = last /\ printed'[n].file = h)
      BY <1>14, <1>19
    <2> QED
      BY <2>1, <2>2, <2>3
  <1>24. OwnEntry(h)'
    <2>1. OwnEntry(h) /\ grep[h].result \in {0, 1}
      BY <1>8 DEF GMInv, TablesInv, GM!TypeOK
    <2>2. grep'[h] = grep[h] /\ grep[h].at = "ended"
      BY <1>4, <1>8
    <2>3. grep[h].result = 0 => \E n \in DOMAIN printed' : printed'[n].file = h
      BY <1>14, <1>19
    <2> QED
      BY <1>4, <2>1, <2>2, <2>3 DEF OwnEntry
  <1>25. ASSUME NEW t \in GM!Files, t # h
         PROVE  OwnEntry(t)'
    <2>1. OwnEntry(t)
      BY DEF GMInv, TablesInv
    <2>2. t \in Waiting' <=> t \in Waiting
      BY <1>11, <1>25
    <2>3. tHandle[t] = t => tHandle'[t] = t
      BY <1>0, <1>3, <1>5, <1>25
    <2>4. (\E n \in DOMAIN printed : printed[n].file = t)
            => \E n \in DOMAIN printed' : printed'[n].file = t
      BY <1>19
    <2> QED
      BY <1>4, <2>1, <2>2, <2>3, <2>4 DEF OwnEntry
  <1>26. temps' = {t \in GM!Files : t \in Waiting' \/ grep'[t].out = "open"}
    <2>1. temps' = temps \ {t \in {h} : grep[t].out # "open"}
      BY <1>8 DEF GM!Collect
    <2> QED
      BY <1>4, <1>8, <1>11, <2>1 DEF GMInv, TablesInv
  <1>27. \A k \in GM!Files : gArg'[k] = [file |-> tHandle'[k], temp |-> tHandle'[k]]
    <2>1. \A k \in GM!Files : gArg[k] = [file |-> tHandle[k], temp |-> tHandle[k]]
      BY DEF GMInv, TablesInv
    <2> QED
      BY <1>3, <1>5, <2>1
  <1>28. TablesInv'
    <2>1. \A t \in GM!Files : OwnEntry(t)'
      BY <1>24, <1>25
    <2>2. (\A n \in DOMAIN printed : IsReport(printed[n], Waiting, grep))'
      BY <1>4, <1>22 DEF IsReport
    <2>3. (\A t \in GM!Files : OwnEntry(t))'
      BY <1>4, <2>1
    <2> QED
      BY <1>4, <1>10, <1>20, <1>23, <1>26, <1>27, <2>2, <2>3 DEF TablesInv
  <1>29. SearchInv'
    BY <1>4, SearchKept DEF GMInv
  <1> QED
    BY <1>4, <1>7, <1>28, <1>29 DEF GMInv

(* What a thread's entry says of its search, field by field. *)
LEMMA EntrySearches ==
  ASSUME NEW th \in GM!Files, NEW g, NEW at, NEW file, NEW temp, NEW pattern, NEW line, NEW out,
         NEW lines, NEW result, IsEntry(g, at, file, temp, pattern, line, out, lines, result)
  PROVE  Searches(th, g) <=>
           /\ at \in {"unborn", "begin", "pattern", "file"} => line = 0 /\ lines = <<>>
           /\ at \in {"file", "line"} => pattern = Codes
           /\ at = "line" => line \in 0 .. Len(Seen(th)) /\ lines = GM!MatchingUpTo(th)[line]
           /\ out = "closed" => lines = GM!MatchingUpTo(th)[Len(Seen(th))]
           /\ result = 1 <=> lines = <<>>
  BY DEF IsEntry, Searches, IsSearch

(* The entry of a thread, field by field.                                  *)
IsNow(g) == IsEntry(g, g.at, g.file, g.temp, g.pattern, g.line, g.out, g.lines, g.result)

LEMMA EntryNow ==
  ASSUME GMInv, NEW th \in GM!Files
  PROVE  /\ IsNow(grep[th]) /\ OwnEntry(th)
         /\ grep[th].out \in {"none", "open", "closed"} /\ grep[th].result \in {0, 1}
         /\ GM!NoOption => ~ignoreCase /\ Searches(th, grep[th])
  BY DEF GMInv, GM!TypeOK, TablesInv, SearchInv, IsNow, IsEntry

(* A thread has looked at line n of its file.                              *)
Reads(th, n, result, lines) ==
  LET seen == GM!Scanned(GM!File(grep[th].file)) IN
  /\ grep' = [grep EXCEPT ![th].line = n, ![th].result = result, ![th].lines = lines]
  /\ result \in {0, grep[th].result}
  /\ n = grep[th].line + 1 /\ ~(n > Len(seen))
  /\ ~ignoreCase =>
       IF GM!patternMatch(grep[th].pattern, seen[n])
       THEN result = 0 /\ lines = Append(grep[th].lines, seen[n])
       ELSE result = grep[th].result /\ lines = grep[th].lines

LEMMA GMStartThread ==
  ASSUME GMInv, NEW th \in GM!Files, GM!StartThread(th)
  PROVE  GMInv'
  <1>0. PICK o : o = grep[th]
    OBVIOUS
  <1>1. IsNow(o) /\ OwnEntry(th) /\ o.out \in {"none", "open", "closed"} /\ o.result \in {0, 1}
        /\ (GM!NoOption => ~ignoreCase /\ Searches(th, o)) /\ o.at = "unborn"
    BY <1>0, EntryNow DEF GM!StartThread
  <1>2. PICK g : g = [o EXCEPT !.at = "begin"]
    OBVIOUS
  <1>3. grep' = [grep EXCEPT ![th] = g]
    BY <1>0, <1>2 DEF GM!StartThread
  <1>4. IsEntry(g, "begin", o.file, o.temp, o.pattern, o.line, o.out, o.lines, o.result)
    BY <1>1, <1>2, EntryChanges DEF IsNow
  <1>5. MayBecome(th, g)
    BY <1>0, <1>1, <1>4 DEF IsEntry, MayBecome, OwnEntry
  <1>6. GM!NoOption => Searches(th, g)
    BY <1>1, <1>4, EntrySearches DEF IsNow
  <1>7. IsThread(g) /\ g.out \in {"none", "open", "closed"} /\ g.result \in {0, 1}
    BY <1>1, <1>4 DEF IsEntry
  <1>8. ignoreCase' \in BOOLEAN /\ (GM!NoOption => ~ignoreCase')
        /\ UNCHANGED <<command, below, gArg, tHandle, threadCount, printed, temps, wild>>
    BY <1>1 DEF GMInv, GM!TypeOK, GM!StartThread
  <1> QED
    BY <1>3, <1>5, <1>6, <1>7, <1>8, ThreadMoves

LEMMA GMBegin ==
  ASSUME GMInv, NEW th \in GM!Files, GM!Begin(th)
  PROVE  GMInv'
  <1>0. PICK o : o = grep[th]
    OBVIOUS
  <1>1. IsNow(o) /\ OwnEntry(th) /\ o.result \in {0, 1}
        /\ (GM!NoOption => ~ignoreCase /\ Searches(th, o)) /\ o.at = "begin"
    BY <1>0, EntryNow DEF GM!Begin
  <1>2. gArg[th].file = th /\ gArg[th].temp = th /\ o.result = 1
    <2>1. gArg[th] = [file |-> tHandle[th], temp |-> tHandle[th]]
      BY DEF GMInv, TablesInv
    <2>2. tHandle[th] = th /\ o.result = 1
      BY <1>0, <1>1 DEF OwnEntry
    <2> QED
      BY <2>1, <2>2
  <1>3. PICK out \in {"none", "open"} :
          grep' = [grep EXCEPT ![th].at = IF out = "open" THEN "pattern" ELSE "ended",
                               ![th].out = out,
                               ![th].file = gArg[th].file,
                               ![th].temp = gArg[th].temp]
    BY DEF GM!Begin
  <1>4. PICK at \in {"pattern", "ended"} : at = IF out = "open" THEN "pattern" ELSE "ended"
    OBVIOUS
  <1>5. PICK d : d = [o EXCEPT !.at = at]
    OBVIOUS
  <1>6. PICK e : e = [d EXCEPT !.out = out]
    OBVIOUS
  <1>7. PICK f : f = [e EXCEPT !.file = th]
    OBVIOUS
  <1>8. PICK g : g = [f EXCEPT !.temp = th]
    OBVIOUS
  <1>9. grep' = [grep EXCEPT ![th] = g]
    BY <1>0, <1>2, <1>3, <1>4, <1>5, <1>6, <1>7, <1>8 DEF GMInv
  <1>10. IsEntry(d, at, o.file, o.temp, o.pattern, o.line, o.out, o.lines, o.result)
    BY <1>1, <1>5, EntryChanges DEF IsNow
  <1>11. IsEntry(e, at, o.file, o.temp, o.pattern, o.line, out, o.lines, o.result)
    BY <1>6, <1>10, EntryChanges
  <1>12. IsEntry(f, at, th, o.temp, o.pattern, o.line, out, o.lines, o.result)
    BY <1>7, <1>11, EntryChanges
  <1>13. IsEntry(g, at, th, th, o.pattern, o.line, out, o.lines, o.result)
    BY <1>8, <1>12, EntryChanges
  <1>14. MayBecome(th, g)
    BY <1>0, <1>1, <1>2, <1>4, <1>13 DEF IsEntry, MayBecome
  <1>15. GM!NoOption => Searches(th, g)
    BY <1>1, <1>4, <1>13, EntrySearches DEF IsNow
  <1>16. IsThread(g) /\ g.out \in {"none", "open", "closed"} /\ g.result \in {0, 1}
    BY <1>1, <1>13 DEF IsEntry
  <1>17. ignoreCase' \in BOOLEAN /\ (GM!NoOption => ~ignoreCase')
         /\ UNCHANGED <<command, below, gArg, tHandle, threadCount, printed, temps, wild>>
    BY <1>1 DEF GMInv, GM!TypeOK, GM!Begin
  <1> QED
    BY <1>9, <1>14, <1>15, <1>16, <1>17, ThreadMoves

LEMMA GMTakePattern ==
  ASSUME GMInv, NEW th \in GM!Files, GM!TakePattern(th)
  PROVE  GMInv'
  <1>0. PICK o : o = grep[th]
    OBVIOUS
  <1>1. IsNow(o) /\ OwnEntry(th) /\ o.out \in {"none", "open", "closed"} /\ o.result \in {0, 1}
        /\ (GM!NoOption => ~ignoreCase /\ Searches(th, o)) /\ o.at = "pattern"
    BY <1>0, EntryNow DEF GM!TakePattern
  <1>2. PICK codes : codes = IF GM!IsOption(command.pattern) THEN o.pattern
                             ELSE GM!prepSearchString(command.pattern, below, ignoreCase)
    OBVIOUS
  <1>3. grep' = [grep EXCEPT ![th].at = "file", ![th].pattern = codes]
    BY <1>0, <1>2 DEF GMInv, GM!TakePattern
  <1>4. PICK f : f = [o EXCEPT !.at = "file"]
    OBVIOUS
  <1>5. PICK g : g = [f EXCEPT !.pattern = codes]
    OBVIOUS
  <1>6. grep' = [grep EXCEPT ![th] = g]
    BY <1>0, <1>3, <1>4, <1>5 DEF GMInv
  <1>7. IsEntry(f, "file", o.file, o.temp, o.pattern, o.line, o.out, o.lines, o.result)
    BY <1>1, <1>4, EntryChanges DEF IsNow
  <1>8. IsEntry(g, "file", o.file, o.temp, codes, o.line, o.out, o.lines, o.result)
    BY <1>5, <1>7, EntryChanges
  <1>9. MayBecome(th, g)
    BY <1>0, <1>1, <1>8 DEF IsEntry, MayBecome, OwnEntry
  <1>10. GM!NoOption => codes = Codes
    <2>1. ignoreCase \in BOOLEAN
      BY DEF GMInv, GM!TypeOK
    <2>2. GM!NoOption => ignoreCase = FALSE
      BY <1>1, <2>1
    <2> QED
      BY <1>2, <2>2 DEF Codes, GM!NoOption
  <1>11. GM!NoOption => Searches(th, g)
    BY <1>1, <1>8, <1>10, EntrySearches DEF IsNow
  <1>12. IsThread(g) /\ g.out \in {"none", "open", "closed"} /\ g.result \in {0, 1}
    BY <1>1, <1>8 DEF IsEntry
  <1>13. ignoreCase' \in BOOLEAN /\ (GM!NoOption => ~ignoreCase')
         /\ UNCHANGED <<command, below, gArg, tHandle, threadCount, printed, temps, wild>>
    BY <1>1 DEF GMInv, GM!TypeOK, GM!TakePattern, GM!NoOption
  <1> QED
    BY <1>6, <1>9, <1>11, <1>12, <1>13, ThreadMoves

LEMMA GMTakeFile ==
  ASSUME GMInv, NEW th \in GM!Files, GM!TakeFile(th)
  PROVE  GMInv'
  <1>0. PICK o : o = grep[th]
    OBVIOUS
  <1>1. IsNow(o) /\ OwnEntry(th) /\ o.out \in {"none", "open", "closed"} /\ o.result \in {0, 1}
        /\ (GM!NoOption => ~ignoreCase /\ Searches(th, o)) /\ o.at = "file" /\ o.file = th
    BY <1>0, EntryNow DEF GM!TakeFile, OwnEntry
  <1>2. PICK at \in {"line", "ended"} :
          at = IF GM!File(o.file).kind = "text" /\ ~GM!IsOption(command.pattern)
               THEN "line" ELSE "ended"
    OBVIOUS
  <1>3. PICK g : g = [o EXCEPT !.at = at]
    OBVIOUS
  <1>4. grep' = [grep EXCEPT ![th] = g]
    BY <1>0, <1>2, <1>3 DEF GM!TakeFile
  <1>5. IsEntry(g, at, o.file, o.temp, o.pattern, o.line, o.out, o.lines, o.result)
    BY <1>1, <1>3, EntryChanges DEF IsNow
  <1>6. MayBecome(th, g)
    BY <1>0, <1>1, <1>2, <1>5 DEF IsEntry, MayBecome, OwnEntry
  <1>7. GM!NoOption => Searches(th, g)
    <2>1. Len(Seen(th)) \in Nat /\ GM!MatchingUpTo(th)[0] = <<>> /\ 0 \in 0 .. Len(Seen(th))
      BY MatchingIs
    <2>2. GM!NoOption => /\ o.line = 0 /\ o.lines = <<>> /\ o.pattern = Codes
                         /\ o.out = "closed" => o.lines = GM!MatchingUpTo(th)[Len(Seen(th))]
                         /\ o.result = 1 <=> o.lines = <<>>
      BY <1>1, EntrySearches DEF IsNow
    <2> QED
      BY <1>2, <1>5, <2>1, <2>2, EntrySearches
  <1>8. IsThread(g) /\ g.out \in {"none", "open", "closed"} /\ g.result \in {0, 1}
    BY <1>1, <1>5 DEF IsEntry
  <1>9. ignoreCase' \in BOOLEAN /\ (GM!NoOption => ~ignoreCase')
        /\ UNCHANGED <<command, below, gArg, tHandle, threadCount, printed, temps, wild>>
    <2>1. ignoreCase' = (ignoreCase \/ GM!File(grep[th].file).kind = "-y")
          /\ UNCHANGED <<command, below, gArg, tHandle, threadCount, printed, temps, wild>>
      BY DEF GM!TakeFile
    <2>2. GM!NoOption => GM!File(th).kind # "-y"
      BY DEF GM!NoOption
    <2> QED
      BY <1>0, <1>1, <2>1, <2>2
  <1> QED
    BY <1>4, <1>6, <1>7, <1>8, <1>9, ThreadMoves

LEMMA GMReadLine ==
  ASSUME GMInv, NEW th \in GM!Files, GM!ReadLine(th)
  PROVE  GMInv'
  <1>0. PICK o : o = grep[th]
    OBVIOUS
  <1>1. IsNow(o) /\ OwnEntry(th) /\ o.out \in {"none", "open", "closed"} /\ o.result \in {0, 1}
        /\ (GM!NoOption => ~ignoreCase /\ Searches(th, o)) /\ o.at = "line"
        /\ o.file = th /\ o.temp = th
    BY <1>0, EntryNow DEF GM!ReadLine, OwnEntry
  <1>2. Seen(th) = GM!Scanned(GM!File(o.file))
    BY <1>1 DEF Seen
  <1>3. ignoreCase' \in BOOLEAN /\ (GM!NoOption => ~ignoreCase')
        /\ UNCHANGED <<command, below, gArg, tHandle, threadCount, printed, temps, wild>>
    BY <1>1 DEF GMInv, GM!TypeOK, GM!ReadLine
  <1>4. GM!NoOption => /\ o.pattern = Codes /\ (o.result = 1 <=> o.lines = <<>>)
                       /\ o.line \in 0 .. Len(Seen(th)) /\ o.lines = GM!MatchingUpTo(th)[o.line]
                       /\ o.out = "closed" => o.lines = GM!MatchingUpTo(th)[Len(Seen(th))]
    BY <1>1, EntrySearches DEF IsNow
  <1>5. \/ /\ grep' = [grep EXCEPT ![th].at = "ended", ![th].out = "closed"]
           /\ o.line + 1 > Len(Seen(th))
        \/ \E n, result, lines : Reads(th, n, result, lines)
    <2> DEFINE found == GM!Scanned(GM!File(grep[th].file))
               n == grep[th].line + 1
               string == IF ignoreCase THEN [j \in DOMAIN found[n] |-> GM!Lower(found[n][j])]
                         ELSE found[n]
               matches == GM!patternMatch(grep[th].pattern, string)
               result == IF matches THEN 0 ELSE grep[th].result
               lines == IF matches THEN Append(grep[th].lines, string) ELSE grep[th].lines
    <2>1. CASE n > Len(found)
      <3>1. grep' = [grep EXCEPT ![th].at = "ended", ![th].out = "closed"]
        BY <2>1, Zenon DEF GM!ReadLine
      <3> QED
        BY <1>0, <1>2, <2>1, <3>1
    <2>2. CASE ~(n > Len(found))
      <3>1. grep' = [grep EXCEPT ![th].line = n,
                                 ![th].result = IF matches THEN 0 ELSE @,
                                 ![th].lines = IF matches THEN Append(@, string) ELSE @]
        BY <2>2, Zenon DEF GM!ReadLine
      <3>2. ~ignoreCase => IF GM!patternMatch(grep[th].pattern, found[n])
                           THEN result = 0 /\ lines = Append(grep[th].lines, found[n])
                           ELSE result = grep[th].result /\ lines = grep[th].lines
        <4> HIDE DEF found, n
        <4> QED
          OBVIOUS
      <3> HIDE DEF string, matches
      <3>3. grep' = [grep EXCEPT ![th].line = n, ![th].result = result, ![th].lines = lines]
        <4> HIDE DEF found, n
        <4> QED
          BY <3>1 DEF GMInv
      <3>4. result \in {0, grep[th].result}
        OBVIOUS
      <3> HIDE DEF result, lines
      <3>5. Reads(th, n, result, lines)
        BY <2>2, <3>2, <3>3, <3>4, Zenon DEF Reads
      <3> QED
        BY <3>5, Zenon
    <2> QED
      BY <2>1, <2>2
  <1>6. ASSUME grep' = [grep EXCEPT ![th].at = "ended", ![th].out = "closed"],
               o.line + 1 > Len(Seen(th))
        PROVE  GMInv'
    <2>1. PICK f : f = [o EXCEPT !.at = "ended"]
      OBVIOUS
    <2>2. PICK g : g = [f EXCEPT !.out = "closed"]
      OBVIOUS
    <2>3. grep' = [grep EXCEPT ![th] = g]
      BY <1>0, <1>6, <2>1, <2>2 DEF GMInv
    <2>4. IsEntry(f, "ended", o.file, o.temp, o.pattern, o.line, o.out, o.lines, o.result)
      BY <1>1, <2>1, EntryChanges DEF IsNow
    <2>5. IsEntry(g, "ended", o.file, o.temp, o.pattern, o.line, "closed", o.lines, o.result)
      BY <2>2, <2>4, EntryChanges
    <2>6. MayBecome(th, g)
      BY <1>0, <1>1, <2>5 DEF IsEntry, MayBecome, OwnEntry
    <2>7. GM!NoOption => Searches(th, g)
      <3>1. GM!NoOption => o.line = Len(Seen(th))
        BY <1>4, <1>6, MatchingIs
      <3>2. GM!NoOption => o.lines = GM!MatchingUpTo(th)[Len(Seen(th))] /\ (o.result = 1 <=> o.lines = <<>>)
        BY <1>4, <3>1
      <3> QED
        BY <2>5, <3>2, EntrySearches
    <2>8. IsThread(g) /\ g.out \in {"none", "open", "closed"} /\ g.result \in {0, 1}
      BY <1>1, <2>5 DEF IsEntry
    <2> QED
      BY <1>3, <2>3, <2>6, <2>7, <2>8, ThreadMoves
  <1>7. ASSUME NEW n, NEW result, NEW lines, Reads(th, n, result, lines)
        PROVE  GMInv'
    <2>1. PICK e : e = [o EXCEPT !.line = n]
      OBVIOUS
    <2>2. PICK f : f = [e EXCEPT !.result = result]
      OBVIOUS
    <2>3. PICK g : g = [f EXCEPT !.lines = lines]
      OBVIOUS
    <2>0. /\ grep' = [grep EXCEPT ![th].line = n, ![th].result = result, ![th].lines = lines]
          /\ result \in {0, o.result} /\ n = o.line + 1 /\ ~(n > Len(Seen(th)))
          /\ ~ignoreCase =>
               IF GM!patternMatch(o.pattern, Seen(th)[n])
               THEN result = 0 /\ lines = Append(o.lines, Seen(th)[n])
               ELSE result = o.result /\ lines = o.lines
      BY <1>0, <1>2, <1>7 DEF Reads
    <2>4. grep' = [grep EXCEPT ![th] = g]
      BY <1>0, <2>0, <2>1, <2>2, <2>3 DEF GMInv
    <2>5. IsEntry(e, "line", o.file, o.temp, o.pattern, n, o.out, o.lines, o.result)
      <3>1. IsEntry(o, "line", o.file, o.temp, o.pattern, o.line, o.out, o.lines, o.result)
        BY <1>1 DEF IsNow
      <3> QED
        BY <2>1, <3>1, EntryChanges
    <2>6. IsEntry(f, "line", o.file, o.temp, o.pattern, n, o.out, o.lines, result)
      BY <2>2, <2>5, EntryChanges
    <2>7. IsEntry(g, "line", o.file, o.temp, o.pattern, n, o.out, lines, result)
      BY <2>3, <2>6, EntryChanges
    <2>8. MayBecome(th, g)
      BY <1>0, <1>1, <2>7 DEF IsEntry, MayBecome, OwnEntry
    <2>9. ASSUME GM!NoOption
          PROVE  Searches(th, g)
      <3>1. n \in 1 .. Len(Seen(th)) /\ o.line = n - 1 /\ n \in 0 .. Len(Seen(th))
            /\ n - 1 \in 0 .. Len(Seen(th))
        BY <1>4, <2>0, <2>9, MatchingIs
      <3>2. o.pattern = Codes /\ o.lines = GM!MatchingUpTo(th)[n - 1] /\ ~ignoreCase
            /\ (o.result = 1 <=> o.lines = <<>>)
        BY <1>1, <1>4, <2>9, <3>1
      <3>3. lines = GM!MatchingUpTo(th)[n]
        BY <2>0, <3>1, <3>2, MatchingIs
      <3>4. result = 1 <=> lines = <<>>
        <4>1. o.lines \in Seq(Seq(STRING))
          BY <3>1, <3>2, MatchingIs
        <4>2. \A x : Append(o.lines, x) # <<>>
          BY <4>1
        <4> QED
          BY <2>0, <3>2, <4>2
      <3>5. o.out # "closed"
        BY <1>0, <1>1 DEF OwnEntry
      <3> QED
        BY <2>7, <3>1, <3>2, <3>3, <3>4, <3>5, EntrySearches
    <2>10. IsThread(g) /\ g.out \in {"none", "open", "closed"} /\ g.result \in {0, 1}
      BY <1>1, <2>0, <2>7 DEF IsEntry
    <2> QED
      BY <1>3, <2>4, <2>8, <2>9, <2>10, ThreadMoves
  <1> QED
    BY <1>5, <1>6, <1>7

LEMMA GMNext ==
  ASSUME GMInv, GM!Next \/ UNCHANGED GM!gmVars
  PROVE  GMInv'
  <1>1. CASE UNCHANGED GM!gmVars \/ GM!WaitFails
    <2>1. /\ UNCHANGED <<command, below, gArg, tHandle, threadCount, grep, ignoreCase, printed, temps>>
          /\ GM!Files' = GM!Files /\ Waiting' = Waiting /\ PrintedInOrder' = PrintedInOrder
          /\ wild' = wild \/ wild' = TRUE
      BY <1>1 DEF GM!gmVars, GM!WaitFails, GM!Files, Waiting, PrintedInOrder
    <2>2. TablesInv'
      <3>1. TablesInv
        BY DEF GMInv
      <3>2. \A th \in GM!Files : OwnEntry(th)'
        BY <2>1, <3>1 DEF TablesInv, OwnEntry
      <3>3. (\A n \in DOMAIN printed : IsReport(printed[n], Waiting, grep))'
        BY <2>1, <3>1 DEF TablesInv, IsReport
      <3> QED
        BY <2>1, <3>1, <3>2, <3>3 DEF TablesInv
    <2>3. SearchInv'
      BY <2>1, SearchKept DEF GMInv
    <2> QED
      BY <2>1, <2>2, <2>3 DEF GMInv, GM!TypeOK
  <1>2. CASE GM!Next
    BY <1>1, <1>2, GMStartThread, GMBegin, GMTakePattern, GMTakeFile, GMReadLine, CollectKeeps
       DEF GM!Next, GM!ThGrep
  <1> QED
    BY <1>1, <1>2

LEMMA GMReported ==
  ASSUME GMInv, GM!Done
  PROVE  GM!GrepReports
  <1>1. threadCount = 0 /\ Waiting = {}
    BY DEF GM!Done, Waiting
  <1>2. \A th \in GM!Files : grep[th].at = "ended" /\ OwnEntry(th)
    BY <1>1 DEF GMInv, TablesInv, OwnEntry
  <1>3. \A th \in GM!Files : grep[th].file = th /\ grep[th].temp = th
    BY <1>2 DEF OwnEntry
  <1>4. \A n \in DOMAIN printed : IsReport(printed[n], Waiting, grep)
    BY DEF GMInv, TablesInv
  <1>5. {printed[n].file : n \in DOMAIN printed}
          = {i \in GM!Files : GM!Searched(i) /\ grep[i].result = 0}
    <2>1. ASSUME NEW n \in DOMAIN printed
          PROVE  /\ printed[n].file \in GM!Files
                 /\ GM!Searched(printed[n].file) /\ grep[printed[n].file].result = 0
      BY <1>2, <1>4 DEF IsReport, OwnEntry, GM!Searched
    <2>2. ASSUME NEW i \in GM!Files, grep[i].result = 0
          PROVE  \E n \in DOMAIN printed : printed[n].file = i
      BY <1>1, <1>2, <2>2 DEF OwnEntry
    <2> QED
      BY <2>1, <2>2
  <1>6. temps = {i \in GM!Files : grep[i].out = "open"}
    BY <1>1 DEF GMInv, TablesInv
  <1>7. \A m, n \in DOMAIN printed : printed[m].file = printed[n].file => m = n
    BY DEF GMInv, TablesInv
  <1>8. \A n \in DOMAIN printed : printed[n].lines = grep[printed[n].file].lines
    BY <1>4 DEF IsReport
  <1>11. GM!IsOption(command.pattern) => printed = <<>>
    <2>1. PICK S : printed \in Seq(S)
      BY DEF GMInv, TablesInv, PrintedInOrder
    <2>2. \A n \in DOMAIN printed :
            GM!Searched(printed[n].file) /\ OwnEntry(printed[n].file)
      BY <1>2, <1>5
    <2>3. GM!IsOption(command.pattern) => DOMAIN printed = {}
      BY <2>2 DEF OwnEntry, GM!Searched
    <2> QED
      BY <2>1, <2>3
  <1>9. ASSUME GM!NoOption, NEW i \in GM!Files, GM!Searched(i)
        PROVE  grep[i].lines = GM!Selected(i) /\ (grep[i].result = 1 <=> GM!Selected(i) = <<>>)
    BY <1>9 DEF GMInv, SearchInv, Searches, IsSearch, Seen, GM!Selected, GM!Searched
  <1>10. GM!ReportedOnce
    BY <1>3, <1>5, <1>6, <1>7, <1>8 DEF GM!ReportedOnce
  <1> QED
    BY <1>9, <1>10, <1>11 DEF GM!GrepReports

-----------------------------------------------------------------------------
(* The matcher, for a pattern of one character                             *)

(* What the matcher finds at each place of the pattern and of the line.    *)
IsFrom(codes, line, g) ==
  g = [at \in (1 .. Len(codes) + 1) \X (1 .. Len(codes) + 1) \X (1 .. Len(line) + 1)
         |-> LT!Again(codes, line, g, at)]

LEMMA PatternMatchIs ==
  ASSUME NEW codes, NEW line
  PROVE  LT!patternMatch(codes, line) = (CHOOSE g : IsFrom(codes, line, g))[<<LT!First(codes), LT!First(codes), 1>>]
  BY DEF LT!patternMatch, IsFrom

(* What the matcher finds for a pattern of one character, at the character *)
(* (here) and behind it (end), when g is what it finds at the place n of   *)
(* the line, the one after j.                                              *)
AtPlace(c, line, L, g, top, j, n, here, end) ==
  /\ end = TRUE
  /\ j > L => here = FALSE
  /\ j <= L /\ c = line[j] => here = g[<<top, 2, n>>]
  /\ j <= L /\ c # line[j] => here = g[<<top, top, n>>]

LEMMA OneCharacter ==
  ASSUME NEW c, c \notin LT!Metacharacters, NEW line, NEW L \in Nat, Len(line) = L,
         NEW g, NEW top \in 1 .. 2, NEW j \in Nat, NEW n, n = j + 1
  PROVE  AtPlace(c, line, L, g, top, j, n,
                 LT!Again(<<c>>, line, g, <<top, 1, j>>), LT!Again(<<c>>, line, g, <<top, 2, j>>))
  <1>1. /\ <<c>> # <<>> /\ <<c>>[1] = c /\ Len(<<c>>) = 1
    OBVIOUS
  <1>2. c # "ANCHOR" /\ c # "EOS" /\ c # "ASTRSK" /\ c # "BEGCLASS" /\ c # "QM"
    BY DEF LT!Metacharacters
  <1>3. ~LT!Anchored(<<c>>)
    BY <1>1, <1>2 DEF LT!Anchored
  <1>4. /\ <<top, 2, j>>[1] = top /\ <<top, 2, j>>[2] = 2 /\ <<top, 2, j>>[3] = j
        /\ <<top, 1, j>>[1] = top /\ <<top, 1, j>>[2] = 1 /\ <<top, 1, j>>[3] = j
    OBVIOUS
  <1>5. LT!Again(<<c>>, line, g, <<top, 2, j>>) = TRUE
    BY <1>1, <1>4 DEF LT!Again
  <1>6. j > Len(line) => LT!Again(<<c>>, line, g, <<top, 1, j>>) = FALSE
    BY <1>1, <1>2, <1>3, <1>4 DEF LT!Again
  <1> DEFINE Same == IF c \in {line[j], "QM"} THEN g[<<top, 2, j + 1>>] ELSE g[<<top, top, j + 1>>]
  <1>7. ASSUME j <= L
        PROVE  LT!Again(<<c>>, line, g, <<top, 1, j>>) = Same
    <2>1. ~(j > Len(line))
      BY <1>7
    <2> HIDE <1>7
    <2> QED
      BY ONLY <1>1, <1>2, <1>3, <1>4, <2>1, top \in 1 .. 2, j \in Nat DEF LT!Again
  <1>8. j <= L /\ c = line[j] => Same = g[<<top, 2, j + 1>>]
    OBVIOUS
  <1>9. j <= L /\ c # line[j] => Same = g[<<top, top, j + 1>>]
    BY <1>2
  <1> HIDE DEF Same
  <1> QED
    BY <1>5, <1>6, <1>7, <1>8, <1>9 DEF AtPlace

(* The same, seen from what the matcher finds at each place.               *)
LEMMA PlaceIs ==
  ASSUME NEW c, c \notin LT!Metacharacters, NEW line, NEW L \in Nat, Len(line) = L,
         NEW g, IsFrom(<<c>>, line, g), NEW top \in 1 .. 2, NEW j \in 1 .. L + 1, NEW n, n = j + 1
  PROVE  AtPlace(c, line, L, g, top, j, n, g[<<top, 1, j>>], g[<<top, 2, j>>])
  <1>1. g = [at \in (1 .. 2) \X (1 .. 2) \X (1 .. L + 1) |-> LT!Again(<<c>>, line, g, at)]
    BY DEF IsFrom
  <1>2. <<top, 1, j>> \in (1 .. 2) \X (1 .. 2) \X (1 .. L + 1)
        /\ <<top, 2, j>> \in (1 .. 2) \X (1 .. 2) \X (1 .. L + 1)
    OBVIOUS
  <1>3. /\ g[<<top, 1, j>>] = LT!Again(<<c>>, line, g, <<top, 1, j>>)
        /\ g[<<top, 2, j>>] = LT!Again(<<c>>, line, g, <<top, 2, j>>)
    BY ONLY <1>1, <1>2
  <1>4. j \in Nat
    OBVIOUS
  <1>5. AtPlace(c, line, L, g, top, j, n,
                LT!Again(<<c>>, line, g, <<top, 1, j>>), LT!Again(<<c>>, line, g, <<top, 2, j>>))
    BY <1>4, OneCharacter
  <1> QED
    BY ONLY <1>3, <1>5

(* The character is in the line, from j on.                                *)
Later(c, line, j, L) == \E k \in j .. L : line[k] = c

LaterFrom(c, line, L, j, n) ==
  /\ j > L => Later(c, line, j, L) = FALSE
  /\ j <= L /\ c = line[j] => Later(c, line, j, L) = TRUE
  /\ j <= L /\ c # line[j] => Later(c, line, j, L) = Later(c, line, n, L)

LEMMA LaterIs ==
  ASSUME NEW c, NEW line, NEW L \in Nat, NEW j \in 1 .. L + 1, NEW n, n = j + 1
  PROVE  LaterFrom(c, line, L, j, n)
  <1>1. ASSUME j > L
        PROVE  Later(c, line, j, L) = FALSE
    BY <1>1 DEF Later
  <1>2. ASSUME j <= L, c = line[j]
        PROVE  Later(c, line, j, L) = TRUE
    BY <1>2 DEF Later
  <1>3. ASSUME j <= L, c # line[j]
        PROVE  Later(c, line, j, L) = Later(c, line, n, L)
    BY <1>3 DEF Later
  <1> QED
    BY <1>1, <1>2, <1>3 DEF LaterFrom

(* What the matcher finds for a pattern of one character: where it starts  *)
(* again from the place 2, which it never does, it is at the end.          *)
FindsHere(c, line, L, top, j) ==
  IF j > L THEN FALSE ELSE IF c = line[j] THEN TRUE
  ELSE IF top = 2 THEN TRUE ELSE Later(c, line, j, L)

Finds(c, line, L) ==
  [at \in (1 .. 2) \X (1 .. 2) \X (1 .. L + 1) |->
     IF at[2] = 2 THEN TRUE ELSE FindsHere(c, line, L, at[1], at[3])]

FoundAt(c, line, L, top, j, here, end) ==
  /\ end = TRUE
  /\ j > L => here = FALSE
  /\ j <= L /\ c = line[j] => here = TRUE
  /\ j <= L /\ top = 2 => here = TRUE
  /\ j <= L /\ c # line[j] /\ top = 1 => here = Later(c, line, j, L)

LEMMA FindsAt ==
  ASSUME NEW c, NEW line, NEW L \in Nat, NEW top \in 1 .. 2, NEW j \in 1 .. L + 1
  PROVE  FoundAt(c, line, L, top, j, Finds(c, line, L)[<<top, 1, j>>], Finds(c, line, L)[<<top, 2, j>>])
  <1>1. \A i \in 1 .. 2 : <<top, i, j>> \in (1 .. 2) \X (1 .. 2) \X (1 .. L + 1)
    OBVIOUS
  <1>2. \A i \in 1 .. 2 : <<top, i, j>>[1] = top /\ <<top, i, j>>[2] = i /\ <<top, i, j>>[3] = j
    OBVIOUS
  <1>3. ASSUME NEW i \in 1 .. 2
        PROVE  Finds(c, line, L)[<<top, i, j>>] = IF i = 2 THEN TRUE ELSE FindsHere(c, line, L, top, j)
    <2>1. Finds(c, line, L)[<<top, i, j>>] =
            IF <<top, i, j>>[2] = 2 THEN TRUE ELSE FindsHere(c, line, L, <<top, i, j>>[1], <<top, i, j>>[3])
      BY <1>1 DEF Finds
    <2> QED
      BY <1>2, <2>1
  <1>4. PICK one, two \in 1 .. 2 : one = 1 /\ two = 2
    OBVIOUS
  <1>5. Finds(c, line, L)[<<top, two, j>>] = TRUE
    BY ONLY <1>3, <1>4
  <1>6. Finds(c, line, L)[<<top, one, j>>] = FindsHere(c, line, L, top, j)
    BY ONLY <1>3, <1>4
  <1> DEFINE here == FindsHere(c, line, L, top, j)
  <1>7. j > L => here = FALSE
    BY DEF FindsHere
  <1>8. j <= L /\ c = line[j] => here = TRUE
    BY DEF FindsHere
  <1>9. j <= L /\ top = 2 => here = TRUE
    BY DEF FindsHere
  <1>10. ASSUME j <= L, c # line[j], top = 1
         PROVE  here = Later(c, line, j, L)
    <2>1. ~(j > L) /\ top # 2
      BY <1>10
    <2> QED
      BY <1>10, <2>1, Zenon DEF FindsHere
  <1> QED
    BY <1>4, <1>5, <1>6, <1>7, <1>8, <1>9, <1>10 DEF FoundAt

LEMMA MatcherDefined ==
  ASSUME NEW c, c \notin LT!Metacharacters, NEW line, NEW L \in Nat, Len(line) = L
  PROVE  IsFrom(<<c>>, line, Finds(c, line, L))
  <1> DEFINE D == (1 .. 2) \X (1 .. 2) \X (1 .. L + 1)
             g == Finds(c, line, L)
  <1>1. ASSUME NEW top \in 1 .. 2, NEW i \in 1 .. 2, NEW j \in 1 .. L + 1
        PROVE  g[<<top, i, j>>] = LT!Again(<<c>>, line, g, <<top, i, j>>)
    <2> HIDE DEF g
    <2>0. j \in Nat
      OBVIOUS
    <2>1. PICK n \in Nat : n = j + 1
      OBVIOUS
    <2> DEFINE H == g[<<top, 1, j>>]
               E == g[<<top, 2, j>>]
               HA == LT!Again(<<c>>, line, g, <<top, 1, j>>)
               EA == LT!Again(<<c>>, line, g, <<top, 2, j>>)
    <2>2. AtPlace(c, line, L, g, top, j, n, HA, EA)
      BY <2>0, <2>1, OneCharacter
    <2>3. FoundAt(c, line, L, top, j, H, E)
      BY FindsAt DEF g
    <2>4. ASSUME j <= L
          PROVE  FoundAt(c, line, L, top, n, g[<<top, 1, n>>], g[<<top, 2, n>>])
      <3>1. n \in 1 .. L + 1
        BY <2>1, <2>4
      <3> QED
        BY <3>1, FindsAt DEF g
    <2>5. LaterFrom(c, line, L, j, n)
      BY <2>1, LaterIs
    <2> HIDE DEF H, E, HA, EA
    <2>6. E = EA
      BY <2>2, <2>3 DEF AtPlace, FoundAt
    <2>7. CASE j > L
      <3>1. H = FALSE /\ HA = FALSE
        BY <2>2, <2>3, <2>7 DEF AtPlace, FoundAt
      <3>2. H = HA
        BY <3>1
      <3> QED
        BY <2>6, <3>2 DEF H, E, HA, EA
    <2>8. CASE j <= L /\ c = line[j]
      <3>1. H = TRUE /\ HA = g[<<top, 2, n>>]
        BY <2>2, <2>3, <2>8 DEF AtPlace, FoundAt
      <3>2. g[<<top, 2, n>>] = TRUE
        BY <2>4, <2>8 DEF FoundAt
      <3>3. H = HA
        BY <3>1, <3>2
      <3> QED
        BY <2>6, <3>3 DEF H, E, HA, EA
    <2>9. CASE j <= L /\ c # line[j]
      <3>1. HA = g[<<top, top, n>>]
        BY <2>2, <2>9 DEF AtPlace
      <3>2. CASE top = 2
        <4>1. H = TRUE
          BY <2>3, <2>9, <3>2 DEF FoundAt
        <4>2. g[<<top, 2, n>>] = TRUE
          BY <2>4, <2>9 DEF FoundAt
        <4>3. H = HA
          BY <3>1, <3>2, <4>1, <4>2
        <4> QED
          BY <2>6, <4>3 DEF H, E, HA, EA
      <3>3. CASE top = 1
        <4>1. H = Later(c, line, j, L) /\ Later(c, line, j, L) = Later(c, line, n, L)
          BY <2>3, <2>5, <2>9, <3>3 DEF FoundAt, LaterFrom
        <4>2. g[<<top, 1, n>>] = Later(c, line, n, L)
          <5>1. FoundAt(c, line, L, top, n, g[<<top, 1, n>>], g[<<top, 2, n>>])
            BY <2>4, <2>9
          <5>2. n \in 1 .. L + 1
            BY <2>1, <2>9
          <5>3. LaterFrom(c, line, L, n, n + 1)
            BY <5>2, LaterIs
          <5>4. CASE n > L
            BY <5>1, <5>3, <5>4 DEF FoundAt, LaterFrom
          <5>5. CASE n <= L /\ c = line[n]
            BY <5>1, <5>3, <5>5 DEF FoundAt, LaterFrom
          <5>6. CASE n <= L /\ c # line[n]
            BY <3>3, <5>1, <5>6 DEF FoundAt
          <5> QED
            BY <5>2, <5>4, <5>5, <5>6
        <4>3. H = HA
          BY <3>1, <3>3, <4>1, <4>2
        <4> QED
          BY <2>6, <4>3 DEF H, E, HA, EA
      <3> QED
        BY <3>2, <3>3
    <2> QED
      BY <2>7, <2>8, <2>9
  <1>2. \A at \in D : g[at] = LT!Again(<<c>>, line, g, at)
    BY <1>1
  <1>3. g = [at \in D |-> g[at]]
    BY DEF Finds
  <1>4. g = [at \in D |-> LT!Again(<<c>>, line, g, at)]
    BY <1>2, <1>3
  <1> QED
    BY <1>4 DEF IsFrom

(* A pattern of one character is found in a line that has the character.   *)
LEMMA CharacterFound ==
  ASSUME NEW c, c \notin LT!Metacharacters, NEW line, Len(line) \in Nat
  PROVE  LT!patternMatch(<<c>>, line) = (\E j \in 1 .. Len(line) : line[j] = c)
  <1>1. PICK L \in Nat : Len(line) = L
    OBVIOUS
  <1>2. PICK g : g = CHOOSE h : IsFrom(<<c>>, line, h)
    OBVIOUS
  <1>3. IsFrom(<<c>>, line, g)
    BY <1>1, <1>2, MatcherDefined
  <1>4. LT!First(<<c>>) = 1
    <2>1. c # "ANCHOR"
      BY DEF LT!Metacharacters
    <2> QED
      BY <2>1 DEF LT!First, LT!Anchored
  <1>5. LT!patternMatch(<<c>>, line) = g[<<1, 1, 1>>]
    BY <1>2, <1>4, PatternMatchIs
  <1>0. PICK one \in 1 .. 2 : one = 1
    OBVIOUS
  <1> DEFINE Right(j) == g[<<one, 1, j>>] = Later(c, line, j, L)
             S == {n \in Nat : \A j \in 1 .. L + 1 : j = L + 1 - n => Right(j)}
  <1>6. 0 \in S
    <2>1. ASSUME NEW j \in 1 .. L + 1, j = L + 1 - 0
          PROVE  Right(j)
      <3>1. j > L
        BY <2>1
      <3>2. AtPlace(c, line, L, g, one, j, j + 1, g[<<one, 1, j>>], g[<<one, 2, j>>])
        BY <1>1, <1>3, PlaceIs
      <3>3. LaterFrom(c, line, L, j, j + 1)
        BY LaterIs
      <3> QED
        BY <3>1, <3>2, <3>3 DEF AtPlace, LaterFrom
    <2> QED
      BY <2>1
  <1>7. ASSUME NEW n \in Nat, n \in S
        PROVE  n + 1 \in S
    <2>1. ASSUME NEW j \in 1 .. L + 1, j = L + 1 - (n + 1)
          PROVE  Right(j)
      <3>1. PICK m \in 1 .. L + 1 : m = j + 1 /\ m = L + 1 - n
        BY <2>1
      <3>2. Right(m) /\ j <= L
        BY <1>7, <2>1, <3>1
      <3> HIDE <1>7
      <3>3. AtPlace(c, line, L, g, one, j, m, g[<<one, 1, j>>], g[<<one, 2, j>>])
        BY <1>1, <1>3, <3>1, PlaceIs
      <3>4. LaterFrom(c, line, L, j, m)
        BY <3>1, LaterIs
      <3>5. AtPlace(c, line, L, g, one, m, m + 1, g[<<one, 1, m>>], g[<<one, 2, m>>])
        BY <1>1, <1>3, PlaceIs
      <3>6. CASE c = line[j]
        BY <3>2, <3>3, <3>4, <3>5, <3>6 DEF AtPlace, LaterFrom
      <3>7. CASE c # line[j]
        BY <1>0, <3>2, <3>3, <3>4, <3>7 DEF AtPlace, LaterFrom
      <3> QED
        BY <3>6, <3>7
    <2> QED
      BY <2>1
  <1>8. L \in S
    <2> HIDE DEF S
    <2> QED
      BY <1>6, <1>7, SetInduction
  <1>9. PICK start \in 1 .. L + 1 : start = 1 /\ start = L + 1 - L
    OBVIOUS
  <1>10. Right(start)
    BY <1>8, <1>9
  <1>11. Later(c, line, 1, L) = (\E j \in 1 .. L : line[j] = c)
    BY DEF Later
  <1> QED
    BY <1>0, <1>1, <1>5, <1>9, <1>10, <1>11
-----------------------------------------------------------------------------
(* The loops of grep and obtask                                            *)

(* Line i tells the number of results for the thread of line r.            *)
TellsIn(l, i, r) == LT!TellsJobs(l[i]) /\ \E j \in DOMAIN l[i] : l[i][j] = l[r][1]

(* After n lines, line r is a request without an answer.                   *)
Pending(l, r, n) ==
  /\ r \in 1 .. n /\ LT!TaskMatches(l[r])
  /\ \A i \in r + 1 .. n : ~LT!TaskMatches(l[i]) /\ ~TellsIn(l, i, r)

(* What is printed for line k, as a function of the log.                   *)
WantedIn(t, l, k) ==
  IF ~t THEN (IF LT!GrepMatches(l[k]) THEN <<k>> ELSE <<>>)
  ELSE IF \E r \in 1 .. k - 1 : Pending(l, r, k - 1) /\ TellsIn(l, k, r)
       THEN <<CHOOSE r \in 1 .. k - 1 : Pending(l, r, k - 1) /\ TellsIn(l, k, r), k>> ELSE <<>>

AllWanted(t, l, n) == [k \in 1 .. n |-> WantedIn(t, l, k)]

(* What obtask keeps is the one request without an answer.                 *)
KeepsRequest ==
  /\ needLenSize => /\ Pending(log, request, lineNumber)
                    /\ threadID = LT!Thread(log[request])
  /\ ~needLenSize => \A r \in 1 .. lineNumber : ~Pending(log, r, lineNumber)

LTInv ==
  /\ LT!TypeOK
  /\ ~opened => log = <<>>
  /\ opened => shown = FlattenSeq(AllWanted(obtask, log, lineNumber))
  /\ obtask => KeepsRequest

(* Of two requests without an answer the second replaced the first.        *)
LEMMA OnePending ==
  ASSUME NEW l, NEW n \in Nat, NEW r, NEW s, Pending(l, r, n), Pending(l, s, n)
  PROVE  r = s
  <1>1. r \in 1 .. n /\ s \in 1 .. n
    BY DEF Pending
  <1>2. ASSUME r < s
        PROVE  FALSE
    <2>1. s \in r + 1 .. n
      BY <1>1, <1>2
    <2> QED
      BY <2>1 DEF Pending
  <1>3. ASSUME s < r
        PROVE  FALSE
    <2>1. r \in s + 1 .. n
      BY <1>1, <1>3
    <2> QED
      BY <2>1 DEF Pending
  <1> QED
    BY <1>1, <1>2, <1>3

(* Looking for the thread number of a request in a line is looking for its *)
(* character.                                                              *)
LEMMA ThreadFound ==
  ASSUME NEW l \in Seq(LogLines), NEW i \in 1 .. Len(l), NEW r \in 1 .. Len(l)
  PROVE  LT!TellsJobs(l[i]) /\ LT!HasThread(LT!Thread(l[r]), l[i]) <=> TellsIn(l, i, r)
  <1>1. l[i] \in LogLines /\ l[r] \in LogLines
    OBVIOUS
  <1>2. PICK c : c = l[r][1]
    OBVIOUS
  <1>3. c \notin LT!Metacharacters
    BY <1>1, <1>2, LogAssumption
  <1>4. PICK line : line = l[i]
    OBVIOUS
  <1>5. Len(line) \in Nat /\ DOMAIN line = 1 .. Len(line)
    BY <1>1, <1>4, LogAssumption
  <1>6. LT!patternMatch(<<c>>, line) = (\E j \in 1 .. Len(line) : line[j] = c)
    BY <1>3, <1>5, CharacterFound
  <1> QED
    BY <1>2, <1>4, <1>5, <1>6 DEF TellsIn, LT!HasThread, LT!Thread

LEMMA WantedTyped ==
  ASSUME NEW t, NEW l, NEW k \in Nat
  PROVE  WantedIn(t, l, k) \in Seq(Nat)
  <1>1. CASE ~t
    BY <1>1 DEF WantedIn
  <1>2. CASE t /\ ~\E r \in 1 .. k - 1 : Pending(l, r, k - 1) /\ TellsIn(l, k, r)
    BY <1>2 DEF WantedIn
  <1>3. CASE t /\ \E r \in 1 .. k - 1 : Pending(l, r, k - 1) /\ TellsIn(l, k, r)
    <2>1. PICK r \in 1 .. k - 1 : r = CHOOSE q \in 1 .. k - 1 : Pending(l, q, k - 1) /\ TellsIn(l, k, q)
      BY <1>3
    <2>2. WantedIn(t, l, k) = <<r, k>>
      BY <1>3, <2>1 DEF WantedIn
    <2> QED
      BY <2>2
  <1> QED
    BY <1>1, <1>2, <1>3

(* One line more is one more part printed.                                 *)
NextPart(t, l, n, next, s, w) ==
  next = n + 1 /\ s = FlattenSeq(AllWanted(t, l, n)) /\ w = WantedIn(t, l, next)
Printing(t, l, next, s, w) == FlattenSeq(AllWanted(t, l, next)) = s \o w

LEMMA WantedNext ==
  ASSUME NEW t, NEW l, NEW n \in Nat, NEW next, NEW s, NEW w, NextPart(t, l, n, next, s, w)
  PROVE  Printing(t, l, next, s, w)
  <1>0. next = n + 1 /\ s = FlattenSeq(AllWanted(t, l, n)) /\ w = WantedIn(t, l, next)
    BY DEF NextPart
  <1>1. \A k \in Nat : WantedIn(t, l, k) \in Seq(Nat)
    BY WantedTyped
  <1>2. w \in Seq(Nat)
    BY <1>0, <1>1
  <1>3. PICK q : q = AllWanted(t, l, n)
    OBVIOUS
  <1>4. q \in [1 .. n -> Seq(Nat)]
    BY <1>1, <1>3 DEF AllWanted
  <1>5. q \in Seq(Seq(Nat)) /\ Len(q) = n
    <2> DEFINE S == Seq(Nat)
    <2>1. q \in [1 .. n -> S]
      BY <1>4
    <2> HIDE DEF S
    <2>2. q \in Seq(S) /\ Len(q) = n
      BY <2>1, FunctionIsFiles
    <2> QED
      BY <2>2 DEF S
  <1>6. AllWanted(t, l, next) = Append(q, w)
    <2>1. /\ Append(q, w) \in Seq(Seq(Nat)) /\ Len(Append(q, w)) = n + 1
          /\ Append(q, w)[n + 1] = w /\ \A k \in 1 .. n : Append(q, w)[k] = q[k]
      <3> DEFINE S == Seq(Nat)
      <3>1. q \in Seq(S) /\ w \in S
        BY <1>2, <1>5
      <3> HIDE DEF S
      <3>2. /\ Append(q, w) \in Seq(S) /\ Len(Append(q, w)) = n + 1
            /\ Append(q, w)[n + 1] = w
            /\ \A k \in 1 .. n : Append(q, w)[k] = q[k]
        BY <1>5, <3>1, AppendProperties
      <3> QED
        BY <3>2 DEF S
    <2>2. PICK r \in Seq(Seq(Nat)) : r = Append(q, w)
      BY <2>1
    <2>3. r = [k \in 1 .. n + 1 |-> r[k]]
      <3> DEFINE S == Seq(Nat)
      <3>1. r \in Seq(S)
        BY <2>2
      <3> HIDE DEF S
      <3>2. r \in [1 .. Len(r) -> S]
        BY ONLY <3>1, LenProperties
      <3>3. Len(r) = n + 1
        BY ONLY <2>1, <2>2
      <3> QED
        BY ONLY <3>2, <3>3
    <2>4. \A k \in 1 .. n : q[k] = WantedIn(t, l, k)
      BY <1>3 DEF AllWanted
    <2>5. \A k \in 1 .. n + 1 : r[k] = WantedIn(t, l, k)
      BY <1>0, <2>1, <2>2, <2>4
    <2> QED
      BY ONLY <1>0, <2>2, <2>3, <2>5 DEF AllWanted
  <1>7. FlattenSeq(Append(q, w)) = FlattenSeq(q) \o w
    BY ONLY <1>2, <1>5, FlattenAppend
  <1> QED
    BY ONLY <1>0, <1>3, <1>6, <1>7 DEF Printing

LEMMA ShownTyped ==
  ASSUME NEW t, NEW l, NEW n \in Nat
  PROVE  FlattenSeq(AllWanted(t, l, n)) \in Seq(Nat)
  <1>1. \A k \in Nat : WantedIn(t, l, k) \in Seq(Nat)
    BY WantedTyped
  <1> DEFINE S == Seq(Nat)
  <1>2. AllWanted(t, l, n) \in [1 .. n -> S]
    BY <1>1 DEF AllWanted
  <1>3. PICK q : q = AllWanted(t, l, n)
    OBVIOUS
  <1> HIDE DEF S
  <1>4. q \in Seq(S)
    BY <1>2, <1>3, FunctionIsFiles
  <1> QED
    BY <1>3, <1>4, FlattenInSeq DEF S

(* What obtask does with line n says what is wanted for it, and what is    *)
(* pending behind it.                                                      *)
RequestKept(l, m, need, thread, r0) ==
  /\ need => Pending(l, r0, m) /\ thread = LT!Thread(l[r0])
  /\ ~need => \A r \in 1 .. m : ~Pending(l, r, m)

Answered(l, n, need, thread, answers) ==
  answers <=> need /\ LT!TellsJobs(l[n]) /\ LT!HasThread(thread, l[n])

RequestNext(l, n, need, r0, answers) ==
  /\ WantedIn(TRUE, l, n) = IF answers THEN <<r0, n>> ELSE <<>>
  /\ LT!TaskMatches(l[n]) => Pending(l, n, n)
  /\ ~LT!TaskMatches(l[n]) /\ need /\ ~answers => Pending(l, r0, n)
  /\ ~LT!TaskMatches(l[n]) /\ ~(need /\ ~answers) => \A r \in 1 .. n : ~Pending(l, r, n)

LEMMA RequestStep ==
  ASSUME NEW l \in Seq(LogLines), NEW m \in Nat, NEW n \in 1 .. Len(l), n = m + 1,
         NEW need, NEW thread, NEW r0, NEW answers,
         RequestKept(l, m, need, thread, r0), Answered(l, n, need, thread, answers)
  PROVE  RequestNext(l, n, need, r0, answers)
  <1>1. m = n - 1 /\ m < Len(l) /\ n \in Nat
    OBVIOUS
  <1>2. answers <=> need /\ TellsIn(l, n, r0)
    <2>1. CASE need
      <3>1. r0 \in 1 .. Len(l) /\ thread = LT!Thread(l[r0])
        BY <1>1, <2>1 DEF Pending, RequestKept
      <3> QED
        BY <2>1, <3>1, ThreadFound DEF Answered
    <2> QED
      BY <2>1 DEF Answered
  <1>3. \A r : Pending(l, r, m) => need /\ r = r0
    BY OnePending DEF Pending, RequestKept
  <1>4. WantedIn(TRUE, l, n) = IF answers THEN <<r0, n>> ELSE <<>>
    <2>1. WantedIn(TRUE, l, n) =
            IF \E r \in 1 .. m : Pending(l, r, m) /\ TellsIn(l, n, r)
            THEN <<CHOOSE r \in 1 .. m : Pending(l, r, m) /\ TellsIn(l, n, r), n>> ELSE <<>>
      BY <1>1 DEF WantedIn
    <2>2. CASE answers
      <3>1. r0 \in 1 .. m /\ Pending(l, r0, m) /\ TellsIn(l, n, r0)
        BY <1>2, <2>2 DEF Pending, RequestKept
      <3>2. (CHOOSE r \in 1 .. m : Pending(l, r, m) /\ TellsIn(l, n, r)) = r0
        BY <1>3, <3>1
      <3> QED
        BY <2>1, <2>2, <3>1, <3>2
    <2>3. CASE ~answers
      <3>1. ~\E r \in 1 .. m : Pending(l, r, m) /\ TellsIn(l, n, r)
        BY <1>2, <1>3, <2>3
      <3> QED
        BY <2>1, <2>3, <3>1
    <2> QED
      BY <2>2, <2>3
  <1>5. LT!TaskMatches(l[n]) => Pending(l, n, n)
    BY <1>1 DEF Pending
  <1>6. ASSUME ~LT!TaskMatches(l[n]), need, ~answers
        PROVE  Pending(l, r0, n)
    <2>1. r0 \in 1 .. m /\ LT!TaskMatches(l[r0])
          /\ \A i \in r0 + 1 .. m : ~LT!TaskMatches(l[i]) /\ ~TellsIn(l, i, r0)
      BY <1>6 DEF Pending, RequestKept
    <2>2. \A i \in r0 + 1 .. n : i \in r0 + 1 .. m \/ i = n
      BY <1>1, <2>1
    <2>3. ~TellsIn(l, n, r0)
      BY <1>2, <1>6
    <2>4. r0 \in 1 .. n
      BY <1>1, <2>1
    <2> QED
      BY <1>6, <2>1, <2>2, <2>3, <2>4 DEF Pending
  <1>7. ASSUME ~LT!TaskMatches(l[n]), ~(need /\ ~answers), NEW r \in 1 .. n, Pending(l, r, n)
        PROVE  FALSE
    <2>1. r # n
      BY <1>7 DEF Pending
    <2>2. r \in 1 .. m /\ n \in r + 1 .. n /\ r + 1 .. m \subseteq r + 1 .. n
      BY <1>1, <2>1
    <2>3. Pending(l, r, m) /\ ~TellsIn(l, n, r)
      BY <1>7, <2>2 DEF Pending
    <2> QED
      BY <1>2, <1>3, <1>7, <2>3
  <1> QED
    BY <1>4, <1>5, <1>6, <1>7 DEF RequestNext

LEMMA LTInit ==
  ASSUME LT!Init
  PROVE  LTInv
  <1>1. MaxLog \in Nat
    BY WorkersAssumption
  <1>2. PICK m \in 0 .. MaxLog : log \in [1 .. m -> LogLines]
    BY <1>1 DEF LT!Init, LT!BoundedSeq, LT!SeqOf
  <1>3. log \in Seq(LogLines) /\ Len(log) \in Nat
    BY <1>1, <1>2, FunctionIsFiles
  <1>4. threadID \in {<<>>} /\ lineNumber = 0 /\ request = 0 /\ 0 \in 0 .. Len(log)
    BY <1>3 DEF LT!Init
  <1>5. obtask \in BOOLEAN /\ opened \in BOOLEAN /\ needLenSize \in BOOLEAN /\ exitResult \in {0, 1}
    BY DEF LT!Init
  <1>6. LT!TypeOK
    BY <1>3, <1>4, <1>5 DEF LT!TypeOK
  <1>7. shown = <<>> /\ needLenSize = FALSE /\ (~opened => log = <<>>)
    BY DEF LT!Init
  <1>8. AllWanted(obtask, log, 0) = <<>>
    BY DEF AllWanted
  <1>9. KeepsRequest
    BY <1>4, <1>7 DEF KeepsRequest
  <1> QED
    BY <1>4, <1>6, <1>7, <1>8, <1>9, FlattenEmpty DEF LTInv

LEMMA LTTyped ==
  ASSUME LT!TypeOK, LT!Next \/ UNCHANGED LT!ltVars
  PROVE  LT!TypeOK'
  <1>1. ASSUME LT!Next, lineNumber + 1 <= Len(log)
        PROVE  lineNumber + 1 \in 1 .. Len(log) /\ log[lineNumber + 1] \in LogLines
    BY <1>1 DEF LT!TypeOK
  <1>2. CASE UNCHANGED LT!ltVars
    BY <1>2 DEF LT!TypeOK, LT!ltVars
  <1>3. CASE LT!GrepLine
    BY <1>1, <1>3 DEF LT!TypeOK, LT!GrepLine, LT!Next
  <1>4. CASE LT!TaskLine
    BY <1>1, <1>4 DEF LT!TypeOK, LT!TaskLine, LT!Next
  <1> QED
    BY <1>2, <1>3, <1>4 DEF LT!Next

LEMMA LTGrepLine ==
  ASSUME LTInv, LT!GrepLine
  PROVE  LTInv'
  <1>1. LT!TypeOK'
    BY LTTyped DEF LTInv, LT!Next
  <1>2. PICK n \in Nat : n = lineNumber
    BY DEF LTInv, LT!TypeOK
  <1>3. /\ opened /\ ~obtask /\ lineNumber' = n + 1 /\ obtask' = obtask /\ log' = log /\ opened' = opened
        /\ shown' = IF LT!GrepMatches(log[n + 1]) THEN Append(shown, n + 1) ELSE shown
    BY <1>2 DEF LT!GrepLine
  <1>4. PICK l, t : l = log /\ t = obtask
    OBVIOUS
  <1>5. PICK s : s = FlattenSeq(AllWanted(t, l, n))
    OBVIOUS
  <1>6. s \in Seq(Nat) /\ shown = s
    BY <1>2, <1>3, <1>4, <1>5, ShownTyped DEF LTInv
  <1>7. PICK w : w = WantedIn(t, l, n + 1)
    OBVIOUS
  <1>8. w = IF LT!GrepMatches(l[n + 1]) THEN <<n + 1>> ELSE <<>>
    BY <1>3, <1>4, <1>7 DEF WantedIn
  <1>9. shown' = s \o w
    BY <1>3, <1>4, <1>6, <1>8
  <1>10. shown' = FlattenSeq(AllWanted(t, l, n + 1))
    <2>1. PICK next : next = n + 1
      OBVIOUS
    <2>2. Printing(t, l, next, s, w)
      <3>1. NextPart(t, l, n, next, s, w)
        BY ONLY <1>5, <1>7, <2>1 DEF NextPart
      <3> QED
        BY ONLY <3>1, n \in Nat, WantedNext
    <2> QED
      BY ONLY <1>9, <2>1, <2>2 DEF Printing
  <1> QED
    BY <1>1, <1>3, <1>4, <1>10 DEF LTInv

LEMMA LTTaskLine ==
  ASSUME LTInv, LT!TaskLine
  PROVE  LTInv'
  <1>1. LT!TypeOK'
    BY LTTyped DEF LTInv, LT!Next
  <1>2. PICK m \in Nat : m = lineNumber
    BY DEF LTInv, LT!TypeOK
  <1>3. PICK l, r0, thread, need, n :
          l = log /\ r0 = request /\ thread = threadID /\ need = needLenSize /\ n = m + 1
    OBVIOUS
  <1>4. PICK answers : answers = (need /\ LT!TellsJobs(l[n]) /\ LT!HasThread(thread, l[n]))
    OBVIOUS
  <1>5. /\ opened /\ obtask /\ n <= Len(l) /\ lineNumber' = n
        /\ obtask' = obtask /\ log' = l /\ opened' = opened
        /\ shown' = IF answers THEN shown \o <<r0, n>> ELSE shown
        /\ needLenSize' = (LT!TaskMatches(l[n]) \/ (need /\ ~answers))
        /\ threadID' = IF LT!TaskMatches(l[n]) THEN LT!Thread(l[n]) ELSE IF answers THEN <<>> ELSE thread
        /\ request' = IF LT!TaskMatches(l[n]) THEN n ELSE r0
    BY <1>2, <1>3, <1>4 DEF LT!TaskLine
  <1>6. l \in Seq(LogLines) /\ n \in 1 .. Len(l)
    BY <1>2, <1>3, <1>5 DEF LTInv, LT!TypeOK
  <1>7. RequestKept(l, m, need, thread, r0)
    BY <1>2, <1>3, <1>5 DEF LTInv, KeepsRequest, RequestKept
  <1>8. RequestNext(l, n, need, r0, answers)
    <2>1. Answered(l, n, need, thread, answers)
      BY <1>4 DEF Answered
    <2> QED
      BY <1>3, <1>6, <1>7, <2>1, RequestStep
  <1>9. obtask = TRUE
    BY <1>5 DEF LTInv, LT!TypeOK
  <1>10. PICK s : s = FlattenSeq(AllWanted(TRUE, l, m))
    OBVIOUS
  <1>11. s \in Seq(Nat) /\ shown = s
    BY <1>2, <1>3, <1>5, <1>9, <1>10, ShownTyped DEF LTInv
  <1>12. PICK w : w = WantedIn(TRUE, l, n)
    OBVIOUS
  <1>13. shown' = s \o w
    <2>1. CASE answers
      BY <1>5, <1>8, <1>11, <1>12, <2>1 DEF RequestNext
    <2>2. CASE ~answers
      <3>1. shown' = s /\ w = <<>>
        BY <1>5, <1>8, <1>11, <1>12, <2>2 DEF RequestNext
      <3> QED
        BY ONLY <1>11, <3>1
    <2> QED
      BY <2>1, <2>2
  <1>14. shown' = FlattenSeq(AllWanted(TRUE, l, n))
    <2>1. n = m + 1
      BY <1>3
    <2>2. PICK t : t = TRUE
      OBVIOUS
    <2>3. Printing(t, l, n, s, w)
      <3>1. NextPart(t, l, m, n, s, w)
        BY ONLY <1>10, <1>12, <2>1, <2>2 DEF NextPart
      <3> QED
        BY ONLY <3>1, m \in Nat, WantedNext
    <2> QED
      BY ONLY <1>13, <2>2, <2>3 DEF Printing
  <1>15. KeepsRequest'
    <2>1. CASE LT!TaskMatches(l[n])
      BY <1>5, <1>8, <2>1 DEF KeepsRequest, RequestNext
    <2>2. CASE ~LT!TaskMatches(l[n]) /\ need /\ ~answers
      BY <1>5, <1>7, <1>8, <2>2 DEF KeepsRequest, RequestKept, RequestNext
    <2>3. CASE ~LT!TaskMatches(l[n]) /\ ~(need /\ ~answers)
      BY <1>5, <1>8, <2>3 DEF KeepsRequest, RequestNext
    <2> QED
      BY <2>1, <2>2, <2>3
  <1> QED
    BY <1>1, <1>5, <1>9, <1>14, <1>15 DEF LTInv

LEMMA LTNext ==
  ASSUME LTInv, LT!Next \/ UNCHANGED LT!ltVars
  PROVE  LTInv'
  <1>1. CASE UNCHANGED LT!ltVars
    BY <1>1, LTTyped DEF LTInv, KeepsRequest, LT!ltVars
  <1> QED
    BY <1>1, LTGrepLine, LTTaskLine DEF LT!Next

LEMMA LTPaired ==
  ASSUME LTInv
  PROVE  LT!TasksPaired
  <1>1. lineNumber \in Nat
    BY DEF LTInv, LT!TypeOK
  <1>2. ASSUME NEW k \in 1 .. lineNumber
        PROVE  LT!Wanted(k) = WantedIn(obtask, log, k)
    <2>1. \A r \in 1 .. k - 1 : LT!Answers(k, r) <=> Pending(log, r, k - 1) /\ TellsIn(log, k, r)
      BY DEF LT!Answers, Pending, TellsIn
    <2> QED
      BY <2>1 DEF LT!Wanted, WantedIn
  <1>3. [k \in 1 .. lineNumber |-> LT!Wanted(k)] = AllWanted(obtask, log, lineNumber)
    BY <1>2 DEF AllWanted
  <1>4. \A q : LT!FlattenSeq(q) = FlattenSeq(q)
    BY DEF LT!FlattenSeq, FlattenSeq
  <1> QED
    BY <1>3, <1>4 DEF LTInv, LT!TasksPaired

-----------------------------------------------------------------------------
(* The programs together                                                   *)

WorkersInv ==
  /\ program \in Programs
  /\ IInv /\ PCInv /\ WKInv /\ OVInv /\ SMInv /\ BTInv /\ GMInv
  /\ RAInv /\ LTInv /\ ARInv

LEMMA WorkersStart ==
  ASSUME WorkersInit
  PROVE  WorkersInv
  BY InitIInv, PCInit, WKInit, OVInit, SMInit, BTInit, GMInit,
     RAInit, LTInit, ARInit
     DEF WorkersInit, WorkersInv

(* A step is one of a single program, or leaves it as it is.               *)
LEMMA OneProgramMoves ==
  ASSUME [WorkersNext]_vars
  PROVE  /\ Next \/ UNCHANGED cvVars
         /\ PC!Next \/ UNCHANGED pcVars
         /\ WK!Next \/ UNCHANGED wkVars
         /\ OV!Next \/ UNCHANGED ovVars
         /\ SM!Next \/ UNCHANGED smVars
         /\ BT!Next \/ UNCHANGED btVars
         /\ GM!Next \/ UNCHANGED gmVars
         /\ RA!Next \/ UNCHANGED raVars
         /\ LT!Next \/ UNCHANGED ltVars
         /\ AR!Next \/ UNCHANGED arVars
         /\ program' = program
  BY DEF WorkersNext, Ending, vars, InCV, InPC, InWK, InOV, InSM, InBT, InGM, InRA, InLT, InAR

LEMMA WorkersStep ==
  ASSUME WorkersInv, [WorkersNext]_vars
  PROVE  WorkersInv'
  <1>1. IInv'
    BY OneProgramMoves, NextKeepsIInv DEF WorkersInv
  <1>2. PCInv'
    BY OneProgramMoves, PCNext, PCStutter DEF WorkersInv
  <1>3. WKInv'
    BY OneProgramMoves, WKNext, WKStutter DEF WorkersInv
  <1>4. OVInv'
    BY OneProgramMoves, OVNext, OVStutter DEF WorkersInv
  <1>5. RAInv'
    BY OneProgramMoves, RANext, RAStutter DEF WorkersInv
  <1>6. ARInv'
    BY OneProgramMoves, ARNext, ARStutter DEF WorkersInv
  <1>7. SMInv'
    BY OneProgramMoves, SMNext DEF WorkersInv, smVars, SM!smVars
  <1>8. BTInv'
    BY OneProgramMoves, BTNext DEF WorkersInv, btVars, BT!btVars
  <1>9. GMInv'
    BY OneProgramMoves, GMNext DEF WorkersInv, gmVars, GM!gmVars
  <1>10. LTInv'
    BY OneProgramMoves, LTNext DEF WorkersInv, ltVars, LT!ltVars
  <1>11. program' \in Programs
    BY OneProgramMoves DEF WorkersInv
  <1> QED
    BY <1>1, <1>2, <1>3, <1>4, <1>5, <1>6, <1>7, <1>8, <1>9, <1>10, <1>11 DEF WorkersInv

LEMMA WorkersInvariant == WorkersSpec => []WorkersInv
  <1>1. WorkersInit => WorkersInv
    BY WorkersStart
  <1>2. WorkersInv /\ [WorkersNext]_vars => WorkersInv'
    BY WorkersStep
  <1> QED
    BY <1>1, <1>2, PTL DEF WorkersSpec

(* The indexes stay in the array of QueueObjCV.cpp, whatever the threads   *)
(* do between two calls.                                                   *)
THEOREM CVTypeCorrect == WorkersSpec => []TypeOK
  <1>1. WorkersInv => TypeOK
    BY DEF WorkersInv, IInv
  <1> QED
    BY <1>1, WorkersInvariant, PTL

(* The state of every worker program stays within its type: no step takes  *)
(* an entry that is not in the tables of grepMT's main, a node or record   *)
(* that does not exist, or a position behind the end of a log or file.     *)
THEOREM WorkersTypeCorrect == WorkersSpec => []WorkersTypeOK
  <1>1. WorkersInv => WorkersTypeOK
    BY DEF WorkersInv, WorkersTypeOK, Programs, IInv, PCInv, WKInv, OVInv, SMInv, BTInv,
           GMInv, RAInv, LTInv, ARInv
  <1> QED
    BY <1>1, WorkersInvariant, PTL

(* WakeConditionVariable wakes one thread for each message put and each    *)
(* message taken, and that is enough: a thread is never left asleep in     *)
(* QueueGet for a message, or in QueuePut for room, that nobody is on its  *)
(* way to take.                                                            *)
THEOREM NoWakeUpLost == WorkersSpec => []SleepersWoken
  <1>1. WorkersInv => SleepersWoken
    BY DEF WorkersInv, IInv
  <1> QED
    BY <1>1, WorkersInvariant, PTL

(* simplePC accounts for every message modulo the size of a DWORD, however *)
(* often the counters wrap around; and the totals of the stats programs    *)
(* are the threads times their tasks, whatever the order of the threads.   *)
(* The header of RecordAccess's file differs from the number of records in *)
(* use by no more than one for each crash between the two writes, and one  *)
(* for each reference count that wrapped around, for any file and sequence *)
(* of commands and crashes.                                                *)
THEOREM CountsStayExact == WorkersSpec => []CountsExact
  <1>1. RAInv => RA!CountAfterCrash
    BY DEF RAInv, OffBy, RA!CountAfterCrash
  <1>2. WorkersInv => CountsExact
    BY <1>1, PCCounts DEF WorkersInv, WKInv, CountsExact
  <1> QED
    BY <1>2, WorkersInvariant, PTL

(* For any file, record and number of overlapped operations, completed in  *)
(* any order, cciOV and cciEX have shifted every byte exactly once and     *)
(* have nothing under way when they close the files; and splitf's reads    *)
(* leave no gap, and end at the end of the file.                           *)
THEOREM CopyStaysConverted == WorkersSpec => []CopyConverted
  <1>1. WorkersInv => CopyConverted
    BY OVConverted DEF WorkersInv, ARInv, CopyConverted
  <1> QED
    BY <1>1, WorkersInvariant, PTL

(* For any file and number of threads the records that sortMT holds are    *)
(* those of the file, and they are in order when it prints them, though    *)
(* main has waited for the first thread only: all have ended by then. No   *)
(* array is overrun where the records are divided into 2^k equal parts.    *)
(* For any list of files sortbt prints the records of each file that it    *)
(* reads to its end in order, those with the same key as in the file.      *)
THEOREM FilesStaySorted == WorkersSpec => []SortRight
  <1>1. WorkersInv => SortRight
    BY SMSorted DEF WorkersInv, BTInv, SortRight
  <1> QED
    BY <1>1, WorkersInvariant, PTL

(* For any command line grepMT prints each file with a matching line once, *)
(* under its own name and with the lines that match, in their order, in    *)
(* whatever order the threads end, though main moves the entries of its    *)
(* tables while they run; a search reports failure only where no line      *)
(* matches, and the temporary files of searches that were done are gone.   *)
(* For any log and patterns obtask prints each request that is answered    *)
(* with its answer, though it keeps one request only, and grep the lines   *)
(* that match.                                                             *)
THEOREM FilesReportedOnce == WorkersSpec => []GrepReports
  <1>1. GMInv => GM!GrepReports
    BY GMReported DEF GM!GrepReports
  <1>2. WorkersInv => GrepReports
    BY <1>1, LTPaired DEF WorkersInv, GrepReports
  <1> QED
    BY <1>2, WorkersInvariant, PTL
=============================================================================
