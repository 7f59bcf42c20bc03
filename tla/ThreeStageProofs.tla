-------------------------- MODULE ThreeStageProofs --------------------------
(***************************************************************************)
(* The pipeline of run10/ThreeStage.cpp loses, repeats and reorders        *)
(* nothing, whatever the number of producers, the goal, the size of the    *)
(* blocks and the lengths of the queues, and its stages leave when their   *)
(* input has ended.                                                        *)
(***************************************************************************)
EXTENDS ThreeStage, SequenceLemmas

-----------------------------------------------------------------------------
(* What the function in For is, up to a length.                            *)
IsFor(i, s, f, N) ==
  f = [n \in 0 .. N |-> IF n = 0 THEN <<>>
                        ELSE IF s[n].destination = i THEN Append(f[n - 1], s[n]) ELSE f[n - 1]]

LEMMA ForExists ==
  ASSUME NEW i, NEW s, NEW N \in Nat
  PROVE  \E f : IsFor(i, s, f, N)
  <1> DEFINE K == {n \in Nat : \E f : IsFor(i, s, f, n)}
  <1>1. 0 \in K
    <2>1. IsFor(i, s, [n \in 0 .. 0 |-> <<>>], 0)
      BY DEF IsFor
    <2> QED
      BY <2>1
  <1>2. ASSUME NEW n \in Nat, n \in K
        PROVE  n + 1 \in K
    <2>1. PICK f : IsFor(i, s, f, n)
      BY <1>2
    <2> DEFINE g == [k \in 0 .. n + 1 |->
                       IF k = n + 1
                       THEN IF s[n + 1].destination = i THEN Append(f[n], s[n + 1]) ELSE f[n]
                       ELSE f[k]]
    <2>2. IsFor(i, s, g, n + 1)
      <3> SUFFICES ASSUME NEW k \in 0 .. n + 1
                   PROVE  g[k] = IF k = 0 THEN <<>>
                                 ELSE IF s[k].destination = i
                                      THEN Append(g[k - 1], s[k]) ELSE g[k - 1]
        BY DEF IsFor
      <3>1. CASE k = n + 1
        BY <3>1
      <3>2. CASE k # n + 1
        <4>1. k \in 0 .. n /\ g[k] = f[k] /\ (k # 0 => g[k - 1] = f[k - 1])
          BY <3>2
        <4>2. f[k] = IF k = 0 THEN <<>>
                     ELSE IF s[k].destination = i
                          THEN Append(f[k - 1], s[k]) ELSE f[k - 1]
          BY <2>1, <4>1 DEF IsFor
        <4> QED
          BY <4>1, <4>2
      <3> QED
        BY <3>1, <3>2
    <2> QED
      BY <2>2
  <1> HIDE DEF K
  <1>3. Nat \subseteq K
    BY <1>1, <1>2, SetInduction
  <1> QED
    BY <1>3 DEF K

LEMMA ForStep ==
  ASSUME NEW i, NEW s, NEW N \in Nat, NEW f, IsFor(i, s, f, N)
  PROVE  \A n \in 0 .. N - 1 :
           f[n + 1] = IF s[n + 1].destination = i THEN Append(f[n], s[n + 1]) ELSE f[n]
  <1> TAKE n \in 0 .. N - 1
  <1> DEFINE k == n + 1
  <1>1. k \in 0 .. N /\ k # 0 /\ k - 1 = n
    OBVIOUS
  <1> HIDE DEF k
  <1>2. f[k] = IF s[k].destination = i THEN Append(f[k - 1], s[k]) ELSE f[k - 1]
    BY <1>1 DEF IsFor
  <1> QED
    BY <1>1, <1>2 DEF k

LEMMA ForIs ==
  ASSUME NEW i, NEW s, Len(s) \in Nat
  PROVE  \E f : IsFor(i, s, f, Len(s)) /\ For(i, s) = f[Len(s)]
  <1> DEFINE f == CHOOSE f : IsFor(i, s, f, Len(s))
  <1>1. IsFor(i, s, f, Len(s))
    BY ForExists
  <1>2. For(i, s) = f[Len(s)]
    BY DEF For, IsFor
  <1> QED
    BY <1>1, <1>2

LEMMA ForEmpty ==
  ASSUME NEW i
  PROVE  For(i, <<>>) = <<>>
  <1>1. Len(<<>>) = 0
    OBVIOUS
  <1>2. PICK f : IsFor(i, <<>>, f, 0) /\ For(i, <<>>) = f[0]
    BY <1>1, ForIs
  <1> QED
    BY <1>2 DEF IsFor

LEMMA ForAppend ==
  ASSUME NEW i, NEW S, NEW s \in Seq(S), NEW m \in S
  PROVE  For(i, Append(s, m)) = IF m.destination = i THEN Append(For(i, s), m) ELSE For(i, s)
  <1> DEFINE t == Append(s, m)
  <1>1. /\ Len(s) \in Nat /\ Len(t) = Len(s) + 1 /\ t[Len(s) + 1] = m
        /\ \A n \in 1 .. Len(s) : t[n] = s[n]
    BY AppendProperties, LenProperties
  <1> HIDE DEF t
  <1>2. PICK f : IsFor(i, s, f, Len(s)) /\ For(i, s) = f[Len(s)]
    BY <1>1, ForIs
  <1>3. PICK g : IsFor(i, t, g, Len(s) + 1) /\ For(i, t) = g[Len(s) + 1]
    BY <1>1, ForIs
  <1>4. \A n \in 0 .. Len(s) - 1 :
          f[n + 1] = IF s[n + 1].destination = i THEN Append(f[n], s[n + 1]) ELSE f[n]
    BY <1>1, <1>2, ForStep
  <1>5. \A n \in 0 .. Len(s) :
          g[n + 1] = IF t[n + 1].destination = i THEN Append(g[n], t[n + 1]) ELSE g[n]
    <2> DEFINE N == Len(s) + 1
    <2>1. N \in Nat /\ IsFor(i, t, g, N) /\ 0 .. N - 1 = 0 .. Len(s)
      BY <1>1, <1>3
    <2> HIDE DEF N
    <2> QED
      BY <2>1, ForStep
  <1> DEFINE K == {n \in Nat : n <= Len(s) => g[n] = f[n]}
  <1>6. 0 \in K
    BY <1>1, <1>2, <1>3 DEF IsFor
  <1>7. ASSUME NEW n \in Nat, n \in K
        PROVE  n + 1 \in K
    <2> SUFFICES ASSUME n + 1 <= Len(s)
                 PROVE  g[n + 1] = f[n + 1]
      OBVIOUS
    <2>1. n \in 0 .. Len(s) - 1 /\ t[n + 1] = s[n + 1] /\ g[n] = f[n]
      BY <1>1, <1>7
    <2>2. n \in 0 .. Len(s)
      BY <1>1, <2>1
    <2>3. f[n + 1] = IF s[n + 1].destination = i THEN Append(f[n], s[n + 1]) ELSE f[n]
      BY <1>4, <2>1
    <2>4. g[n + 1] = IF t[n + 1].destination = i THEN Append(g[n], t[n + 1]) ELSE g[n]
      BY <1>5, <2>2
    <2> QED
      BY <2>1, <2>3, <2>4
  <1>8. g[Len(s)] = f[Len(s)]
    <2> HIDE DEF K
    <2>1. Nat \subseteq K
      BY <1>6, <1>7, SetInduction
    <2> QED
      BY <1>1, <2>1 DEF K
  <1>9. g[Len(s) + 1] = IF m.destination = i THEN Append(g[Len(s)], m) ELSE g[Len(s)]
    BY <1>1, <1>5
  <1> QED
    BY <1>2, <1>3, <1>8, <1>9 DEF t

LEMMA ForSequence ==
  ASSUME NEW i, NEW S, NEW s \in Seq(S)
  PROVE  For(i, s) \in Seq({m \in S : m.destination = i})
  <1> DEFINE T == {m \in S : m.destination = i}
             P == {t \in Seq(S) : For(i, t) \in Seq(T)}
  <1>1. <<>> \in P
    BY ForEmpty, EmptySeq
  <1>2. ASSUME NEW t \in Seq(S), NEW m \in S, t \in P
        PROVE  Append(t, m) \in P
    <2>1. For(i, Append(t, m)) = IF m.destination = i THEN Append(For(i, t), m) ELSE For(i, t)
      BY ForAppend
    <2>2. m.destination = i => m \in T
      OBVIOUS
    <2>3. For(i, t) \in Seq(T) /\ Append(t, m) \in Seq(S)
      BY <1>2
    <2> HIDE DEF T
    <2> QED
      BY <2>1, <2>2, <2>3
  <1> HIDE DEF P
  <1>3. Seq(S) \subseteq P
    BY <1>1, <1>2, SequenceInduction
  <1> QED
    BY <1>3 DEF P

LEMMA ForInSeq ==
  ASSUME NEW i, NEW S, NEW s \in Seq(S)
  PROVE  For(i, s) \in Seq(S)
  <1> DEFINE T == {m \in S : m.destination = i}
  <1>1. For(i, s) \in Seq(T) /\ T \subseteq S
    BY ForSequence
  <1> HIDE DEF T
  <1> QED
    BY <1>1, SeqMonotonic

LEMMA ForConcat ==
  ASSUME NEW i, NEW S, NEW s \in Seq(S), NEW t \in Seq(S)
  PROVE  For(i, s \o t) = For(i, s) \o For(i, t)
  <1> DEFINE P == {u \in Seq(S) : For(i, s \o u) = For(i, s) \o For(i, u)}
  <1>0. For(i, s) \in Seq(S)
    BY ForInSeq
  <1>1. <<>> \in P
    BY <1>0, ForEmpty, EmptySeq, ConcatEmptySeq
  <1>2. ASSUME NEW u \in Seq(S), NEW m \in S, u \in P
        PROVE  Append(u, m) \in P
    <2>1. s \o u \in Seq(S) /\ For(i, u) \in Seq(S) /\ Append(u, m) \in Seq(S)
      BY ForInSeq
    <2>2. s \o Append(u, m) = Append(s \o u, m)
      OBVIOUS
    <2>3. For(i, s) \o Append(For(i, u), m) = Append(For(i, s) \o For(i, u), m)
      BY <1>0, <2>1
    <2>4. For(i, s \o u) = For(i, s) \o For(i, u)
      BY <1>2
    <2>5. For(i, s \o Append(u, m)) = For(i, s) \o For(i, Append(u, m))
      <3>1. For(i, Append(s \o u, m)) = IF m.destination = i THEN Append(For(i, s \o u), m)
                                        ELSE For(i, s \o u)
        <4>1. PICK w \in Seq(S) : w = s \o u
          BY <2>1
        <4>2. For(i, Append(w, m)) = IF m.destination = i THEN Append(For(i, w), m) ELSE For(i, w)
          BY ForAppend
        <4> QED
          BY <4>1, <4>2
      <3>2. For(i, Append(u, m)) = IF m.destination = i THEN Append(For(i, u), m) ELSE For(i, u)
        BY ForAppend
      <3> QED
        BY <2>2, <2>3, <2>4, <3>1, <3>2
    <2> QED
      BY <2>1, <2>5
  <1> HIDE DEF P
  <1>3. Seq(S) \subseteq P
    BY <1>1, <1>2, SequenceInduction
  <1> QED
    BY <1>3 DEF P

-----------------------------------------------------------------------------
EndOf(i) == Message(i, EndMark)

ProducerPcs == [Ids -> {"running", "exited"}]

(* In s the end message of a producer is the last of its messages, comes   *)
(* when the producer has ended, and is not missing then.                   *)
Closed(s, pc) ==
  \A k \in 1 .. Len(s) :
    /\ s[k] = EndOf(s[k].destination) =>
         /\ pc[s[k].destination] = "exited"
         /\ \A j \in k + 1 .. Len(s) : s[j].destination # s[k].destination
    /\ pc[s[k].destination] = "exited" =>
         \E j \in k .. Len(s) : s[j] = EndOf(s[k].destination)

(* The producers whose end message has not yet come out of s.              *)
Unfinished(s, pc) ==
  {i \in Ids : pc[i] = "running" \/ \E k \in 1 .. Len(s) : s[k] = EndOf(i)}

LEMMA MsgShape ==
  ASSUME NEW m \in Msg
  PROVE  /\ m.destination \in Ids
         /\ m.sequence < 0 <=> m = EndOf(m.destination)
         /\ \A i : m = EndOf(i) => m.destination = i
  BY PipelineAssumption DEF Msg, EndOf, Message, EndMark

LEMMA EndIsMsg ==
  ASSUME NEW i \in Ids
  PROVE  EndOf(i) \in Msg /\ EndOf(i).destination = i /\ EndOf(i).sequence < 0
  BY PipelineAssumption DEF Msg, EndOf, Message, EndMark

LEMMA ClosedEmpty ==
  ASSUME NEW pc, \A i \in Ids : pc[i] = "running"
  PROVE  Closed(<<>>, pc) /\ Unfinished(<<>>, pc) = Ids
  BY DEF Closed, Unfinished

LEMMA UnfinishedFinite ==
  ASSUME NEW s, NEW pc
  PROVE  /\ IsFiniteSet(Unfinished(s, pc))
         /\ Cardinality(Unfinished(s, pc)) \in 0 .. NProducers
         /\ Cardinality(Unfinished(s, pc)) = 0 <=> Unfinished(s, pc) = {}
  <1>1. Unfinished(s, pc) \subseteq Ids
    BY DEF Unfinished
  <1> QED
    BY <1>1, PipelineAssumption, FS_Subset, FS_CardinalityType, FS_EmptySet DEF NProducers

(* A message taken out of s.                                               *)
LEMMA ClosedTail ==
  ASSUME NEW s \in Seq(Msg), s # <<>>, NEW pc, Closed(s, pc)
  PROVE  /\ Closed(Tail(s), pc)
         /\ Cardinality(Unfinished(Tail(s), pc))
              = LeftAfter(Cardinality(Unfinished(s, pc)), Head(s))
  <1> DEFINE t == Tail(s)
             m == Head(s)
  <1>1. /\ t \in Seq(Msg) /\ Len(s) \in Nat \ {0} /\ Len(t) = Len(s) - 1 /\ Len(t) \in Nat
        /\ m = s[1] /\ m \in Msg
        /\ \A k \in 1 .. Len(t) : t[k] = s[k + 1]
    BY HeadTailProperties, EmptySeq, LenProperties
  <1>2. \A k \in 1 .. Len(s) : s[k] \in Msg
    BY ElementOfSeq
  <1> HIDE DEF t, m
  <1>3. Closed(t, pc)
    <2> SUFFICES ASSUME NEW k \in 1 .. Len(t)
                 PROVE  /\ t[k] = EndOf(t[k].destination) =>
                             /\ pc[t[k].destination] = "exited"
                             /\ \A j \in k + 1 .. Len(t) : t[j].destination # t[k].destination
                        /\ pc[t[k].destination] = "exited" =>
                             \E j \in k .. Len(t) : t[j] = EndOf(t[k].destination)
      BY DEF Closed
    <2> DEFINE l == k + 1
    <2>1. l \in 1 .. Len(s) /\ t[k] = s[l]
      BY <1>1
    <2> HIDE DEF l
    <2>2. /\ s[l] = EndOf(s[l].destination) =>
               /\ pc[s[l].destination] = "exited"
               /\ \A j \in l + 1 .. Len(s) : s[j].destination # s[l].destination
          /\ pc[s[l].destination] = "exited" =>
               \E j \in l .. Len(s) : s[j] = EndOf(s[l].destination)
      BY <2>1 DEF Closed
    <2>3. ASSUME NEW j \in k + 1 .. Len(t)
          PROVE  j + 1 \in l + 1 .. Len(s) /\ t[j] = s[j + 1]
      BY <1>1 DEF l
    <2>4. ASSUME NEW j \in l .. Len(s)
          PROVE  j - 1 \in k .. Len(t) /\ t[j - 1] = s[j]
      <3>1. j - 1 \in k .. Len(t) /\ j - 1 \in 1 .. Len(t) /\ (j - 1) + 1 = j
        BY <1>1 DEF l
      <3> QED
        BY <1>1, <3>1
    <2> QED
      BY <2>1, <2>2, <2>3, <2>4
  <1>4. CASE m.sequence < 0
    <2> DEFINE d == m.destination
    <2>1. d \in Ids /\ s[1] = EndOf(d) /\ 1 \in 1 .. Len(s)
      BY <1>1, <1>4, MsgShape
    <2>2. pc[d] = "exited" /\ \A j \in 2 .. Len(s) : s[j].destination # d
      <3>1. d = s[1].destination /\ 1 + 1 .. Len(s) = 2 .. Len(s)
        BY <1>1
      <3> HIDE DEF d
      <3> QED
        BY <2>1, <3>1 DEF Closed
    <2>3. Unfinished(t, pc) = Unfinished(s, pc) \ {d}
      <3>1. ASSUME NEW i \in Ids, i # d
            PROVE  (\E k \in 1 .. Len(t) : t[k] = EndOf(i)) <=> (\E k \in 1 .. Len(s) : s[k] = EndOf(i))
        <4>1. ASSUME NEW k \in 1 .. Len(t), t[k] = EndOf(i)
              PROVE  \E l \in 1 .. Len(s) : s[l] = EndOf(i)
          <5>1. k + 1 \in 1 .. Len(s) /\ s[k + 1] = EndOf(i)
            BY <1>1, <4>1
          <5> QED
            BY <5>1
        <4>2. ASSUME NEW k \in 1 .. Len(s), s[k] = EndOf(i)
              PROVE  \E l \in 1 .. Len(t) : t[l] = EndOf(i)
          <5>1. k # 1
            BY <2>1, <3>1, <4>2, EndIsMsg
          <5>2. k - 1 \in 1 .. Len(t) /\ (k - 1) + 1 = k
            BY <1>1, <5>1
          <5> QED
            BY <1>1, <4>2, <5>2
        <4> QED
          BY <4>1, <4>2
      <3>2. d \notin Unfinished(t, pc)
        <4>1. ASSUME NEW k \in 1 .. Len(t)
              PROVE  t[k] # EndOf(d)
          <5>1. k + 1 \in 2 .. Len(s) /\ t[k] = s[k + 1]
            BY <1>1
          <5> QED
            BY <2>1, <2>2, <5>1, EndIsMsg
        <4> QED
          BY <2>2, <4>1 DEF Unfinished
      <3> QED
        BY <3>1, <3>2 DEF Unfinished
    <2>4. d \in Unfinished(s, pc)
      BY <2>1 DEF Unfinished
    <2>5. Cardinality(Unfinished(t, pc)) = Cardinality(Unfinished(s, pc)) - 1
      BY <2>3, <2>4, UnfinishedFinite, FS_RemoveElement
    <2> QED
      BY <1>3, <1>4, <2>5 DEF LeftAfter, t, m
  <1>5. CASE ~(m.sequence < 0)
    <2>1. \A i : s[1] # EndOf(i)
      BY <1>1, <1>5, MsgShape
    <2>2. ASSUME NEW i \in Ids
          PROVE  (\E k \in 1 .. Len(t) : t[k] = EndOf(i)) <=> (\E k \in 1 .. Len(s) : s[k] = EndOf(i))
      <3>1. ASSUME NEW k \in 1 .. Len(t), t[k] = EndOf(i)
            PROVE  \E l \in 1 .. Len(s) : s[l] = EndOf(i)
        <4>1. k + 1 \in 1 .. Len(s) /\ s[k + 1] = EndOf(i)
          BY <1>1, <3>1
        <4> QED
          BY <4>1
      <3>2. ASSUME NEW k \in 1 .. Len(s), s[k] = EndOf(i)
            PROVE  \E l \in 1 .. Len(t) : t[l] = EndOf(i)
        <4>1. k # 1
          BY <2>1, <3>2
        <4>2. k - 1 \in 1 .. Len(t) /\ (k - 1) + 1 = k
          BY <1>1, <4>1
        <4> QED
          BY <1>1, <3>2, <4>2
      <3> QED
        BY <3>1, <3>2
    <2>3. Unfinished(t, pc) = Unfinished(s, pc)
      BY <2>2 DEF Unfinished
    <2> QED
      BY <1>3, <1>5, <2>3 DEF LeftAfter, t, m
  <1> QED
    BY <1>4, <1>5

LEMMA ClosedSuffix ==
  ASSUME NEW s \in Seq(Msg), NEW t \in Seq(Msg), NEW pc, Closed(s \o t, pc)
  PROVE  Closed(t, pc)
  <1> DEFINE u == s \o t
             N == Len(s)
  <1>1. /\ N \in Nat /\ Len(t) \in Nat /\ Len(u) = N + Len(t)
        /\ \A k \in 1 .. Len(t) : u[k + N] = t[k]
    BY ConcatProperties, LenProperties
  <1> HIDE DEF u, N
  <1>2. Closed(u, pc)
    BY DEF u
  <1> SUFFICES ASSUME NEW k \in 1 .. Len(t)
               PROVE  /\ t[k] = EndOf(t[k].destination) =>
                           /\ pc[t[k].destination] = "exited"
                           /\ \A j \in k + 1 .. Len(t) : t[j].destination # t[k].destination
                      /\ pc[t[k].destination] = "exited" =>
                           \E j \in k .. Len(t) : t[j] = EndOf(t[k].destination)
    BY DEF Closed
  <1> DEFINE l == k + N
  <1>3. l \in 1 .. Len(u) /\ t[k] = u[l]
    BY <1>1
  <1> HIDE DEF l
  <1>4. /\ u[l] = EndOf(u[l].destination) =>
             /\ pc[u[l].destination] = "exited"
             /\ \A j \in l + 1 .. Len(u) : u[j].destination # u[l].destination
        /\ pc[u[l].destination] = "exited" =>
             \E j \in l .. Len(u) : u[j] = EndOf(u[l].destination)
    BY <1>2, <1>3 DEF Closed
  <1>5. ASSUME NEW j \in k + 1 .. Len(t)
        PROVE  j + N \in l + 1 .. Len(u) /\ t[j] = u[j + N]
    BY <1>1 DEF l
  <1>6. ASSUME NEW j \in l .. Len(u)
        PROVE  j - N \in k .. Len(t) /\ t[j - N] = u[j]
    <2>1. j - N \in k .. Len(t) /\ j - N \in 1 .. Len(t) /\ (j - N) + N = j
      BY <1>1 DEF l
    <2> QED
      BY <1>1, <2>1
  <1> QED
    BY <1>3, <1>4, <1>5, <1>6

(* A unit put by a producer.                                               *)
LEMMA ClosedProduce ==
  ASSUME NEW s \in Seq(Msg), NEW pc, Closed(s, pc),
         NEW i \in Ids, pc[i] = "running", NEW n \in 0 .. Goal - 1
  PROVE  /\ Closed(Append(s, Message(i, n)), pc)
         /\ Unfinished(Append(s, Message(i, n)), pc) = Unfinished(s, pc)
  <1> DEFINE m == Message(i, n)
             t == Append(s, m)
  <1>0. m \in Msg /\ m.destination = i /\ ~(m.sequence < 0)
    BY PipelineAssumption DEF Message, Msg, EndMark
  <1>1. /\ Len(s) \in Nat /\ Len(t) = Len(s) + 1 /\ t[Len(t)] = m
        /\ \A k \in 1 .. Len(s) : t[k] = s[k] /\ s[k] \in Msg
    BY <1>0, AppendProperties, LenProperties, ElementOfSeq
  <1>2. \A j : m # EndOf(j)
    BY <1>0, MsgShape
  <1> HIDE DEF t, m
  <1>3. Closed(t, pc)
    <2> SUFFICES ASSUME NEW k \in 1 .. Len(t)
                 PROVE  /\ t[k] = EndOf(t[k].destination) =>
                             /\ pc[t[k].destination] = "exited"
                             /\ \A j \in k + 1 .. Len(t) : t[j].destination # t[k].destination
                        /\ pc[t[k].destination] = "exited" =>
                             \E j \in k .. Len(t) : t[j] = EndOf(t[k].destination)
      BY DEF Closed
    <2>1. CASE k = Len(t)
      BY <1>0, <1>1, <1>2, <2>1
    <2>2. CASE k # Len(t)
      <3>1. k \in 1 .. Len(s) /\ t[k] = s[k]
        BY <1>1, <2>2
      <3>2. /\ s[k] = EndOf(s[k].destination) =>
                 /\ pc[s[k].destination] = "exited"
                 /\ \A j \in k + 1 .. Len(s) : s[j].destination # s[k].destination
            /\ pc[s[k].destination] = "exited" =>
                 \E j \in k .. Len(s) : s[j] = EndOf(s[k].destination)
        BY <3>1 DEF Closed
      <3>3. \A j \in k .. Len(s) : j \in k .. Len(t) /\ t[j] = s[j]
        BY <1>1, <3>1
      <3>4. ASSUME NEW j \in k + 1 .. Len(t), pc[s[k].destination] = "exited",
                   \A l \in k + 1 .. Len(s) : s[l].destination # s[k].destination
            PROVE  t[j].destination # s[k].destination
        <4>1. CASE j = Len(t)
          BY <1>0, <1>1, <3>4, <4>1
        <4>2. CASE j # Len(t)
          <5>1. j \in k + 1 .. Len(s) /\ j \in k .. Len(s)
            BY <1>1, <3>1, <4>2
          <5> QED
            BY <3>3, <3>4, <5>1
        <4> QED
          BY <4>1, <4>2
      <3> QED
        BY <3>1, <3>2, <3>3, <3>4
    <2> QED
      BY <2>1, <2>2
  <1>4. ASSUME NEW j \in Ids
        PROVE  (\E k \in 1 .. Len(t) : t[k] = EndOf(j)) <=> (\E k \in 1 .. Len(s) : s[k] = EndOf(j))
    BY <1>1, <1>2
  <1>5. Unfinished(t, pc) = Unfinished(s, pc)
    BY <1>4 DEF Unfinished
  <1> QED
    BY <1>3, <1>5 DEF t, m

(* The end message put by a producer.                                      *)
LEMMA ClosedProduceEnd ==
  ASSUME NEW s \in Seq(Msg), NEW pc \in ProducerPcs, Closed(s, pc),
         NEW i \in Ids, pc[i] = "running"
  PROVE  /\ Closed(Append(s, EndOf(i)), [pc EXCEPT ![i] = "exited"])
         /\ Unfinished(Append(s, EndOf(i)), [pc EXCEPT ![i] = "exited"]) = Unfinished(s, pc)
  <1> DEFINE m == EndOf(i)
             t == Append(s, m)
             qc == [pc EXCEPT ![i] = "exited"]
  <1>0. m \in Msg /\ m.destination = i
    BY EndIsMsg
  <1>1. /\ Len(s) \in Nat /\ Len(t) = Len(s) + 1 /\ t[Len(t)] = m
        /\ \A k \in 1 .. Len(s) : t[k] = s[k] /\ s[k] \in Msg
    BY <1>0, AppendProperties, LenProperties, ElementOfSeq
  <1>2. qc[i] = "exited" /\ \A j \in Ids : j # i => qc[j] = pc[j]
    BY DEF ProducerPcs
  <1> HIDE DEF t, qc
  <1>3. Closed(t, qc)
    <2> SUFFICES ASSUME NEW k \in 1 .. Len(t)
                 PROVE  /\ t[k] = EndOf(t[k].destination) =>
                             /\ qc[t[k].destination] = "exited"
                             /\ \A j \in k + 1 .. Len(t) : t[j].destination # t[k].destination
                        /\ qc[t[k].destination] = "exited" =>
                             \E j \in k .. Len(t) : t[j] = EndOf(t[k].destination)
      BY DEF Closed
    <2>1. CASE k = Len(t)
      BY <1>0, <1>1, <1>2, <2>1
    <2>2. CASE k # Len(t)
      <3>1. k \in 1 .. Len(s) /\ t[k] = s[k] /\ s[k].destination \in Ids
        BY <1>1, <2>2, MsgShape
      <3>2. /\ s[k] = EndOf(s[k].destination) =>
                 /\ pc[s[k].destination] = "exited"
                 /\ \A j \in k + 1 .. Len(s) : s[j].destination # s[k].destination
            /\ pc[s[k].destination] = "exited" =>
                 \E j \in k .. Len(s) : s[j] = EndOf(s[k].destination)
        BY <3>1 DEF Closed
      <3>3. \A j \in k .. Len(s) : j \in k .. Len(t) /\ t[j] = s[j]
        BY <1>1, <3>1
      <3>4. CASE s[k].destination = i
        <4>1. Len(t) \in k .. Len(t) /\ s[k] # EndOf(i)
          BY <1>1, <3>1, <3>2, <3>4
        <4> QED
          BY <1>1, <3>1, <3>4, <4>1
      <3>5. CASE s[k].destination # i
        <4>1. qc[s[k].destination] = pc[s[k].destination]
          BY <1>2, <3>1, <3>5
        <4>2. ASSUME NEW j \in k + 1 .. Len(t),
                     \A l \in k + 1 .. Len(s) : s[l].destination # s[k].destination
              PROVE  t[j].destination # s[k].destination
          <5>1. CASE j = Len(t)
            BY <1>0, <1>1, <3>5, <5>1
          <5>2. CASE j # Len(t)
            <6>1. j \in k + 1 .. Len(s) /\ j \in k .. Len(s)
              BY <1>1, <3>1, <5>2
            <6> QED
              BY <3>3, <4>2, <6>1
          <5> QED
            BY <5>1, <5>2
        <4> QED
          BY <3>1, <3>2, <3>3, <4>1, <4>2
      <3> QED
        BY <3>4, <3>5
    <2> QED
      BY <2>1, <2>2
  <1>4. ASSUME NEW j \in Ids, j # i
        PROVE  (\E k \in 1 .. Len(t) : t[k] = EndOf(j)) <=> (\E k \in 1 .. Len(s) : s[k] = EndOf(j))
    <2>1. m # EndOf(j)
      BY <1>0, <1>4, MsgShape
    <2> HIDE DEF m
    <2> QED
      BY <1>1, <2>1
  <1>5. Len(t) \in 1 .. Len(t) /\ t[Len(t)] = EndOf(i)
    BY <1>1
  <1>6. Unfinished(t, qc) = Unfinished(s, pc)
    BY <1>2, <1>4, <1>5 DEF Unfinished
  <1> QED
    BY <1>3, <1>6 DEF t, qc

(* Nothing follows the last end message.                                   *)
LEMMA ClosedDrained ==
  ASSUME NEW s \in Seq(Msg), NEW pc \in ProducerPcs, Closed(s, pc),
         Cardinality(Unfinished(s, pc)) = 0
  PROVE  s = <<>> /\ \A i \in Ids : pc[i] = "exited"
  <1>1. Unfinished(s, pc) = {}
    BY UnfinishedFinite
  <1>2. \A i \in Ids : pc[i] = "exited"
    BY <1>1 DEF Unfinished, ProducerPcs
  <1>3. ASSUME s # <<>>
        PROVE  FALSE
    <2>1. Len(s) \in Nat \ {0} /\ s[1] \in Msg
      BY <1>3, EmptySeq, ElementOfSeq
    <2>2. s[1].destination \in Ids
      BY <2>1, MsgShape
    <2>3. PICK j \in 1 .. Len(s) : s[j] = EndOf(s[1].destination)
      BY <1>2, <2>1, <2>2 DEF Closed
    <2> QED
      BY <1>1, <2>2, <2>3 DEF Unfinished
  <1> QED
    BY <1>2, <1>3

-----------------------------------------------------------------------------
(* All that is between the producers and the consumers' queues: the rest   *)
(* of a block, the blocks, the block being filled and the messages.        *)
StreamOf(rb, q, tb, p) == rb \o FlattenSeq(q) \o tb \o p

LEMMA StreamInSeq ==
  ASSUME NEW rb \in Seq(Msg), NEW q \in Seq(Seq(Msg)), NEW tb \in Seq(Msg), NEW p \in Seq(Msg)
  PROVE  /\ StreamOf(rb, q, tb, p) \in Seq(Msg)
         /\ \E u \in Seq(Msg) : StreamOf(rb, q, tb, p) = u \o p
  <1>1. FlattenSeq(q) \in Seq(Msg)
    BY FlattenInSeq
  <1>2. rb \o FlattenSeq(q) \in Seq(Msg)
    BY <1>1, ConcatProperties
  <1>3. rb \o FlattenSeq(q) \o tb \in Seq(Msg)
    BY <1>2, ConcatProperties
  <1> QED
    BY <1>3, ConcatProperties DEF StreamOf

(* An empty stream is empty everywhere but in the list of blocks, where it *)
(* could hold empty blocks.                                                *)
LEMMA StreamEmpty ==
  ASSUME NEW rb \in Seq(Msg), NEW q \in Seq(Seq(Msg)), NEW tb \in Seq(Msg), NEW p \in Seq(Msg),
         StreamOf(rb, q, tb, p) = <<>>
  PROVE  rb = <<>> /\ FlattenSeq(q) = <<>> /\ tb = <<>> /\ p = <<>>
  <1>1. FlattenSeq(q) \in Seq(Msg)
    BY FlattenInSeq
  <1>2. rb \o FlattenSeq(q) \in Seq(Msg)
    BY <1>1, ConcatProperties
  <1>3. rb \o FlattenSeq(q) \o tb \in Seq(Msg)
    BY <1>2, ConcatProperties
  <1>4. rb \o FlattenSeq(q) \o tb = <<>> /\ p = <<>>
    BY <1>3, ConcatEqualIffEmpty DEF StreamOf
  <1>5. rb \o FlattenSeq(q) = <<>> /\ tb = <<>>
    BY <1>2, <1>4, ConcatEqualIffEmpty
  <1> QED
    BY <1>1, <1>4, <1>5, ConcatEqualIffEmpty

(* The transmitter moves a message into its block.                         *)
LEMMA StreamMove ==
  ASSUME NEW rb \in Seq(Msg), NEW q \in Seq(Seq(Msg)), NEW tb \in Seq(Msg),
         NEW p \in Seq(Msg), p # <<>>
  PROVE  StreamOf(rb, q, Append(tb, Head(p)), Tail(p)) = StreamOf(rb, q, tb, p)
  <1> DEFINE v == rb \o FlattenSeq(q)
             m == Head(p)
             t == Tail(p)
  <1>1. v \in Seq(Msg)
    BY FlattenInSeq, ConcatProperties
  <1>2. m \in Msg /\ t \in Seq(Msg) /\ p = <<m>> \o t /\ <<m>> \in Seq(Msg)
    BY HeadTailProperties
  <1>3. StreamOf(rb, q, tb, p) = (v \o tb) \o p /\ StreamOf(rb, q, Append(tb, m), t) = (v \o Append(tb, m)) \o t
    BY DEF StreamOf
  <1> HIDE DEF v, m, t
  <1>4. Append(tb, m) = tb \o <<m>>
    BY <1>2, AppendIsConcat
  <1>5. v \o (tb \o <<m>>) = (v \o tb) \o <<m>>
    BY <1>1, <1>2, ConcatAssociative
  <1>6. v \o tb \in Seq(Msg)
    BY <1>1, ConcatProperties
  <1>7. ((v \o tb) \o <<m>>) \o t = (v \o tb) \o (<<m>> \o t)
    BY <1>2, <1>6, ConcatAssociative
  <1>8. StreamOf(rb, q, Append(tb, m), t) = StreamOf(rb, q, tb, p)
    BY <1>2, <1>3, <1>4, <1>5, <1>7
  <1> QED
    BY <1>8 DEF m, t

(* The transmitter puts its block.                                         *)
LEMMA StreamPut ==
  ASSUME NEW rb \in Seq(Msg), NEW q \in Seq(Seq(Msg)), NEW tb \in Seq(Msg), NEW p \in Seq(Msg)
  PROVE  StreamOf(rb, Append(q, tb), <<>>, p) = StreamOf(rb, q, tb, p)
  <1> DEFINE f == FlattenSeq(q)
  <1>1. f \in Seq(Msg) /\ FlattenSeq(Append(q, tb)) = f \o tb
    BY FlattenInSeq, FlattenAppend
  <1>2. StreamOf(rb, q, tb, p) = ((rb \o f) \o tb) \o p
    BY DEF StreamOf
  <1>3. StreamOf(rb, Append(q, tb), <<>>, p) = ((rb \o (f \o tb)) \o <<>>) \o p
    BY <1>1 DEF StreamOf
  <1> HIDE DEF f
  <1>4. f \o tb \in Seq(Msg) /\ rb \o (f \o tb) = (rb \o f) \o tb
    <2>1. f \o tb \in Seq(Msg)
      BY <1>1, ConcatProperties
    <2>2. rb \in Seq(Msg) /\ f \in Seq(Msg) /\ tb \in Seq(Msg)
      BY <1>1
    <2>3. (rb \o f) \o tb = rb \o (f \o tb)
      <3>1. Grouped(rb, f, tb)
        BY ONLY <2>2, Regroup
      <3> QED
        BY ONLY <3>1 DEF Grouped
    <2> QED
      BY <2>1, <2>3
  <1>5. rb \o (f \o tb) \in Seq(Msg)
    BY <1>4, ConcatProperties
  <1>6. (rb \o (f \o tb)) \o <<>> = rb \o (f \o tb)
    BY <1>5, ConcatEmptySeq
  <1> QED
    BY <1>2, <1>3, <1>4, <1>6

(* The receiver gets a block.                                              *)
LEMMA StreamGet ==
  ASSUME NEW q \in Seq(Seq(Msg)), q # <<>>, NEW tb \in Seq(Msg), NEW p \in Seq(Msg)
  PROVE  StreamOf(Head(q), Tail(q), tb, p) = StreamOf(<<>>, q, tb, p)
  <1>1. FlattenSeq(q) \in Seq(Msg) /\ FlattenSeq(q) = Head(q) \o FlattenSeq(Tail(q))
    BY FlattenInSeq, FlattenHeadTail
  <1>2. <<>> \o FlattenSeq(q) = FlattenSeq(q)
    BY <1>1, ConcatEmptySeq
  <1> QED
    BY <1>1, <1>2 DEF StreamOf

(* The receiver takes a message out of its block.                          *)
LEMMA StreamTail ==
  ASSUME NEW rb \in Seq(Msg), rb # <<>>, NEW q \in Seq(Seq(Msg)), NEW tb \in Seq(Msg),
         NEW p \in Seq(Msg)
  PROVE  /\ StreamOf(rb, q, tb, p) # <<>>
         /\ Head(StreamOf(rb, q, tb, p)) = Head(rb)
         /\ Tail(StreamOf(rb, q, tb, p)) = StreamOf(Tail(rb), q, tb, p)
  <1> DEFINE f == FlattenSeq(q)
             m == Head(rb)
             t == Tail(rb)
             w == StreamOf(t, q, tb, p)
  <1>1. m \in Msg /\ t \in Seq(Msg) /\ rb = <<m>> \o t /\ <<m>> \in Seq(Msg) /\ f \in Seq(Msg)
    BY HeadTailProperties, FlattenInSeq
  <1>2. w \in Seq(Msg)
    BY <1>1, StreamInSeq
  <1>3. w = ((t \o f) \o tb) \o p /\ StreamOf(rb, q, tb, p) = ((rb \o f) \o tb) \o p
    BY DEF StreamOf
  <1> HIDE DEF f, m, t, w
  <1>4. (<<m>> \o t) \o f = <<m>> \o (t \o f) /\ t \o f \in Seq(Msg)
    BY <1>1, ConcatAssociative, ConcatProperties
  <1>5. (<<m>> \o (t \o f)) \o tb = <<m>> \o ((t \o f) \o tb) /\ (t \o f) \o tb \in Seq(Msg)
    BY <1>1, <1>4, ConcatAssociative, ConcatProperties
  <1>6. (<<m>> \o ((t \o f) \o tb)) \o p = <<m>> \o (((t \o f) \o tb) \o p)
    <2> DEFINE g == (t \o f) \o tb
    <2>1. g \in Seq(Msg)
      BY <1>5
    <2> HIDE DEF g
    <2>2. (<<m>> \o g) \o p = <<m>> \o (g \o p)
      BY <1>1, <2>1, ConcatAssociative
    <2> QED
      BY <2>2 DEF g
  <1>7. StreamOf(rb, q, tb, p) = <<m>> \o w
    BY <1>1, <1>3, <1>4, <1>5, <1>6
  <1>8. <<m>> \o w # <<>> /\ Head(<<m>> \o w) = m /\ Tail(<<m>> \o w) = w
    BY <1>1, <1>2
  <1> QED
    BY <1>7, <1>8 DEF m, t, w

(* A producer puts a message.                                              *)
LEMMA StreamAppend ==
  ASSUME NEW rb \in Seq(Msg), NEW q \in Seq(Seq(Msg)), NEW tb \in Seq(Msg),
         NEW p \in Seq(Msg), NEW m \in Msg
  PROVE  StreamOf(rb, q, tb, Append(p, m)) = Append(StreamOf(rb, q, tb, p), m)
  <1> DEFINE u == rb \o FlattenSeq(q) \o tb
  <1>1. u \in Seq(Msg)
    BY FlattenInSeq, ConcatProperties
  <1>2. StreamOf(rb, q, tb, p) = u \o p /\ StreamOf(rb, q, tb, Append(p, m)) = u \o Append(p, m)
    BY DEF StreamOf
  <1> HIDE DEF u
  <1>3. u \o Append(p, m) = Append(u \o p, m)
    BY <1>1
  <1> QED
    BY <1>2, <1>3

-----------------------------------------------------------------------------
(* The inductive invariant of the stages.                                  *)
Stream == StreamOf(rBlock, t2rq, tBlock, p2tq)

Block == {b \in Seq(Msg) : b # <<>> /\ Len(b) <= TBlock}

(* A stage at line 163 or 189 holds what its progress says.                *)
Progress ==
  /\ t2rq \in Seq(Block)
  /\ tPc \in {"test", "exited"} => tBlock = <<>>
  /\ tPc = "get" => Len(tBlock) < TBlock
  /\ tPc = "put" => tBlock # <<>>
  /\ rPc \in {"test", "get"} => rBlock = <<>>
  /\ rPc = "put" => rBlock # <<>>
  /\ \A i \in Ids : pPc[i] = "exited" => pDone[i] = Goal
  /\ mainPc # "producers" => \A i \in Ids : pPc[i] = "exited"

(* The counts of the stages are those of the end messages to come.         *)
Counted ==
  /\ Closed(Stream, pPc)
  /\ tLeft = Cardinality(Unfinished(p2tq, pPc))
  /\ rLeft = Cardinality(Unfinished(Stream, pPc))

Open == mainPc \in {"producers", "consumers", "stages"}

StageInv ==
  /\ TypeOK
  /\ Progress
  /\ Open => Counted
  /\ ~Open => tPc = "exited" /\ rPc = "exited"
  /\ StagesEndWithTheirInput

LEMMA BlocksAreMessages ==
  ASSUME NEW q \in Seq(Block)
  PROVE  q \in Seq(Seq(Msg))
  <1>1. Block \subseteq Seq(Msg)
    BY DEF Block
  <1> QED
    BY <1>1, SeqMonotonic

LEMMA FlattenOfBlocks ==
  ASSUME NEW q \in Seq(Block), FlattenSeq(q) = <<>>
  PROVE  q = <<>>
  <1> SUFFICES ASSUME q # <<>>
               PROVE  FALSE
    OBVIOUS
  <1>1. q \in Seq(Seq(Msg)) /\ Head(q) \in Seq(Msg) /\ Head(q) # <<>>
    BY BlocksAreMessages, HeadTailProperties DEF Block
  <1>2. FlattenSeq(Tail(q)) \in Seq(Msg) /\ FlattenSeq(q) = Head(q) \o FlattenSeq(Tail(q))
    BY <1>1, FlattenHeadTail, FlattenInSeq, HeadTailProperties
  <1>3. PICK h \in Seq(Msg), t \in Seq(Msg) : h = Head(q) /\ t = FlattenSeq(Tail(q))
    BY <1>1, <1>2
  <1>4. Len(h) \in Nat /\ Len(h) # 0 /\ Len(t) \in Nat /\ Len(h \o t) = Len(h) + Len(t)
    BY <1>1, <1>3, EmptySeq, LenProperties, ConcatProperties
  <1>5. Len(h \o t) = 0
    BY <1>2, <1>3, EmptySeq
  <1> QED
    BY ONLY <1>4, <1>5, SMT

(* With the last end message out of the stream every buffer is empty.      *)
LEMMA Drained ==
  ASSUME NEW rb \in Seq(Msg), NEW q \in Seq(Block), NEW tb \in Seq(Msg), NEW p \in Seq(Msg),
         NEW pc \in ProducerPcs, Closed(StreamOf(rb, q, tb, p), pc),
         Cardinality(Unfinished(StreamOf(rb, q, tb, p), pc)) = 0
  PROVE  /\ rb = <<>> /\ q = <<>> /\ tb = <<>> /\ p = <<>>
         /\ \A i \in Ids : pc[i] = "exited"
         /\ Cardinality(Unfinished(p, pc)) = 0
  <1>1. q \in Seq(Seq(Msg)) /\ StreamOf(rb, q, tb, p) \in Seq(Msg)
    BY BlocksAreMessages, StreamInSeq
  <1>2. StreamOf(rb, q, tb, p) = <<>> /\ \A i \in Ids : pc[i] = "exited"
    BY <1>1, ClosedDrained
  <1>3. rb = <<>> /\ q = <<>> /\ tb = <<>> /\ p = <<>>
    BY <1>1, <1>2, StreamEmpty, FlattenOfBlocks
  <1>4. Unfinished(p, pc) = {}
    BY <1>2, <1>3 DEF Unfinished
  <1> QED
    BY <1>2, <1>3, <1>4, FS_EmptySet

(* What the invariant says of the queues as sequences.                     *)
LEMMA StreamFacts ==
  ASSUME StageInv
  PROVE  /\ rBlock \in Seq(Msg) /\ t2rq \in Seq(Seq(Msg)) /\ t2rq \in Seq(Block)
         /\ tBlock \in Seq(Msg) /\ p2tq \in Seq(Msg)
         /\ Stream \in Seq(Msg) /\ pPc \in ProducerPcs
         /\ tLeft \in Nat /\ rLeft \in Nat
         /\ Len(p2tq) \in Nat /\ Len(t2rq) \in Nat /\ Len(tBlock) \in Nat /\ Len(rBlock) \in Nat
         /\ Open => /\ Closed(Stream, pPc) /\ Closed(p2tq, pPc)
                    /\ tLeft = 0 => p2tq = <<>> /\ \A i \in Ids : pPc[i] = "exited"
                    /\ rLeft = 0 => /\ rBlock = <<>> /\ t2rq = <<>>
                                    /\ tBlock = <<>> /\ p2tq = <<>> /\ tLeft = 0
                                    /\ \A i \in Ids : pPc[i] = "exited"
  <1>1. /\ rBlock \in Seq(Msg) /\ t2rq \in Seq(Seq(Msg)) /\ t2rq \in Seq(Block)
        /\ tBlock \in Seq(Msg) /\ p2tq \in Seq(Msg) /\ pPc \in ProducerPcs
        /\ tLeft \in Nat /\ rLeft \in Nat
    BY DEF StageInv, TypeOK, Progress, ProducerPcs
  <1>2. Stream \in Seq(Msg) /\ \E u \in Seq(Msg) : Stream = u \o p2tq
    BY <1>1, StreamInSeq DEF Stream
  <1>3. ASSUME Open
        PROVE  /\ Closed(Stream, pPc) /\ Closed(p2tq, pPc)
               /\ tLeft = Cardinality(Unfinished(p2tq, pPc))
               /\ rLeft = Cardinality(Unfinished(Stream, pPc))
    BY <1>1, <1>2, <1>3, ClosedSuffix DEF StageInv, Counted
  <1>4. Open /\ tLeft = 0 => p2tq = <<>> /\ \A i \in Ids : pPc[i] = "exited"
    BY <1>1, <1>3, ClosedDrained
  <1>5. Open /\ rLeft = 0 => /\ rBlock = <<>> /\ t2rq = <<>>
                             /\ tBlock = <<>> /\ p2tq = <<>> /\ tLeft = 0
                             /\ \A i \in Ids : pPc[i] = "exited"
    BY <1>1, <1>3, Drained DEF Stream
  <1>6. Len(p2tq) \in Nat /\ Len(t2rq) \in Nat /\ Len(tBlock) \in Nat /\ Len(rBlock) \in Nat
    BY <1>1, LenProperties
  <1> QED
    BY <1>1, <1>2, <1>3, <1>4, <1>5, <1>6

LEMMA StageInit ==
  ASSUME Init
  PROVE  StageInv
  <1>1. NProducers \in Nat \ {0}
    BY PipelineAssumption, FS_CardinalityType, FS_EmptySet DEF NProducers
  <1>2. Stream = <<>>
    <2>1. FlattenSeq(<<>>) = <<>> /\ <<>> \in Seq(Msg)
      BY FlattenEmpty, EmptySeq
    <2> QED
      BY <2>1, ConcatEmptySeq DEF Init, Stream, StreamOf
  <1>3. Counted
    BY <1>2, ClosedEmpty DEF Init, Counted, NProducers
  <1>4. /\ p2tq \in Seq(Msg) /\ t2rq \in Seq(Seq(Msg)) /\ t2rq \in Seq(Block)
        /\ Len(p2tq) = 0 /\ Len(t2rq) = 0
        /\ \A i \in Ids : r2cq[i] \in Seq(Msg) /\ Len(r2cq[i]) = 0
        /\ tBlock \in Seq(Msg) /\ Len(tBlock) = 0
    BY EmptySeq DEF Init
  <1>5. TypeOK
    <2>1. /\ p2tq \in Seq(Msg) /\ Len(p2tq) < P2TQLen
          /\ t2rq \in Seq(Seq(Msg)) /\ Len(t2rq) < T2RQLen
          /\ tBlock \in Seq(Msg) /\ Len(tBlock) <= TBlock
          /\ rBlock \in Seq(Msg) /\ Len(rBlock) <= TBlock
      BY <1>4, PipelineAssumption DEF Init
    <2>2. r2cq \in [Ids -> Seq(Msg)] /\ \A i \in Ids : Len(r2cq[i]) < R2CQLen
      BY <1>4, PipelineAssumption DEF Init
    <2>3. tLeft \in 0 .. NProducers /\ rLeft \in 0 .. NProducers
      BY <1>1 DEF Init
    <2>4. pDone \in [Ids -> 0 .. Goal] /\ cDone \in [Ids -> 0 .. Goal]
      BY PipelineAssumption DEF Init
    <2> QED
      BY <2>1, <2>2, <2>3, <2>4 DEF Init, TypeOK
  <1>6. Progress
    BY <1>4, PipelineAssumption DEF Init, Progress
  <1>7. StagesEndWithTheirInput /\ Open
    BY <1>1 DEF Init, StagesEndWithTheirInput, Open
  <1> QED
    BY <1>3, <1>5, <1>6, <1>7 DEF StageInv

(* Line 145: a unit is put.                                                *)
LEMMA ProduceStep ==
  ASSUME StageInv, NEW i \in Ids, Produce(i)
  PROVE  StageInv' /\ Stream' = Append(Stream, Message(i, pDone[i]))
  <1> DEFINE m == Message(i, pDone[i])
  <1>0. /\ pPc[i] = "running" /\ p2tq' = Append(p2tq, m) /\ pDone' = [pDone EXCEPT ![i] = @ + 1]
        /\ Len(p2tq) < P2TQLen - 1
        /\ rBlock' = rBlock /\ t2rq' = t2rq /\ tBlock' = tBlock
        /\ UNCHANGED <<r2cq, pPc, tLeft, tPc, rLeft, rPc, cDone, cPc, shutDown, mainPc>>
    BY DEF Produce, transmitter, receiver, consumers, main
  <1>1. pDone \in [Ids -> 0 .. Goal] /\ pDone[i] \in 0 .. Goal - 1
    <2>1. pDone \in [Ids -> 0 .. Goal] /\ pDone[i] \in 0 .. Goal
      BY DEF StageInv, TypeOK
    <2>2. pDone[i] < Goal
      BY DEF Produce
    <2> QED
      BY <2>1, <2>2, PipelineAssumption
  <1>2. m \in Msg
    BY <1>1, PipelineAssumption DEF Message, Msg, EndMark
  <1>3. mainPc = "producers" /\ Open
    BY <1>0 DEF StageInv, Progress, Open
  <1>4. /\ rBlock \in Seq(Msg) /\ t2rq \in Seq(Seq(Msg)) /\ tBlock \in Seq(Msg) /\ p2tq \in Seq(Msg)
        /\ Len(p2tq) \in Nat /\ Stream \in Seq(Msg)
        /\ Closed(Stream, pPc) /\ Closed(p2tq, pPc) /\ tLeft # 0 /\ rLeft # 0
    BY <1>0, <1>3, StreamFacts
  <1>5. Stream' = Append(Stream, m)
    <2> HIDE DEF m
    <2>1. StreamOf(rBlock, t2rq, tBlock, Append(p2tq, m)) = Append(StreamOf(rBlock, t2rq, tBlock, p2tq), m)
      BY <1>2, <1>4, StreamAppend
    <2> QED
      BY <1>0, <2>1 DEF Stream
  <1>6. Counted'
    <2>1. /\ Closed(Append(Stream, m), pPc)
          /\ Unfinished(Append(Stream, m), pPc) = Unfinished(Stream, pPc)
          /\ Unfinished(Append(p2tq, m), pPc) = Unfinished(p2tq, pPc)
      BY <1>0, <1>1, <1>4, ClosedProduce
    <2> QED
      BY <1>0, <1>3, <1>5, <2>1 DEF StageInv, Counted
  <1>7. TypeOK'
    <2>1. p2tq' \in Seq(Msg) /\ Len(p2tq') < P2TQLen
      BY <1>0, <1>2, <1>4, AppendProperties, PipelineAssumption
    <2>2. pDone' \in [Ids -> 0 .. Goal]
      <3>1. pDone[i] + 1 \in 0 .. Goal
        BY <1>1, PipelineAssumption
      <3> QED
        BY <1>0, <1>1, <3>1
    <2> QED
      BY <1>0, <2>1, <2>2 DEF StageInv, TypeOK
  <1>8. Progress'
    <2>1. \A j \in Ids : pPc[j] = "exited" => pDone'[j] = Goal
      BY <1>0, <1>1 DEF StageInv, Progress
    <2> QED
      BY <1>0, <1>3, <2>1 DEF StageInv, Progress
  <1>9. StagesEndWithTheirInput'
    BY <1>0, <1>4 DEF StageInv, StagesEndWithTheirInput
  <1> QED
    BY <1>5, <1>0, <1>3, <1>6, <1>7, <1>8, <1>9 DEF StageInv, Open

(* Line 154: the end message is put.                                       *)
LEMMA ProduceEndStep ==
  ASSUME StageInv, NEW i \in Ids, ProduceEnd(i)
  PROVE  StageInv' /\ Stream' = Append(Stream, EndOf(i))
  <1> DEFINE m == EndOf(i)
  <1>0. /\ pPc[i] = "running" /\ pDone[i] = Goal /\ p2tq' = Append(p2tq, m)
        /\ pPc' = [pPc EXCEPT ![i] = "exited"]
        /\ Len(p2tq) < P2TQLen - 1
        /\ rBlock' = rBlock /\ t2rq' = t2rq /\ tBlock' = tBlock
        /\ UNCHANGED <<r2cq, pDone, tLeft, tPc, rLeft, rPc, cDone, cPc, shutDown, mainPc>>
    BY DEF ProduceEnd, EndOf, transmitter, receiver, consumers, main
  <1>2. m \in Msg
    BY EndIsMsg
  <1>3. mainPc = "producers" /\ Open
    BY <1>0 DEF StageInv, Progress, Open
  <1>4. /\ rBlock \in Seq(Msg) /\ t2rq \in Seq(Seq(Msg)) /\ tBlock \in Seq(Msg) /\ p2tq \in Seq(Msg)
        /\ Len(p2tq) \in Nat /\ Stream \in Seq(Msg) /\ pPc \in ProducerPcs
        /\ Closed(Stream, pPc) /\ Closed(p2tq, pPc) /\ tLeft # 0 /\ rLeft # 0
    BY <1>0, <1>3, StreamFacts
  <1>5. Stream' = Append(Stream, m)
    <2> HIDE DEF m
    <2>1. StreamOf(rBlock, t2rq, tBlock, Append(p2tq, m)) = Append(StreamOf(rBlock, t2rq, tBlock, p2tq), m)
      BY <1>2, <1>4, StreamAppend
    <2> QED
      BY <1>0, <2>1 DEF Stream
  <1>6. Counted'
    <2>1. /\ Closed(Append(Stream, m), [pPc EXCEPT ![i] = "exited"])
          /\ Unfinished(Append(Stream, m), [pPc EXCEPT ![i] = "exited"]) = Unfinished(Stream, pPc)
          /\ Unfinished(Append(p2tq, m), [pPc EXCEPT ![i] = "exited"]) = Unfinished(p2tq, pPc)
      BY <1>0, <1>4, ClosedProduceEnd
    <2> QED
      BY <1>0, <1>3, <1>5, <2>1 DEF StageInv, Counted
  <1>7. TypeOK'
    <2>1. p2tq' \in Seq(Msg) /\ Len(p2tq') < P2TQLen
      BY <1>0, <1>2, <1>4, AppendProperties, PipelineAssumption
    <2>2. pPc' \in [Ids -> {"running", "exited"}]
      BY <1>0 DEF StageInv, TypeOK
    <2> QED
      BY <1>0, <2>1, <2>2 DEF StageInv, TypeOK
  <1>8. Progress'
    <2>1. \A j \in Ids : pPc'[j] = "exited" => pDone[j] = Goal
      BY <1>0, <1>4 DEF StageInv, Progress, ProducerPcs
    <2> QED
      BY <1>0, <1>3, <2>1 DEF StageInv, Progress
  <1>9. StagesEndWithTheirInput'
    BY <1>0, <1>4 DEF StageInv, StagesEndWithTheirInput
  <1> QED
    BY <1>5, <1>0, <1>3, <1>6, <1>7, <1>8, <1>9 DEF StageInv, Open

(* Lines 161 and 162.                                                      *)
LEMMA TransmitterTestStep ==
  ASSUME StageInv, TransmitterTest
  PROVE  StageInv' /\ Stream' = Stream
  <1> USE StreamFacts DEF TransmitterTest, queues, producers, receiver, consumers, main
  <1>1. Open /\ tBlock' = tBlock /\ tLeft > 0
    BY DEF StageInv, Progress, StagesEndWithTheirInput
  <1>2. Stream' = Stream
    BY <1>1 DEF Stream
  <1>3. Counted'
    BY <1>1, <1>2 DEF StageInv, Counted
  <1>4. TypeOK'
    BY <1>1 DEF StageInv, TypeOK
  <1>5. Progress'
    <2>1. Len(tBlock') < TBlock
      BY EmptySeq, PipelineAssumption
    <2> QED
      BY <1>1, <2>1 DEF StageInv, Progress
  <1>6. StagesEndWithTheirInput'
    BY <1>1 DEF StageInv, StagesEndWithTheirInput
  <1> QED
    BY <1>2, <1>1, <1>3, <1>4, <1>5, <1>6 DEF StageInv, Open

(* Lines 163 to 171: a message moves into the block.                       *)
LEMMA TransmitterGetStep ==
  ASSUME StageInv, TransmitterGet
  PROVE  StageInv' /\ Stream' = Stream
  <1> USE StreamFacts DEF TransmitterGet, producers, receiver, consumers, main
  <1>1. Open /\ p2tq # <<>> /\ Len(tBlock) < TBlock /\ tPc = "get"
    BY DEF StageInv, Progress
  <1>2. Stream' = Stream
    BY <1>1, StreamMove DEF Stream
  <1>3. Counted'
    <2>1. tLeft' = Cardinality(Unfinished(Tail(p2tq), pPc))
      BY <1>1, ClosedTail DEF StageInv, Counted
    <2> QED
      BY <1>1, <1>2, <2>1 DEF StageInv, Counted
  <1>4. /\ p2tq' \in Seq(Msg) /\ Len(p2tq') < P2TQLen
        /\ tBlock' \in Seq(Msg) /\ tBlock' # <<>> /\ Len(tBlock') = Len(tBlock) + 1
        /\ Len(tBlock') <= TBlock
    <2>1. /\ Head(p2tq) \in Msg /\ Tail(p2tq) \in Seq(Msg)
          /\ Len(Tail(p2tq)) = Len(p2tq) - 1
      BY <1>1, HeadTailProperties
    <2>2. /\ tBlock' \in Seq(Msg) /\ tBlock' # <<>> /\ Len(tBlock') = Len(tBlock) + 1
      <3>1. tBlock \in Seq(Msg) /\ tBlock' = Append(tBlock, Head(p2tq))
        BY <1>1
      <3>2. PICK m \in Msg : m = Head(p2tq)
        BY <2>1
      <3>3. /\ Append(tBlock, m) \in Seq(Msg) /\ Append(tBlock, m) # <<>>
            /\ Len(Append(tBlock, m)) = Len(tBlock) + 1
        <4>1. PICK b \in Seq(Msg) : b = tBlock
          BY <3>1
        <4>2. /\ Append(b, m) \in Seq(Msg) /\ Append(b, m) # <<>>
              /\ Len(Append(b, m)) = Len(b) + 1
          <5>1. Append(b, m) \in Seq(Msg) /\ Append(b, m) # <<>>
            BY ONLY b \in Seq(Msg), m \in Msg, AppendProperties
          <5>2. Len(Append(b, m)) = Len(b) + 1
            BY ONLY b \in Seq(Msg), m \in Msg, AppendProperties
          <5> QED
            BY ONLY <5>1, <5>2
        <4> QED
          BY ONLY <4>1, <4>2
      <3> QED
        BY ONLY <3>1, <3>2, <3>3
    <2> QED
      <3>1. Len(p2tq) < P2TQLen /\ Len(p2tq) \in Nat /\ Len(tBlock) \in Nat
        BY DEF StageInv, TypeOK
      <3>2. Len(Tail(p2tq)) < P2TQLen /\ Len(tBlock') <= TBlock
        BY <1>1, <2>1, <2>2, <3>1, PipelineAssumption
      <3> QED
        BY <2>1, <2>2, <3>2
  <1>5. TypeOK'
    <2>1. tLeft' \in 0 .. NProducers
      BY <1>3, UnfinishedFinite DEF Counted
    <2> QED
      BY <1>4, <2>1 DEF StageInv, TypeOK
  <1>6. Progress'
    <2>1. tPc' = "get" => Len(tBlock') < TBlock
      <3>1. tPc' = "get" => Len(tBlock') # TBlock
        OBVIOUS
      <3>2. Len(tBlock') \in Nat
        BY <1>4, LenProperties
      <3> HIDE DEF TransmitterGet
      <3> QED
        BY <1>4, <3>1, <3>2, PipelineAssumption
    <2> QED
      BY <1>1, <1>4, <2>1 DEF StageInv, Progress
  <1>7. StagesEndWithTheirInput'
    <2>1. tPc' \in {"get", "put"} /\ (tPc' = "get" => tLeft' > 0)
      BY <1>5 DEF TypeOK
    <2> QED
      BY <1>1, <2>1 DEF StageInv, StagesEndWithTheirInput
  <1> QED
    BY <1>2, <1>1, <1>3, <1>5, <1>6, <1>7 DEF StageInv, Open

(* Lines 172 to 174: the block is put.                                     *)
LEMMA TransmitterPutStep ==
  ASSUME StageInv, TransmitterPut
  PROVE  StageInv' /\ Stream' = Stream
  <1> USE StreamFacts DEF TransmitterPut, producers, receiver, consumers, main
  <1>1. Open /\ tBlock # <<>> /\ tPc = "put"
    BY DEF StageInv, Progress
  <1>2. Stream' = Stream
    BY <1>1, StreamPut DEF Stream
  <1>3. Counted'
    BY <1>1, <1>2 DEF StageInv, Counted
  <1>4. t2rq' \in Seq(Block) /\ t2rq' \in Seq(Seq(Msg)) /\ Len(t2rq') < T2RQLen
    <2>1. tBlock \in Block
      BY <1>1 DEF Block, StageInv, TypeOK
    <2>2. t2rq' \in Seq(Block) /\ Len(t2rq') = Len(t2rq) + 1
      BY <2>1, AppendProperties
    <2> QED
      BY <2>2, BlocksAreMessages, PipelineAssumption
  <1>5. tBlock' \in Seq(Msg) /\ Len(tBlock') <= TBlock
    BY EmptySeq, PipelineAssumption
  <1>6. TypeOK'
    BY <1>4, <1>5 DEF StageInv, TypeOK
  <1>7. Progress'
    BY <1>1, <1>4 DEF StageInv, Progress
  <1>8. StagesEndWithTheirInput'
    <2>1. tLeft = 0 => p2tq = <<>> /\ \A i \in Ids : pPc[i] = "exited"
      BY <1>1
    <2> QED
      BY <1>1, <2>1 DEF StageInv, StagesEndWithTheirInput
  <1> QED
    BY <1>2, <1>1, <1>3, <1>6, <1>7, <1>8 DEF StageInv, Open

(* Line 185.                                                               *)
LEMMA ReceiverTestStep ==
  ASSUME StageInv, ReceiverTest
  PROVE  StageInv' /\ Stream' = Stream
  <1> USE StreamFacts DEF ReceiverTest, queues, producers, transmitter, consumers, main
  <1>1. Open /\ rLeft > 0
    BY DEF StageInv, Progress, StagesEndWithTheirInput
  <1>2. Stream' = Stream
    BY DEF Stream
  <1>3. Counted'
    BY <1>1, <1>2 DEF StageInv, Counted
  <1>4. TypeOK'
    BY DEF StageInv, TypeOK
  <1>5. Progress'
    BY DEF StageInv, Progress
  <1>6. StagesEndWithTheirInput'
    BY <1>1 DEF StageInv, StagesEndWithTheirInput
  <1> QED
    BY <1>2, <1>1, <1>3, <1>4, <1>5, <1>6 DEF StageInv, Open

(* Line 186: the receiver gets a block.                                    *)
LEMMA ReceiverGetStep ==
  ASSUME StageInv, ReceiverGet
  PROVE  StageInv' /\ Stream' = Stream
  <1>0. /\ rPc = "get" /\ t2rq # <<>> /\ t2rq' = Tail(t2rq) /\ rBlock' = Head(t2rq) /\ rPc' = "put"
        /\ tBlock' = tBlock /\ p2tq' = p2tq
        /\ UNCHANGED <<r2cq, pDone, pPc, tLeft, tPc, rLeft, cDone, cPc, shutDown, mainPc>>
    BY DEF ReceiverGet, producers, transmitter, consumers, main
  <1>1. Open /\ rBlock = <<>>
    BY <1>0 DEF StageInv, Progress
  <1>2. /\ t2rq \in Seq(Seq(Msg)) /\ t2rq \in Seq(Block) /\ tBlock \in Seq(Msg) /\ p2tq \in Seq(Msg)
        /\ Len(t2rq) \in Nat
    BY StreamFacts
  <1>3. Stream' = Stream
    BY <1>0, <1>1, <1>2, StreamGet DEF Stream
  <1>4. Counted'
    BY <1>0, <1>1, <1>3 DEF StageInv, Counted
  <1>5. /\ t2rq' \in Seq(Block) /\ t2rq' \in Seq(Seq(Msg)) /\ Len(t2rq') < T2RQLen
        /\ rBlock' \in Seq(Msg) /\ rBlock' # <<>> /\ Len(rBlock') <= TBlock
    <2>1. rBlock' \in Block /\ t2rq' \in Seq(Block) /\ Len(t2rq') = Len(t2rq) - 1
      BY <1>0, <1>2, HeadTailProperties
    <2>2. Len(t2rq) < T2RQLen
      BY DEF StageInv, TypeOK
    <2> QED
      BY <1>2, <2>1, <2>2, BlocksAreMessages, PipelineAssumption DEF Block
  <1>6. TypeOK'
    BY <1>0, <1>5 DEF StageInv, TypeOK
  <1>7. Progress'
    BY <1>0, <1>5 DEF StageInv, Progress
  <1>8. StagesEndWithTheirInput'
    BY <1>0 DEF StageInv, StagesEndWithTheirInput
  <1> QED
    BY <1>3, <1>0, <1>1, <1>4, <1>6, <1>7, <1>8 DEF StageInv, Open

(* Lines 189 to 198: the receiver hands a message on.                      *)
LEMMA ReceiverPutStep ==
  ASSUME StageInv, ReceiverPut
  PROVE  StageInv' /\ Stream # <<>> /\ Head(Stream) = Head(rBlock) /\ Stream' = Tail(Stream)
  <1> DEFINE m == Head(rBlock)
  <1>0. /\ rPc = "put" /\ rBlock' = Tail(rBlock) /\ rLeft' = LeftAfter(rLeft, m)
        /\ Len(r2cq[m.destination]) < R2CQLen - 1
        /\ r2cq' = [r2cq EXCEPT ![m.destination] = Append(@, m)]
        /\ rPc' = IF rLeft' = 0 THEN "exited" ELSE IF rBlock' = <<>> THEN "test" ELSE "put"
        /\ tBlock' = tBlock /\ p2tq' = p2tq /\ t2rq' = t2rq
        /\ UNCHANGED <<pDone, pPc, tLeft, tPc, cDone, cPc, shutDown, mainPc>>
    BY DEF ReceiverPut, producers, transmitter, consumers, main
  <1>1. Open /\ rBlock # <<>>
    BY <1>0 DEF StageInv, Progress
  <1>2. /\ t2rq \in Seq(Seq(Msg)) /\ t2rq \in Seq(Block) /\ tBlock \in Seq(Msg) /\ p2tq \in Seq(Msg)
        /\ rBlock \in Seq(Msg) /\ Len(rBlock) \in Nat /\ Stream \in Seq(Msg)
        /\ Closed(Stream, pPc) /\ pPc \in ProducerPcs
    BY <1>1, StreamFacts
  <1>3. /\ m \in Msg /\ rBlock' \in Seq(Msg) /\ Len(rBlock') = Len(rBlock) - 1
    BY <1>0, <1>1, <1>2, HeadTailProperties
  <1> HIDE DEF m
  <1>4. Stream # <<>> /\ Head(Stream) = m /\ Stream' = Tail(Stream)
    <2>1. /\ StreamOf(rBlock, t2rq, tBlock, p2tq) # <<>>
          /\ Head(StreamOf(rBlock, t2rq, tBlock, p2tq)) = Head(rBlock)
          /\ Tail(StreamOf(rBlock, t2rq, tBlock, p2tq)) = StreamOf(Tail(rBlock), t2rq, tBlock, p2tq)
      <3>1. /\ rBlock \in Seq(Msg) /\ rBlock # <<>> /\ t2rq \in Seq(Seq(Msg))
            /\ tBlock \in Seq(Msg) /\ p2tq \in Seq(Msg)
        BY <1>1, <1>2
      <3>2. PICK rb, q, tb, p : rb = rBlock /\ q = t2rq /\ tb = tBlock /\ p = p2tq
        OBVIOUS
      <3>3. rb \in Seq(Msg) /\ rb # <<>> /\ q \in Seq(Seq(Msg)) /\ tb \in Seq(Msg) /\ p \in Seq(Msg)
        BY ONLY <3>1, <3>2
      <3>4. /\ StreamOf(rb, q, tb, p) # <<>>
            /\ Head(StreamOf(rb, q, tb, p)) = Head(rb)
            /\ Tail(StreamOf(rb, q, tb, p)) = StreamOf(Tail(rb), q, tb, p)
        BY ONLY <3>3, StreamTail
      <3> QED
        BY ONLY <3>2, <3>4
    <2> QED
      BY <1>0, <2>1 DEF Stream, m
  <1>5. Counted'
    <2>1. /\ Closed(Tail(Stream), pPc)
          /\ Cardinality(Unfinished(Tail(Stream), pPc)) = LeftAfter(Cardinality(Unfinished(Stream, pPc)), m)
      BY <1>2, <1>4, ClosedTail
    <2> QED
      BY <1>0, <1>1, <1>4, <2>1 DEF StageInv, Counted
  <1>6. TypeOK'
    <2>1. rLeft' \in 0 .. NProducers
      BY <1>5, UnfinishedFinite DEF Counted
    <2>2. Len(rBlock') <= TBlock
      BY <1>2, <1>3, PipelineAssumption DEF StageInv, TypeOK
    <2>3. r2cq' \in [Ids -> Seq(Msg)] /\ \A i \in Ids : Len(r2cq'[i]) < R2CQLen
      <3> DEFINE d == m.destination
      <3>1. d \in Ids /\ r2cq \in [Ids -> Seq(Msg)] /\ r2cq[d] \in Seq(Msg)
            /\ \A i \in Ids : Len(r2cq[i]) < R2CQLen
        BY <1>3, MsgShape DEF StageInv, TypeOK
      <3>2. r2cq' = [r2cq EXCEPT ![d] = Append(r2cq[d], m)]
        BY <1>0
      <3>3. Append(r2cq[d], m) \in Seq(Msg) /\ Len(Append(r2cq[d], m)) = Len(r2cq[d]) + 1
            /\ Len(r2cq[d]) \in Nat
        BY <1>3, <3>1, AppendProperties, LenProperties
      <3>4. Len(r2cq[d]) + 1 < R2CQLen
        BY <1>0, <3>3, PipelineAssumption
      <3> HIDE DEF d
      <3> QED
        BY <3>1, <3>2, <3>3, <3>4
    <2> QED
      BY <1>0, <1>3, <2>1, <2>2, <2>3 DEF StageInv, TypeOK
  <1>7. Progress'
    BY <1>0, <1>1 DEF StageInv, Progress
  <1>8. StagesEndWithTheirInput'
    <2>1. rPc' = "test" => rLeft' > 0
      BY <1>0, <1>6 DEF TypeOK
    <2>2. ASSUME rLeft' = 0
          PROVE  rBlock' = <<>> /\ t2rq' = <<>> /\ tPc' = "exited" /\ tLeft' = 0
      <3>1. /\ Closed(StreamOf(rBlock', t2rq', tBlock', p2tq'), pPc')
            /\ Cardinality(Unfinished(StreamOf(rBlock', t2rq', tBlock', p2tq'), pPc')) = 0
            /\ tLeft' = Cardinality(Unfinished(p2tq', pPc'))
        BY <1>5, <2>2 DEF Counted, Stream
      <3>2. /\ rBlock' = <<>> /\ t2rq' = <<>> /\ tBlock' = <<>>
            /\ Cardinality(Unfinished(p2tq', pPc')) = 0
        <4>1. /\ rBlock' \in Seq(Msg) /\ t2rq' \in Seq(Block) /\ tBlock' \in Seq(Msg)
              /\ p2tq' \in Seq(Msg) /\ pPc' \in ProducerPcs
          BY <1>0, <1>2, <1>3
        <4> QED
          BY <3>1, <4>1, Drained
      <3>3. tPc # "put" /\ tPc \notin {"test", "get"}
        BY <1>0, <3>1, <3>2 DEF StageInv, Progress, StagesEndWithTheirInput
      <3> QED
        BY <1>0, <3>1, <3>2, <3>3 DEF StageInv, TypeOK
    <2> QED
      BY <1>0, <2>1, <2>2 DEF StageInv, StagesEndWithTheirInput
  <1> QED
    BY <1>4, <1>0, <1>1, <1>5, <1>6, <1>7, <1>8 DEF StageInv, Open, m

(* Lines 215 to 222: a consumer, or a consumer of destroyed queues.        *)
LEMMA ConsumerStep ==
  ASSUME StageInv, NEW i \in Ids, Consume(i) \/ ConsumerDone(i) \/ ConsumerOfDestroyed(i)
  PROVE  StageInv' /\ Stream' = Stream
  <1>0. /\ UNCHANGED <<p2tq, t2rq, pDone, pPc, tBlock, tLeft, tPc, rBlock, rLeft, rPc, shutDown>>
        /\ Open' = Open /\ (mainPc' = mainPc \/ (mainPc' = "crashed" /\ mainPc = "destroyed"))
    <2>1. CASE Consume(i)
      BY <2>1 DEF Consume, producers, transmitter, receiver, main, Open
    <2>2. CASE ConsumerDone(i)
      BY <2>2 DEF ConsumerDone, producers, transmitter, receiver, queues, main, Open
    <2>3. CASE ConsumerOfDestroyed(i)
      BY <2>3 DEF ConsumerOfDestroyed, producers, transmitter, receiver, queues, Open, Destroyed
    <2> QED
      BY <2>1, <2>2, <2>3
  <1>1. Stream' = Stream
    BY <1>0 DEF Stream
  <1>2. Open => Counted'
    BY <1>0, <1>1 DEF StageInv, Counted
  <1>3. TypeOK'
    <2>1. /\ r2cq \in [Ids -> Seq(Msg)] /\ \A j \in Ids : Len(r2cq[j]) < R2CQLen
          /\ cDone \in [Ids -> 0 .. Goal] /\ cPc \in [Ids -> {"running", "exited"}]
      BY DEF StageInv, TypeOK
    <2>2. r2cq' \in [Ids -> Seq(Msg)] /\ \A j \in Ids : Len(r2cq'[j]) < R2CQLen
      <3>1. CASE r2cq' = r2cq
        BY <2>1, <3>1
      <3>2. CASE Consume(i)
        <4>1. r2cq[i] # <<>> /\ r2cq[i] \in Seq(Msg) /\ r2cq' = [r2cq EXCEPT ![i] = Tail(r2cq[i])]
          BY <2>1, <3>2 DEF Consume
        <4>2. /\ Tail(r2cq[i]) \in Seq(Msg) /\ Len(Tail(r2cq[i])) = Len(r2cq[i]) - 1
              /\ Len(r2cq[i]) \in Nat
          BY <4>1, HeadTailProperties, LenProperties
        <4>3. Len(Tail(r2cq[i])) < R2CQLen
          BY <2>1, <4>2, PipelineAssumption
        <4> QED
          BY <2>1, <4>1, <4>2, <4>3
      <3> QED
        BY <3>1, <3>2 DEF ConsumerDone, ConsumerOfDestroyed, queues
    <2>3. cDone' \in [Ids -> 0 .. Goal]
      <3>1. cDone' = cDone \/ (cDone[i] < Goal /\ cDone' = [cDone EXCEPT ![i] = @ + 1])
        BY DEF Consume, ConsumerDone, ConsumerOfDestroyed
      <3>2. cDone[i] < Goal => cDone[i] + 1 \in 0 .. Goal
        BY <2>1, PipelineAssumption
      <3> QED
        BY <2>1, <3>1, <3>2
    <2>4. cPc' \in [Ids -> {"running", "exited"}]
      BY <2>1 DEF Consume, ConsumerDone, ConsumerOfDestroyed
    <2> QED
      BY <1>0, <2>2, <2>3, <2>4 DEF StageInv, TypeOK
  <1>4. Progress'
    BY <1>0 DEF StageInv, Progress
  <1>5. StagesEndWithTheirInput'
    BY <1>0 DEF StageInv, StagesEndWithTheirInput
  <1> QED
    BY <1>1, <1>0, <1>2, <1>3, <1>4, <1>5 DEF StageInv

(* Lines 99 to 133.                                                        *)
LEMMA MainStep ==
  ASSUME StageInv, JoinProducers \/ JoinConsumers \/ JoinStages \/ MainReturns
  PROVE  StageInv'
  <1>0. UNCHANGED <<producers, transmitter, receiver, consumers>>
    BY DEF JoinProducers, JoinConsumers, JoinStages, MainReturns
  <1>1. CASE JoinStages
    <2>1. /\ mainPc = "stages" /\ mainPc' = "destroyed" /\ tPc = "exited" /\ rPc = "exited"
          /\ p2tq' = <<>> /\ t2rq' = <<>> /\ r2cq' = [i \in Ids |-> <<>>]
          /\ shutDown' = shutDown
      BY <1>1 DEF JoinStages
    <2>2. TypeOK'
      <3>1. /\ p2tq' \in Seq(Msg) /\ Len(p2tq') = 0 /\ t2rq' \in Seq(Seq(Msg)) /\ Len(t2rq') = 0
            /\ \A i \in Ids : r2cq'[i] \in Seq(Msg) /\ Len(r2cq'[i]) = 0
        BY <2>1, EmptySeq
      <3>2. r2cq' \in [Ids -> Seq(Msg)] /\ \A i \in Ids : Len(r2cq'[i]) < R2CQLen
        BY <2>1, <3>1, PipelineAssumption
      <3>3. Len(p2tq') < P2TQLen /\ Len(t2rq') < T2RQLen
        BY <3>1, PipelineAssumption
      <3> QED
        BY <1>0, <2>1, <3>1, <3>2, <3>3
        DEF StageInv, TypeOK, producers, transmitter, receiver, consumers
    <2>3. Progress'
      BY <1>0, <2>1, EmptySeq DEF StageInv, Progress, producers, transmitter, receiver, consumers
    <2>4. StagesEndWithTheirInput'
      BY <1>0, <2>1
      DEF StageInv, Progress, StagesEndWithTheirInput, producers, transmitter, receiver, consumers
    <2> QED
      BY <1>0, <2>1, <2>2, <2>3, <2>4 DEF StageInv, Open, transmitter, receiver
  <1>2. CASE ~JoinStages
    <2>1. /\ UNCHANGED queues /\ Open' = Open /\ (shutDown => shutDown') /\ shutDown' \in BOOLEAN
          /\ mainPc' \in {"consumers", "stages", "exited"}
          /\ mainPc' = "consumers" => \A i \in Ids : pPc[i] = "exited"
          /\ mainPc' # "consumers" => mainPc # "producers"
      <3>1. CASE JoinProducers
        BY <3>1 DEF JoinProducers, Open, StageInv, TypeOK
      <3>2. CASE JoinConsumers
        BY <3>2 DEF JoinConsumers, Open
      <3>3. CASE MainReturns
        BY <3>3 DEF MainReturns, Open, StageInv, TypeOK
      <3> QED
        BY <1>2, <3>1, <3>2, <3>3
    <2>2. Stream' = Stream
      BY <1>0, <2>1 DEF Stream, queues, transmitter, receiver
    <2>3. Open => Counted'
      BY <1>0, <2>1, <2>2 DEF StageInv, Counted, queues, transmitter, receiver, producers
    <2>4. TypeOK'
      BY <1>0, <2>1 DEF StageInv, TypeOK, queues, producers, transmitter, receiver, consumers
    <2>5. Progress'
      BY <1>0, <2>1 DEF StageInv, Progress, queues, producers, transmitter, receiver, consumers
    <2>6. StagesEndWithTheirInput'
      BY <1>0, <2>1
      DEF StageInv, StagesEndWithTheirInput, queues, producers, transmitter, receiver, consumers
    <2> QED
      BY <1>0, <2>1, <2>3, <2>4, <2>5, <2>6 DEF StageInv, transmitter, receiver
  <1> QED
    BY <1>1, <1>2

LEMMA StageStutter ==
  ASSUME StageInv, UNCHANGED vars
  PROVE  StageInv'
  <1> USE DEF vars, queues, producers, transmitter, receiver, consumers, main
  <1>1. Stream' = Stream
    BY DEF Stream
  <1>2. Counted' = Counted
    BY <1>1 DEF Counted
  <1>3. TypeOK' = TypeOK
    BY DEF TypeOK
  <1>4. Progress' = Progress
    BY DEF Progress
  <1>5. StagesEndWithTheirInput' = StagesEndWithTheirInput
    BY DEF StagesEndWithTheirInput
  <1> QED
    BY <1>2, <1>3, <1>4, <1>5 DEF StageInv, Open

LEMMA StageNext ==
  ASSUME StageInv, [Next]_vars
  PROVE  StageInv'
  <1>1. ASSUME NEW i \in Ids, Produce(i) \/ ProduceEnd(i)
        PROVE  StageInv'
    BY <1>1, ProduceStep, ProduceEndStep
  <1>2. ASSUME Transmit
        PROVE  StageInv'
    BY <1>2, TransmitterTestStep, TransmitterGetStep, TransmitterPutStep DEF Transmit
  <1>3. ASSUME Receive
        PROVE  StageInv'
    BY <1>3, ReceiverTestStep, ReceiverGetStep, ReceiverPutStep DEF Receive
  <1>4. ASSUME NEW i \in Ids, Consume(i) \/ ConsumerDone(i) \/ ConsumerOfDestroyed(i)
        PROVE  StageInv'
    BY <1>4, ConsumerStep
  <1>5. ASSUME JoinProducers \/ JoinConsumers \/ JoinStages \/ MainReturns
        PROVE  StageInv'
    BY <1>5, MainStep
  <1>6. ASSUME Stopped \/ UNCHANGED vars
        PROVE  StageInv'
    BY <1>6, StageStutter DEF Stopped
  <1> QED
    BY <1>1, <1>2, <1>3, <1>4, <1>5, <1>6 DEF Next

LEMMA StageInvariant == Spec => []StageInv
  BY StageInit, StageNext, PTL DEF Spec

(* The queues hold messages and blocks within their lengths, no block is   *)
(* longer than the array of TBLOCK_SIZE messages, and the counts of the    *)
(* two stages never run below zero.                                        *)
THEOREM PipelineTyping == Spec => []TypeOK
  BY StageInvariant, PTL DEF StageInv

(* The transmitter and the receiver never wait for a producer that has     *)
(* ended, and leave before ShutDown only when their input has passed.      *)
THEOREM StagesEnd == Spec => []StagesEndWithTheirInput
  BY StageInvariant, PTL DEF StageInv

-----------------------------------------------------------------------------
(* Nothing is lost or reordered.                                           *)

(* The units of producer i from a up to b - 1.                             *)
Units(i, a, b) == [n \in 1 .. b - a |-> Message(i, a + n - 1)]

LEMMA UnitsInSeq ==
  ASSUME NEW i \in Ids, NEW a \in 0 .. Goal, NEW b \in a .. Goal
  PROVE  /\ Units(i, a, b) \in Seq(Msg) /\ Len(Units(i, a, b)) = b - a
         /\ \A n \in 1 .. b - a : Units(i, a, b)[n] = Message(i, a + n - 1)
  <1>1. b - a \in Nat
    BY PipelineAssumption
  <1>2. \A n \in 1 .. b - a : Message(i, a + n - 1) \in Msg
    BY PipelineAssumption DEF Message, Msg, EndMark
  <1> QED
    BY <1>1, <1>2 DEF Units

LEMMA UnitsAppend ==
  ASSUME NEW i \in Ids, NEW a \in 0 .. Goal, NEW b \in a .. Goal - 1
  PROVE  Units(i, a, b + 1) = Append(Units(i, a, b), Message(i, b))
  <1> DEFINE s == Units(i, a, b)
             u == Units(i, a, b + 1)
             m == Message(i, b)
  <1>1. m \in Msg /\ b - a \in Nat
    BY PipelineAssumption DEF Message, Msg, EndMark
  <1>2. /\ s \in Seq(Msg) /\ Len(s) = b - a
        /\ \A n \in 1 .. b - a : s[n] = Message(i, a + n - 1)
    <2>1. b \in a .. Goal
      BY PipelineAssumption
    <2> QED
      BY <2>1, UnitsInSeq
  <1>3. /\ u \in Seq(Msg) /\ Len(u) = b - a + 1
        /\ \A n \in 1 .. b - a + 1 : u[n] = Message(i, a + n - 1)
    <2>1. b + 1 \in a .. Goal /\ (b + 1) - a = b - a + 1
      BY PipelineAssumption
    <2> QED
      BY <2>1, UnitsInSeq
  <1> HIDE DEF s, u
  <1>4. /\ Append(s, m) \in Seq(Msg) /\ Len(Append(s, m)) = b - a + 1
        /\ \A n \in 1 .. b - a : Append(s, m)[n] = s[n]
        /\ Append(s, m)[b - a + 1] = m
    BY <1>1, <1>2, AppendProperties
  <1>5. ASSUME NEW n \in 1 .. Len(u)
        PROVE  u[n] = Append(s, m)[n]
    <2>1. CASE n = b - a + 1
      <3>1. a + n - 1 = b
        BY <2>1
      <3> QED
        BY <1>3, <1>4, <1>5, <2>1, <3>1
    <2>2. CASE n # b - a + 1
      <3>1. n \in 1 .. b - a /\ n \in 1 .. b - a + 1
        BY <1>1, <1>3, <1>5, <2>2
      <3> QED
        BY <1>2, <1>3, <1>4, <3>1
    <2> QED
      BY <2>1, <2>2
  <1>6. u = Append(s, m)
    BY <1>3, <1>4, <1>5, SeqEqual
  <1> QED
    BY <1>6 DEF s, u

LEMMA UnitsHead ==
  ASSUME NEW i \in Ids, NEW a \in 0 .. Goal, NEW b \in a + 1 .. Goal
  PROVE  /\ Units(i, a, b) # <<>>
         /\ Head(Units(i, a, b)) = Message(i, a)
         /\ Tail(Units(i, a, b)) = Units(i, a + 1, b)
  <1> DEFINE s == Units(i, a, b)
             u == Units(i, a + 1, b)
  <1>1. /\ s \in Seq(Msg) /\ Len(s) = b - a
        /\ \A n \in 1 .. b - a : s[n] = Message(i, a + n - 1)
    <2>1. b \in a .. Goal
      BY PipelineAssumption
    <2> QED
      BY <2>1, UnitsInSeq
  <1>2. /\ u \in Seq(Msg) /\ Len(u) = b - (a + 1)
        /\ \A n \in 1 .. b - (a + 1) : u[n] = Message(i, (a + 1) + n - 1)
    <2>1. a + 1 \in 0 .. Goal /\ b \in (a + 1) .. Goal
      BY PipelineAssumption
    <2> DEFINE c == a + 1
    <2>2. c \in 0 .. Goal /\ b \in c .. Goal
      BY <2>1
    <2> HIDE DEF c
    <2>3. /\ Units(i, c, b) \in Seq(Msg) /\ Len(Units(i, c, b)) = b - c
          /\ \A n \in 1 .. b - c : Units(i, c, b)[n] = Message(i, c + n - 1)
      BY <2>2, UnitsInSeq
    <2> QED
      BY <2>3 DEF c
  <1> HIDE DEF s, u
  <1>3. s # <<>> /\ Head(s) = s[1] /\ s[1] = Message(i, a)
    <2>1. b - a >= 1 /\ 1 \in 1 .. b - a /\ a + 1 - 1 = a
      BY PipelineAssumption
    <2> QED
      BY <1>1, <2>1, EmptySeq
  <1>4. /\ Tail(s) \in Seq(Msg) /\ Len(Tail(s)) = b - a - 1
        /\ \A n \in 1 .. b - a - 1 : Tail(s)[n] = s[n + 1]
    BY <1>1, <1>3, HeadTailProperties
  <1>5. ASSUME NEW n \in 1 .. Len(u)
        PROVE  u[n] = Tail(s)[n]
    <2>1. /\ n \in 1 .. b - a - 1 /\ n \in 1 .. b - (a + 1) /\ n + 1 \in 1 .. b - a
          /\ (a + 1) + n - 1 = a + (n + 1) - 1
      BY <1>2, PipelineAssumption
    <2> QED
      BY <1>1, <1>2, <1>4, <2>1
  <1>6. u = Tail(s)
    <2>1. b - (a + 1) = b - a - 1
      BY PipelineAssumption
    <2> QED
      BY <1>2, <1>4, <1>5, <2>1, SeqEqual
  <1> QED
    BY <1>3, <1>6 DEF s, u

LEMMA ConcatAppend ==
  ASSUME NEW S, NEW s \in Seq(S), NEW t \in Seq(S), NEW m \in S
  PROVE  s \o Append(t, m) = Append(s \o t, m)
  OBVIOUS

LEMMA ConcatHead ==
  ASSUME NEW S, NEW s \in Seq(S), s # <<>>, NEW t \in Seq(S)
  PROVE  /\ s \o t # <<>>
         /\ Head(s \o t) = Head(s)
         /\ Tail(s \o t) = Tail(s) \o t
  OBVIOUS

LEMMA ForHead ==
  ASSUME NEW i, NEW s \in Seq(Msg), s # <<>>
  PROVE  For(i, s) = IF Head(s).destination = i THEN <<Head(s)>> \o For(i, Tail(s))
                     ELSE For(i, Tail(s))
  <1> DEFINE m == Head(s)
             t == Tail(s)
  <1>1. m \in Msg /\ t \in Seq(Msg) /\ <<m>> \in Seq(Msg) /\ s = <<m>> \o t /\ <<m>> = Append(<<>>, m)
    BY HeadTailProperties
  <1> HIDE DEF m, t
  <1>2. For(i, s) = For(i, <<m>>) \o For(i, t) /\ For(i, t) \in Seq(Msg)
    BY <1>1, ForConcat, ForInSeq
  <1>3. For(i, <<m>>) = IF m.destination = i THEN <<m>> ELSE <<>>
    <2>1. For(i, Append(<<>>, m)) = IF m.destination = i THEN Append(For(i, <<>>), m) ELSE For(i, <<>>)
      BY <1>1, EmptySeq, ForAppend
    <2> QED
      BY <1>1, <2>1, ForEmpty
  <1>4. <<>> \o For(i, t) = For(i, t)
    BY <1>2, ConcatEmptySeq
  <1> QED
    BY <1>2, <1>3, <1>4 DEF m, t

(* The consumers have counted no more than was sent, and what is under way *)
(* is what they have not counted.                                          *)
OrderInv ==
  /\ \A i \in Ids : cDone[i] <= pDone[i]
  /\ NothingLostOrReordered

LEMMA InFlightIs ==
  ASSUME NEW i
  PROVE  InFlight(i) = r2cq[i] \o For(i, Stream)
  BY DEF InFlight, Stream, StreamOf

(* Steps that move messages towards the receiver only.                     *)
LEMMA OrderKept ==
  ASSUME OrderInv, Stream' = Stream, Open' => Open,
         UNCHANGED <<r2cq, pDone, pPc, cDone>>
  PROVE  OrderInv'
  <1>1. \A i \in Ids : Outstanding(i)' = Outstanding(i)
    BY DEF Outstanding
  <1>2. \A i \in Ids : InFlight(i)' = InFlight(i)
    <2>1. \A i : InFlight(i) = r2cq[i] \o For(i, Stream)
      BY InFlightIs
    <2>2. \A i : InFlight(i)' = r2cq'[i] \o For(i, Stream')
      BY DEF InFlight, Stream, StreamOf
    <2> QED
      BY <2>1, <2>2
  <1> QED
    BY <1>1, <1>2 DEF OrderInv, NothingLostOrReordered, Open

(* A message put by producer i is the last under way to consumer i.        *)
LEMMA OrderAppend ==
  ASSUME StageInv, OrderInv, Open, NEW i \in Ids, NEW m \in Msg, m.destination = i,
         Stream' = Append(Stream, m), UNCHANGED <<r2cq, cDone, mainPc>>,
         \A j \in Ids : j # i => pDone'[j] = pDone[j] /\ pPc'[j] = pPc[j],
         pDone'[i] >= cDone[i], Outstanding(i)' = Append(Outstanding(i), m)
  PROVE  OrderInv'
  <1>1. Stream \in Seq(Msg) /\ r2cq \in [Ids -> Seq(Msg)]
    BY StreamFacts DEF StageInv, TypeOK
  <1>2. \A j : InFlight(j) = r2cq[j] \o For(j, Stream)
    BY InFlightIs
  <1>3. \A j : InFlight(j)' = r2cq[j] \o For(j, Append(Stream, m))
    BY DEF InFlight, Stream, StreamOf
  <1>4. \A j \in Ids : InFlight(j) = Outstanding(j)
    BY DEF OrderInv, NothingLostOrReordered, Open
  <1>5. InFlight(i)' = Outstanding(i)'
    <2>1. For(i, Append(Stream, m)) = Append(For(i, Stream), m) /\ For(i, Stream) \in Seq(Msg)
      BY <1>1, ForAppend, ForInSeq
    <2>2. r2cq[i] \o Append(For(i, Stream), m) = Append(r2cq[i] \o For(i, Stream), m)
      <3> DEFINE s == r2cq[i]
                 u == For(i, Stream)
      <3>1. s \in Seq(Msg) /\ u \in Seq(Msg)
        BY <1>1, <2>1
      <3> HIDE DEF s, u
      <3>2. s \o Append(u, m) = Append(s \o u, m)
        BY <3>1, ConcatAppend
      <3> QED
        BY <3>2 DEF s, u
    <2> QED
      BY <1>2, <1>3, <1>4, <2>1, <2>2
  <1>6. ASSUME NEW j \in Ids, j # i
        PROVE  InFlight(j)' = Outstanding(j)'
    <2>1. For(j, Append(Stream, m)) = For(j, Stream)
      BY <1>1, <1>6, ForAppend
    <2>2. Outstanding(j)' = Outstanding(j)
      BY <1>6 DEF Outstanding
    <2> QED
      BY <1>2, <1>3, <1>4, <2>1, <2>2
  <1> QED
    BY <1>5, <1>6 DEF OrderInv, NothingLostOrReordered

LEMMA ProduceOrder ==
  ASSUME StageInv, OrderInv, NEW i \in Ids, Produce(i)
  PROVE  OrderInv'
  <1> DEFINE m == Message(i, pDone[i])
  <1>0. /\ pPc[i] = "running" /\ pDone[i] < Goal /\ pDone' = [pDone EXCEPT ![i] = @ + 1]
        /\ UNCHANGED <<r2cq, pPc, cDone, mainPc>>
    BY DEF Produce, consumers, main
  <1>1. /\ pDone \in [Ids -> 0 .. Goal] /\ cDone[i] \in 0 .. Goal /\ cDone[i] <= pDone[i]
    BY DEF StageInv, TypeOK, OrderInv
  <1>2. pDone[i] \in cDone[i] .. Goal - 1 /\ pDone'[i] = pDone[i] + 1
    BY <1>0, <1>1, PipelineAssumption
  <1>3. m \in Msg /\ m.destination = i /\ Open
    BY <1>0, <1>1, PipelineAssumption DEF Message, Msg, EndMark, StageInv, Progress, Open
  <1>4. Outstanding(i)' = Append(Outstanding(i), m)
    <2>1. Units(i, cDone[i], pDone[i]) \in Seq(Msg) /\ Units(i, cDone[i], pDone[i] + 1) \in Seq(Msg)
      <3>1. pDone[i] \in cDone[i] .. Goal /\ pDone[i] + 1 \in cDone[i] .. Goal
        BY <1>1, <1>2, PipelineAssumption
      <3> QED
        BY <1>1, <3>1, UnitsInSeq
    <2>2. Units(i, cDone[i], pDone[i] + 1) = Append(Units(i, cDone[i], pDone[i]), m)
      BY <1>1, <1>2, UnitsAppend
    <2>3. Outstanding(i) = Units(i, cDone[i], pDone[i]) \o <<>>
      BY <1>0 DEF Outstanding, Units
    <2>4. Outstanding(i)' = Units(i, cDone[i], pDone[i] + 1) \o <<>>
      BY <1>0, <1>2 DEF Outstanding, Units
    <2> QED
      BY <2>1, <2>2, <2>3, <2>4, ConcatEmptySeq
  <1>5. Stream' = Append(Stream, m)
    BY ProduceStep
  <1>6. \A j \in Ids : j # i => pDone'[j] = pDone[j] /\ pPc'[j] = pPc[j]
    BY <1>0, <1>1
  <1>7. pDone'[i] >= cDone[i]
    BY <1>1, <1>2
  <1> HIDE DEF m
  <1> QED
    BY <1>0, <1>3, <1>4, <1>5, <1>6, <1>7, OrderAppend

LEMMA ProduceEndOrder ==
  ASSUME StageInv, OrderInv, NEW i \in Ids, ProduceEnd(i)
  PROVE  OrderInv'
  <1> DEFINE m == EndOf(i)
  <1>0. /\ pPc[i] = "running" /\ pPc' = [pPc EXCEPT ![i] = "exited"]
        /\ UNCHANGED <<r2cq, pDone, cDone, mainPc>>
    BY DEF ProduceEnd, consumers, main
  <1>1. /\ pDone[i] \in 0 .. Goal /\ cDone[i] \in 0 .. Goal /\ cDone[i] <= pDone[i]
        /\ pPc \in [Ids -> {"running", "exited"}]
    BY DEF StageInv, TypeOK, OrderInv
  <1>2. pDone[i] \in cDone[i] .. Goal /\ pPc'[i] = "exited"
    BY <1>0, <1>1, PipelineAssumption
  <1>3. m \in Msg /\ m.destination = i /\ Open
    BY <1>0, EndIsMsg DEF StageInv, Progress, Open
  <1>4. Outstanding(i)' = Append(Outstanding(i), m)
    <2>1. Units(i, cDone[i], pDone[i]) \in Seq(Msg)
      BY <1>1, <1>2, UnitsInSeq
    <2>2. Outstanding(i) = Units(i, cDone[i], pDone[i]) \o <<>>
      BY <1>0 DEF Outstanding, Units
    <2>3. Outstanding(i)' = Units(i, cDone[i], pDone[i]) \o <<m>>
      BY <1>0, <1>2 DEF Outstanding, Units, EndOf
    <2> HIDE DEF m
    <2>4. Append(Units(i, cDone[i], pDone[i]), m) = Units(i, cDone[i], pDone[i]) \o <<m>>
      BY <1>3, <2>1, AppendIsConcat
    <2> QED
      BY <2>1, <2>2, <2>3, <2>4, ConcatEmptySeq
  <1>5. Stream' = Append(Stream, m)
    BY ProduceEndStep
  <1>6. \A j \in Ids : j # i => pDone'[j] = pDone[j] /\ pPc'[j] = pPc[j]
    BY <1>0, <1>1
  <1>7. pDone'[i] >= cDone[i]
    BY <1>0, <1>1
  <1> HIDE DEF m
  <1> QED
    BY <1>0, <1>3, <1>4, <1>5, <1>6, <1>7, OrderAppend

(* The receiver moves the oldest message from the stream to its queue.     *)
LEMMA ReceiverPutOrder ==
  ASSUME StageInv, OrderInv, ReceiverPut
  PROVE  OrderInv'
  <1> DEFINE m == Head(rBlock)
             d == m.destination
  <1>0. /\ r2cq' = [r2cq EXCEPT ![d] = Append(@, m)]
        /\ UNCHANGED <<pDone, pPc, cDone, mainPc>>
    BY DEF ReceiverPut, producers, consumers, main
  <1>1. Stream # <<>> /\ Head(Stream) = m /\ Stream' = Tail(Stream)
    BY ReceiverPutStep
  <1>2. Stream \in Seq(Msg) /\ r2cq \in [Ids -> Seq(Msg)]
    BY StreamFacts DEF StageInv, TypeOK
  <1> HIDE DEF m
  <1>3. m \in Msg /\ d \in Ids /\ <<m>> \in Seq(Msg) /\ Tail(Stream) \in Seq(Msg)
    BY <1>1, <1>2, HeadTailProperties, MsgShape
  <1>4. \A j : InFlight(j) = r2cq[j] \o For(j, Stream)
    BY InFlightIs
  <1>5. \A j : InFlight(j)' = r2cq'[j] \o For(j, Tail(Stream))
    BY <1>1 DEF InFlight, Stream, StreamOf
  <1>6. ASSUME NEW j \in Ids
        PROVE  InFlight(j)' = InFlight(j) /\ Outstanding(j)' = Outstanding(j)
    <2>1. /\ For(j, Stream) = IF d = j THEN <<m>> \o For(j, Tail(Stream)) ELSE For(j, Tail(Stream))
          /\ For(j, Tail(Stream)) \in Seq(Msg)
      BY <1>1, <1>2, <1>3, ForHead, ForInSeq
    <2>2. CASE j = d
      <3>1. r2cq'[j] = r2cq[j] \o <<m>> /\ r2cq[j] \in Seq(Msg)
        BY <1>0, <1>2, <1>3, <2>2, AppendIsConcat
      <3>2. (r2cq[j] \o <<m>>) \o For(j, Tail(Stream)) = r2cq[j] \o (<<m>> \o For(j, Tail(Stream)))
        <4> DEFINE s == r2cq[j]
                   u == For(j, Tail(Stream))
        <4>1. s \in Seq(Msg) /\ u \in Seq(Msg)
          BY <2>1, <3>1
        <4> HIDE DEF s, u
        <4>2. (s \o <<m>>) \o u = s \o (<<m>> \o u)
          BY <1>3, <4>1, ConcatAssociative
        <4> QED
          BY <4>2 DEF s, u
      <3>3. InFlight(j)' = InFlight(j)
        BY <1>4, <1>5, <2>1, <2>2, <3>1, <3>2
      <3> QED
        BY <1>0, <3>3 DEF Outstanding
    <2>3. CASE j # d
      <3>1. r2cq'[j] = r2cq[j]
        BY <1>0, <1>2, <2>3
      <3>2. InFlight(j)' = InFlight(j)
        BY <1>4, <1>5, <2>1, <2>3, <3>1
      <3> QED
        BY <1>0, <3>2 DEF Outstanding
    <2> QED
      BY <2>2, <2>3
  <1> QED
    BY <1>0, <1>6 DEF OrderInv, NothingLostOrReordered

(* A consumer takes the oldest message of its queue: the next unit of its  *)
(* producer, never the end message while units are missing.                *)
LEMMA ConsumeOrder ==
  ASSUME StageInv, OrderInv, ~ProcessEnded, NEW i \in Ids, Consume(i)
  PROVE  OrderInv'
  <1> DEFINE a == cDone[i]
             b == pDone[i]
             e == IF pPc[i] = "exited" THEN <<EndOf(i)>> ELSE <<>>
  <1>0. /\ r2cq[i] # <<>> /\ a < Goal /\ r2cq' = [r2cq EXCEPT ![i] = Tail(@)]
        /\ UNCHANGED <<pDone, pPc, mainPc>>
        /\ ~(Head(r2cq[i]).sequence < 0) => cDone' = [cDone EXCEPT ![i] = @ + 1]
    BY DEF Consume, producers, main
  <1>1. /\ Stream \in Seq(Msg) /\ r2cq \in [Ids -> Seq(Msg)] /\ cDone \in [Ids -> 0 .. Goal]
        /\ a \in 0 .. Goal /\ b \in 0 .. Goal /\ a <= b /\ e \in Seq(Msg)
        /\ pPc[i] \in {"running", "exited"}
    BY StreamFacts, EndIsMsg DEF StageInv, TypeOK, OrderInv
  <1>2. Open
    BY DEF StageInv, TypeOK, Open, ProcessEnded, Consume, Destroyed
  <1>3. /\ InFlight(i) = r2cq[i] \o For(i, Stream)
        /\ For(i, Stream) \in Seq(Msg) /\ r2cq[i] \in Seq(Msg)
    BY <1>1, InFlightIs, ForInSeq
  <1>4. InFlight(i) = Units(i, a, b) \o e
    BY <1>2 DEF OrderInv, NothingLostOrReordered, Open, Outstanding, Units, EndOf
  <1>5. a < b
    <2>1. ASSUME a = b
          PROVE  FALSE
      <3>1. b \in a .. Goal /\ b - a = 0
        BY <1>1, <2>1
      <3>2. Units(i, a, b) \in Seq(Msg) /\ Len(Units(i, a, b)) = 0
        BY <1>1, <3>1, UnitsInSeq
      <3>3. Units(i, a, b) = <<>>
        BY <3>2, EmptySeq
      <3>4. e # <<>>
        <4>1. r2cq[i] \o For(i, Stream) # <<>>
          BY <1>0, <1>3, ConcatHead
        <4>2. <<>> \o e = e
          BY <1>1, ConcatEmptySeq
        <4> HIDE DEF e
        <4> QED
          BY <1>3, <1>4, <3>3, <4>1, <4>2
      <3>5. b = Goal
        BY <3>4 DEF StageInv, Progress
      <3> QED
        BY <1>0, <1>1, <2>1, <3>5
    <2> QED
      BY <1>1, <2>1
  <1>6. b \in a + 1 .. Goal /\ b \in a .. Goal /\ a + 1 \in 0 .. Goal
    <2> HIDE DEF a, b
    <2> QED
      BY <1>1, <1>5, PipelineAssumption
  <1>7. /\ Units(i, a, b) \in Seq(Msg) /\ Units(i, a, b) # <<>>
        /\ Head(Units(i, a, b)) = Message(i, a)
        /\ Tail(Units(i, a, b)) = Units(i, a + 1, b)
    BY <1>1, <1>6, UnitsInSeq, UnitsHead
  <1> HIDE DEF e
  <1>8. /\ Head(InFlight(i)) = Head(r2cq[i]) /\ Tail(InFlight(i)) = Tail(r2cq[i]) \o For(i, Stream)
    BY <1>0, <1>3, ConcatHead
  <1>9. /\ Head(InFlight(i)) = Message(i, a) /\ Tail(InFlight(i)) = Units(i, a + 1, b) \o e
    <2>1. PICK u, v : u = Units(i, a, b) /\ v = e
      OBVIOUS
    <2>2. u \in Seq(Msg) /\ u # <<>> /\ v \in Seq(Msg)
      BY <1>1, <1>7, <2>1
    <2>3. Head(u \o v) = Head(u) /\ Tail(u \o v) = Tail(u) \o v
      BY ONLY <2>2, ConcatHead
    <2> QED
      BY ONLY <1>4, <1>7, <2>1, <2>3
  <1>10. cDone' = [cDone EXCEPT ![i] = a + 1]
    BY <1>0, <1>1, <1>8, <1>9 DEF Message
  <1>11. Stream' = Stream
    BY ConsumerStep
  <1>12. InFlight(i)' = Outstanding(i)'
    <2>1. InFlight(i)' = Tail(r2cq[i]) \o For(i, Stream)
      <3>1. r2cq'[i] = Tail(r2cq[i])
        BY <1>0, <1>1
      <3> QED
        BY <1>11, <3>1 DEF InFlight, Stream, StreamOf
    <2>2. Outstanding(i)' = Units(i, a + 1, b) \o e
      <3>1. cDone'[i] = a + 1 /\ pDone' = pDone /\ pPc' = pPc
        BY <1>0, <1>1, <1>10
      <3> QED
        BY <3>1 DEF Outstanding, Units, EndOf, e
    <2> QED
      BY <1>8, <1>9, <2>1, <2>2
  <1>13. ASSUME NEW j \in Ids, j # i
         PROVE  InFlight(j)' = Outstanding(j)' /\ cDone'[j] <= pDone'[j]
    <2>1. r2cq'[j] = r2cq[j] /\ cDone'[j] = cDone[j]
      BY <1>0, <1>1, <1>10, <1>13
    <2>2. InFlight(j)' = InFlight(j)
      BY <1>11, <2>1 DEF InFlight, Stream, StreamOf
    <2>3. Outstanding(j)' = Outstanding(j)
      BY <1>0, <2>1 DEF Outstanding
    <2> QED
      BY <1>0, <1>2, <2>1, <2>2, <2>3 DEF OrderInv, NothingLostOrReordered, Open
  <1>14. cDone'[i] <= pDone'[i]
    BY <1>0, <1>1, <1>5, <1>10
  <1> QED
    BY <1>12, <1>13, <1>14 DEF OrderInv, NothingLostOrReordered

LEMMA OrderInit ==
  ASSUME Init
  PROVE  OrderInv
  <1> SUFFICES ASSUME NEW i \in Ids
               PROVE  cDone[i] <= pDone[i] /\ InFlight(i) = Outstanding(i)
    BY DEF OrderInv, NothingLostOrReordered
  <1>1. Stream = <<>>
    <2>1. FlattenSeq(<<>>) = <<>> /\ <<>> \in Seq(Msg)
      BY FlattenEmpty, EmptySeq
    <2> QED
      BY <2>1, ConcatEmptySeq DEF Init, Stream, StreamOf
  <1>2. InFlight(i) = <<>>
    <2>1. InFlight(i) = <<>> \o <<>>
      BY <1>1, InFlightIs, ForEmpty DEF Init
    <2> QED
      BY <2>1, EmptySeq, ConcatEmptySeq
  <1>3. Outstanding(i) = <<>>
    <2>1. Units(i, 0, 0) = <<>>
      <3>1. 0 \in 0 .. Goal /\ 0 - 0 = 0
        BY PipelineAssumption
      <3> QED
        BY <3>1, UnitsInSeq, EmptySeq
    <2>2. Outstanding(i) = Units(i, 0, 0) \o <<>>
      BY DEF Init, Outstanding, Units
    <2> QED
      BY <2>1, <2>2, EmptySeq, ConcatEmptySeq
  <1> QED
    BY <1>2, <1>3 DEF Init

LEMMA OrderNext ==
  ASSUME StageInv, OrderInv, [Next]_vars
  PROVE  OrderInv'
  <1>1. ASSUME NEW i \in Ids, Produce(i) \/ ProduceEnd(i)
        PROVE  OrderInv'
    BY <1>1, ProduceOrder, ProduceEndOrder
  <1>2. ASSUME Transmit
        PROVE  OrderInv'
    <2>1. Stream' = Stream
      BY <1>2, TransmitterTestStep, TransmitterGetStep, TransmitterPutStep DEF Transmit
    <2>2. UNCHANGED <<r2cq, pDone, pPc, cDone, mainPc>>
      BY <1>2 DEF Transmit, TransmitterTest, TransmitterGet, TransmitterPut, queues, producers,
                  consumers, main
    <2> QED
      BY <2>1, <2>2, OrderKept DEF Open
  <1>3. ASSUME ReceiverTest \/ ReceiverGet
        PROVE  OrderInv'
    <2>1. Stream' = Stream
      BY <1>3, ReceiverTestStep, ReceiverGetStep
    <2>2. UNCHANGED <<r2cq, pDone, pPc, cDone, mainPc>>
      BY <1>3 DEF ReceiverTest, ReceiverGet, queues, producers, consumers, main
    <2> QED
      BY <2>1, <2>2, OrderKept DEF Open
  <1>4. ASSUME ReceiverPut
        PROVE  OrderInv'
    BY <1>4, ReceiverPutOrder
  <1>5. ASSUME ~ProcessEnded, NEW i \in Ids, Consume(i)
        PROVE  OrderInv'
    BY <1>5, ConsumeOrder
  <1>6. ASSUME NEW i \in Ids, ConsumerDone(i) \/ ConsumerOfDestroyed(i)
        PROVE  OrderInv'
    <2>1. Stream' = Stream
      BY <1>6, ConsumerStep
    <2>2. UNCHANGED <<r2cq, pDone, pPc, cDone>> /\ (Open' => Open)
      BY <1>6 DEF ConsumerDone, ConsumerOfDestroyed, queues, producers, main, Open, Destroyed
    <2> QED
      BY <2>1, <2>2, OrderKept
  <1>7. ASSUME JoinProducers \/ JoinConsumers \/ JoinStages \/ MainReturns
        PROVE  OrderInv'
    <2>1. CASE JoinProducers \/ JoinConsumers
      <3>1. UNCHANGED <<queues, transmitter, receiver, producers, consumers>> /\ Open
        BY <2>1 DEF JoinProducers, JoinConsumers, Open
      <3>2. Stream' = Stream
        BY <3>1 DEF Stream, queues, transmitter, receiver
      <3> QED
        BY <3>1, <3>2, OrderKept DEF queues, producers, consumers
    <2>2. CASE JoinStages \/ MainReturns
      <3>1. UNCHANGED <<producers, consumers>> /\ mainPc' \in {"destroyed", "exited"}
        BY <2>2 DEF JoinStages, MainReturns
      <3> QED
        BY <3>1 DEF OrderInv, NothingLostOrReordered, producers, consumers
    <2> QED
      BY <1>7, <2>1, <2>2
  <1>8. ASSUME Stopped \/ UNCHANGED vars
        PROVE  OrderInv'
    <2>1. UNCHANGED vars
      BY <1>8 DEF Stopped
    <2>2. Stream' = Stream /\ UNCHANGED <<r2cq, pDone, pPc, cDone, mainPc>>
      BY <2>1 DEF vars, queues, producers, transmitter, receiver, consumers, main, Stream
    <2> QED
      BY <2>2, OrderKept DEF Open
  <1> QED
    BY <1>1, <1>2, <1>3, <1>4, <1>5, <1>6, <1>7, <1>8 DEF Next, Receive

(* Until main destroys the queues every message of every producer is in    *)
(* one place and in its order, through blocks and queues of any lengths,   *)
(* also when ShutDown cuts the pipeline.                                   *)
THEOREM PipelineKeepsOrder == Spec => []NothingLostOrReordered
  <1>1. Init => OrderInv
    BY OrderInit
  <1>2. StageInv /\ OrderInv /\ [Next]_vars => OrderInv'
    BY OrderNext
  <1>3. OrderInv => NothingLostOrReordered
    BY DEF OrderInv
  <1> QED
    BY <1>1, <1>2, <1>3, StageInvariant, PTL DEF Spec
=============================================================================
