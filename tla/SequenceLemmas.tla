--------------------------- MODULE SequenceLemmas ---------------------------
(***************************************************************************)
(* Facts about sequences and numbers that the proofs of several components *)
(* rest on. Induction is stated with a set of numbers or of sequences, and *)
(* follows from the well-foundedness of the order of the finite sets.      *)
(***************************************************************************)
EXTENDS SequencesExt, Sorting, FiniteSetTheorems, SequenceTheorems, TLAPS

(* The finite initial segments of the naturals are ordered as their ends,  *)
(* so a set of naturals has a least element.                               *)
LEMMA LeastElement ==
  ASSUME NEW S, S \subseteq Nat, S # {}
  PROVE  \E x \in S : \A y \in S : x <= y
  <1> DEFINE Segments == {0 .. x : x \in S}
  <1>1. Segments \subseteq FiniteSubsetsOf(Nat) /\ Segments # {}
    <2>1. \A x \in S : 0 .. x \in SUBSET Nat /\ IsFiniteSet(0 .. x)
      BY FS_Interval
    <2> QED
      BY <2>1 DEF FiniteSubsetsOf
  <1>2. PICK A \in Segments : \A B \in Segments : <<B, A>> \notin StrictSubsetOrdering(Nat)
    <2> HIDE DEF Segments
    <2> QED
      BY <1>1, FS_StrictSubsetOrderingWellFounded, WFMin
  <1>3. PICK x \in S : A = 0 .. x
    BY <1>2
  <1>4. ASSUME NEW y \in S, ~(x <= y)
        PROVE  FALSE
    <2>1. <<0 .. y, 0 .. x>> \notin StrictSubsetOrdering(Nat)
      BY <1>2, <1>3
    <2>2. /\ 0 .. y \in SUBSET Nat /\ 0 .. x \in SUBSET Nat
          /\ 0 .. y \subseteq 0 .. x /\ 0 .. y # 0 .. x
      BY <1>4
    <2> QED
      BY <2>1, <2>2 DEF StrictSubsetOrdering
  <1> QED
    BY <1>4

(* Induction over the naturals, stated with a set.                         *)
LEMMA SetInduction ==
  ASSUME NEW S, 0 \in S, \A n \in Nat : n \in S => n + 1 \in S
  PROVE  Nat \subseteq S
  <1> SUFFICES ASSUME Nat \ S # {}
               PROVE  FALSE
    OBVIOUS
  <1>1. PICK x \in Nat \ S : \A y \in Nat \ S : x <= y
    BY LeastElement
  <1>2. x - 1 \in S /\ x - 1 \in Nat
    BY <1>1
  <1> QED
    BY <1>1, <1>2

(* Induction over sequences, stated with a set.                            *)
LEMMA SequenceInduction ==
  ASSUME NEW S, NEW P, <<>> \in P,
         \A s \in Seq(S), m \in S : s \in P => Append(s, m) \in P
  PROVE  Seq(S) \subseteq P
  <1> DEFINE K == {n \in Nat : \A s \in Seq(S) : Len(s) = n => s \in P}
  <1>1. 0 \in K
    BY EmptySeq
  <1>2. ASSUME NEW n \in Nat, n \in K
        PROVE  n + 1 \in K
    <2> SUFFICES ASSUME NEW s \in Seq(S), Len(s) = n + 1
                 PROVE  s \in P
      OBVIOUS
    <2>1. PICK t \in Seq(S), m \in S : s = Append(t, m)
      BY SequenceEmptyOrAppend, EmptySeq
    <2>2. Len(t) = n
      BY <2>1, AppendProperties, LenProperties
    <2> QED
      BY <1>2, <2>1, <2>2
  <1> HIDE DEF K
  <1>3. Nat \subseteq K
    BY <1>1, <1>2, SetInduction
  <1> QED
    BY <1>3, LenProperties DEF K

-----------------------------------------------------------------------------
(* Concatenation is associative, with a name for it that the provers match *)
(* as it stands.                                                           *)
Grouped(s, t, u) == (s \o t) \o u = s \o (t \o u)

LEMMA Regroup ==
  ASSUME NEW S, NEW s \in Seq(S), NEW t \in Seq(S), NEW u \in Seq(S)
  PROVE  Grouped(s, t, u)
  BY ConcatAssociative DEF Grouped

LEMMA ConcatInSeq ==
  ASSUME NEW S, NEW s \in Seq(S), NEW t \in Seq(S)
  PROVE  s \o t \in Seq(S)
  BY ConcatProperties

-----------------------------------------------------------------------------
(* What the function in FlattenSeq is, up to a length.                     *)
IsFlatten(q, f, N) ==
  f = [n \in 1 .. N |-> IF n = 1 THEN q[n] ELSE f[n - 1] \o q[n]]

LEMMA FlattenExists ==
  ASSUME NEW q, NEW N \in Nat
  PROVE  \E f : IsFlatten(q, f, N)
  <1> DEFINE K == {n \in Nat : \E f : IsFlatten(q, f, n)}
  <1>1. 0 \in K
    <2>1. IsFlatten(q, [n \in 1 .. 0 |-> q], 0)
      BY DEF IsFlatten
    <2> QED
      BY <2>1
  <1>2. ASSUME NEW n \in Nat, n \in K
        PROVE  n + 1 \in K
    <2>1. PICK f : IsFlatten(q, f, n)
      BY <1>2
    <2> DEFINE g == [k \in 1 .. n + 1 |->
                       IF k = n + 1
                       THEN IF k = 1 THEN q[k] ELSE f[n] \o q[k]
                       ELSE f[k]]
    <2>2. IsFlatten(q, g, n + 1)
      <3> SUFFICES ASSUME NEW k \in 1 .. n + 1
                   PROVE  g[k] = IF k = 1 THEN q[k] ELSE g[k - 1] \o q[k]
        BY DEF IsFlatten
      <3>1. CASE k = n + 1
        <4>1. k # 1 => k - 1 = n /\ g[k - 1] = f[n]
          BY <3>1
        <4> QED
          BY <3>1, <4>1
      <3>2. CASE k # n + 1
        <4>1. k \in 1 .. n /\ g[k] = f[k] /\ (k # 1 => g[k - 1] = f[k - 1])
          BY <3>2
        <4>2. f[k] = IF k = 1 THEN q[k] ELSE f[k - 1] \o q[k]
          BY <2>1, <4>1 DEF IsFlatten
        <4> QED
          BY <4>1, <4>2
      <3> QED
        BY <3>1, <3>2
    <2> QED
      BY <2>2
  <1> HIDE DEF K
  <1>3. Nat \subseteq K
    BY <1>1, <1>2, SetInduction
  <1> QED
    BY <1>3 DEF K

LEMMA FlattenStep ==
  ASSUME NEW q, NEW N \in Nat, NEW f, IsFlatten(q, f, N), NEW k \in 1 .. N
  PROVE  f[k] = IF k = 1 THEN q[k] ELSE f[k - 1] \o q[k]
  BY DEF IsFlatten

LEMMA FlattenIs ==
  ASSUME NEW q, Len(q) \in Nat \ {0}
  PROVE  \E f : IsFlatten(q, f, Len(q)) /\ FlattenSeq(q) = f[Len(q)]
  <1> DEFINE f == CHOOSE f : IsFlatten(q, f, Len(q))
  <1>1. IsFlatten(q, f, Len(q))
    BY FlattenExists
  <1>2. FlattenSeq(q) = f[Len(q)]
    BY DEF FlattenSeq, IsFlatten
  <1> QED
    BY <1>1, <1>2

LEMMA FlattenEmpty == FlattenSeq(<<>>) = <<>>
  BY DEF FlattenSeq

LEMMA FlattenAppend ==
  ASSUME NEW S, NEW q \in Seq(Seq(S)), NEW b \in Seq(S)
  PROVE  FlattenSeq(Append(q, b)) = FlattenSeq(q) \o b
  <1> DEFINE r == Append(q, b)
             N == Len(q) + 1
  <1>1. /\ Len(q) \in Nat /\ N \in Nat \ {0} /\ Len(r) = N /\ r[N] = b
        /\ \A n \in 1 .. Len(q) : r[n] = q[n]
    BY AppendProperties, LenProperties
  <1>0. 0 .. Len(q) = 0 .. N - 1 /\ N - 1 = Len(q) /\ 1 .. Len(q) \subseteq 1 .. N /\ N \in 1 .. N
    BY <1>1
  <1> HIDE DEF r, N
  <1>2. PICK g : IsFlatten(r, g, N) /\ FlattenSeq(r) = g[N]
    BY <1>1, FlattenIs
  <1>3. g[N] = IF N = 1 THEN b ELSE g[Len(q)] \o b
    BY <1>0, <1>1, <1>2, FlattenStep
  <1>4. CASE q = <<>>
    <2>1. N = 1
      BY <1>4, EmptySeq DEF N
    <2> QED
      BY <1>2, <1>3, <1>4, <2>1, FlattenEmpty, ConcatEmptySeq DEF r
  <1>5. CASE q # <<>>
    <2>1. Len(q) \in Nat \ {0} /\ N # 1
      BY <1>5, EmptySeq DEF N
    <2>2. PICK f : IsFlatten(q, f, Len(q)) /\ FlattenSeq(q) = f[Len(q)]
      BY <2>1, FlattenIs
    <2> DEFINE K == {n \in Nat : n \in 1 .. Len(q) => g[n] = f[n]}
    <2>3. 0 \in K
      OBVIOUS
    <2>4. ASSUME NEW n \in Nat, n \in K
          PROVE  n + 1 \in K
      <3> SUFFICES ASSUME n + 1 \in 1 .. Len(q)
                   PROVE  g[n + 1] = f[n + 1]
        OBVIOUS
      <3> DEFINE k == n + 1
      <3>1. N \in Nat /\ k \in 1 .. N /\ k \in 1 .. Len(q) /\ r[k] = q[k] /\ k - 1 = n
        BY <1>0, <1>1
      <3>2. k # 1 => g[k - 1] = f[k - 1]
        BY <1>1, <2>4
      <3> HIDE DEF k
      <3>3. g[k] = IF k = 1 THEN r[k] ELSE g[k - 1] \o r[k]
        BY <1>2, <3>1, FlattenStep
      <3>4. f[k] = IF k = 1 THEN q[k] ELSE f[k - 1] \o q[k]
        <4>1. PICK l \in Nat : l = Len(q)
          BY <2>1
        <4>2. IsFlatten(q, f, l) /\ k \in 1 .. l
          BY <2>2, <3>1, <4>1
        <4> QED
          BY ONLY <4>2 DEF IsFlatten
      <3>5. g[k] = f[k]
        BY <3>1, <3>2, <3>3, <3>4
      <3> QED
        BY <3>5 DEF k
    <2>5. g[Len(q)] = f[Len(q)]
      <3> HIDE DEF K
      <3>1. Nat \subseteq K
        BY <2>3, <2>4, SetInduction
      <3> QED
        BY <1>1, <2>1, <3>1 DEF K
    <2> QED
      BY <1>2, <1>3, <2>1, <2>2, <2>5 DEF r
  <1> QED
    BY <1>4, <1>5

LEMMA FlattenInSeq ==
  ASSUME NEW S, NEW q \in Seq(Seq(S))
  PROVE  FlattenSeq(q) \in Seq(S)
  <1> DEFINE P == {u \in Seq(Seq(S)) : FlattenSeq(u) \in Seq(S)}
  <1>1. <<>> \in P
    BY FlattenEmpty, EmptySeq
  <1>2. ASSUME NEW u \in Seq(Seq(S)), NEW b \in Seq(S), u \in P
        PROVE  Append(u, b) \in P
    <2>1. FlattenSeq(Append(u, b)) = FlattenSeq(u) \o b
      BY FlattenAppend
    <2>2. FlattenSeq(u) \o b \in Seq(S)
      BY <1>2, ConcatProperties
    <2> QED
      BY <2>1, <2>2, AppendProperties
  <1> HIDE DEF P
  <1>3. Seq(Seq(S)) \subseteq P
    BY <1>1, <1>2, SequenceInduction
  <1> QED
    BY <1>3 DEF P

LEMMA FlattenHeadTail ==
  ASSUME NEW S, NEW q \in Seq(Seq(S)), q # <<>>
  PROVE  FlattenSeq(q) = Head(q) \o FlattenSeq(Tail(q))
  <1> DEFINE P == {u \in Seq(Seq(S)) : u # <<>> => FlattenSeq(u) = Head(u) \o FlattenSeq(Tail(u))}
  <1>1. <<>> \in P
    BY EmptySeq
  <1>2. ASSUME NEW u \in Seq(Seq(S)), NEW b \in Seq(S), u \in P
        PROVE  Append(u, b) \in P
    <2>1. /\ FlattenSeq(Append(u, b)) = FlattenSeq(u) \o b
          /\ Append(u, b) \in Seq(Seq(S))
          /\ Head(Append(u, b)) = IF u = <<>> THEN b ELSE Head(u)
          /\ Tail(Append(u, b)) = IF u = <<>> THEN <<>> ELSE Append(Tail(u), b)
      BY FlattenAppend, AppendProperties, HeadTailAppend
    <2>2. CASE u = <<>>
      BY <2>1, <2>2, FlattenEmpty, ConcatEmptySeq
    <2>3. CASE u # <<>>
      <3>1. /\ Head(u) \in Seq(S) /\ Tail(u) \in Seq(Seq(S))
            /\ FlattenSeq(Tail(u)) \in Seq(S)
        BY <2>3, HeadTailProperties, FlattenInSeq
      <3>2. FlattenSeq(Append(Tail(u), b)) = FlattenSeq(Tail(u)) \o b
        BY <3>1, FlattenAppend
      <3>3. (Head(u) \o FlattenSeq(Tail(u))) \o b = Head(u) \o (FlattenSeq(Tail(u)) \o b)
        <4> DEFINE h == Head(u)
                   v == FlattenSeq(Tail(u))
        <4>1. h \in Seq(S) /\ v \in Seq(S)
          BY <3>1
        <4> HIDE DEF h, v
        <4>2. Grouped(h, v, b)
          BY <4>1, Regroup
        <4> QED
          BY <4>2 DEF h, v, Grouped
      <3> QED
        BY <1>2, <2>1, <2>3, <3>2, <3>3
    <2> QED
      BY <2>2, <2>3
  <1> HIDE DEF P
  <1>3. Seq(Seq(S)) \subseteq P
    BY <1>1, <1>2, SequenceInduction
  <1> QED
    BY <1>3 DEF P

LEMMA FlattenConcat ==
  ASSUME NEW S, NEW q \in Seq(Seq(S)), NEW r \in Seq(Seq(S))
  PROVE  FlattenSeq(q \o r) = FlattenSeq(q) \o FlattenSeq(r)
  <1> DEFINE P == {u \in Seq(Seq(S)) : FlattenSeq(q \o u) = FlattenSeq(q) \o FlattenSeq(u)}
  <1>1. <<>> \in P
    BY FlattenEmpty, FlattenInSeq, EmptySeq, ConcatEmptySeq
  <1>2. ASSUME NEW u \in Seq(Seq(S)), NEW b \in Seq(S), u \in P
        PROVE  Append(u, b) \in P
    <2>1. /\ Append(u, b) \in Seq(Seq(S)) /\ q \o u \in Seq(Seq(S))
          /\ q \o Append(u, b) = Append(q \o u, b)
      <3>1. Append(u, b) = u \o <<b>> /\ Append(q \o u, b) = (q \o u) \o <<b>> /\ <<b>> \in Seq(Seq(S))
        BY AppendIsConcat, ConcatProperties
      <3>2. Grouped(q, u, <<b>>)
        BY <3>1, Regroup
      <3> QED
        BY <3>1, <3>2, AppendProperties, ConcatProperties DEF Grouped
    <2>2. /\ FlattenSeq(Append(q \o u, b)) = FlattenSeq(q \o u) \o b
          /\ FlattenSeq(Append(u, b)) = FlattenSeq(u) \o b
      BY <2>1, FlattenAppend
    <2> DEFINE x == FlattenSeq(q)
               y == FlattenSeq(u)
    <2>3. x \in Seq(S) /\ y \in Seq(S) /\ FlattenSeq(q \o u) = x \o y
      BY <1>2, FlattenInSeq
    <2> HIDE DEF x, y
    <2>4. Grouped(x, y, b)
      BY <2>3, Regroup
    <2> QED
      BY <2>1, <2>2, <2>3, <2>4 DEF x, y, Grouped
  <1> HIDE DEF P
  <1>3. Seq(Seq(S)) \subseteq P
    BY <1>1, <1>2, SequenceInduction
  <1> QED
    BY <1>3 DEF P

-----------------------------------------------------------------------------
(* A sequence is the two parts into which it is cut.                       *)
LEMMA Cut ==
  ASSUME NEW S, NEW s \in Seq(S), NEW n \in 0 .. Len(s)
  PROVE  /\ SubSeq(s, 1, n) \in Seq(S) /\ Len(SubSeq(s, 1, n)) = n
         /\ SubSeq(s, n + 1, Len(s)) \in Seq(S) /\ Len(SubSeq(s, n + 1, Len(s))) = Len(s) - n
         /\ SubSeq(s, 1, n) \o SubSeq(s, n + 1, Len(s)) = s
         /\ \A i \in 1 .. n : SubSeq(s, 1, n)[i] = s[i]
  <1>1. Len(s) \in Nat /\ \A i \in 1 .. Len(s) : s[i] \in S
    BY LenProperties, ElementOfSeq
  <1>2. /\ SubSeq(s, 1, n) \in Seq(S) /\ Len(SubSeq(s, 1, n)) = n
        /\ \A i \in 1 .. n : SubSeq(s, 1, n)[i] = s[i]
    <2>1. n \in Int /\ \A i \in 1 .. n : s[i] \in S
      BY <1>1
    <2>2. /\ SubSeq(s, 1, n) \in Seq(S)
          /\ Len(SubSeq(s, 1, n)) = IF 1 <= n THEN n - 1 + 1 ELSE 0
          /\ \A i \in 1 .. n - 1 + 1 : SubSeq(s, 1, n)[i] = s[1 + i - 1]
      BY <2>1, SubSeqProperties
    <2> QED
      BY <1>1, <2>2
  <1>3. SubSeq(s, n + 1, Len(s)) \in Seq(S) /\ Len(SubSeq(s, n + 1, Len(s))) = Len(s) - n
    <2> DEFINE m == n + 1
    <2>1. m \in Int /\ Len(s) \in Int /\ \A i \in m .. Len(s) : s[i] \in S
      BY <1>1
    <2> HIDE DEF m
    <2>2. /\ SubSeq(s, m, Len(s)) \in Seq(S)
          /\ Len(SubSeq(s, m, Len(s))) = IF m <= Len(s) THEN Len(s) - m + 1 ELSE 0
      BY <2>1, SubSeqProperties
    <2> QED
      BY <1>1, <2>2 DEF m
  <1>4. SubSeq(s, 1, n) \o SubSeq(s, n + 1, Len(s)) = s
    <2>1. 1 \in 1 .. Len(s) + 1 /\ n \in 1 - 1 .. Len(s) /\ Len(s) \in n .. Len(s)
      BY <1>1
    <2>2. SubSeq(s, 1, n) \o SubSeq(s, n + 1, Len(s)) = SubSeq(s, 1, Len(s))
      BY <2>1, ConcatAdjacentSubSeq
    <2> QED
      BY <2>2, SubSeqFull
  <1> QED
    BY <1>2, <1>3, <1>4

(* What follows the first part is the second part.                         *)
LEMMA DropFirst ==
  ASSUME NEW S, NEW s \in Seq(S), NEW t \in Seq(S)
  PROVE  SubSeq(s \o t, Len(s) + 1, Len(s \o t)) = t
  <1> DEFINE u == s \o t
             n == Len(s)
             v == SubSeq(u, n + 1, Len(u))
  <1>1. /\ u \in Seq(S) /\ n \in Nat /\ Len(t) \in Nat /\ Len(u) = n + Len(t)
        /\ \A i \in 1 .. n + Len(t) : u[i] = IF i <= n THEN s[i] ELSE t[i - n]
    BY ConcatProperties, LenProperties
  <1> HIDE DEF u, n
  <1>2. \A i \in n + 1 .. Len(u) : u[i] \in S
    BY <1>1, ElementOfSeq
  <1>3. /\ v \in Seq(S) /\ Len(v) = IF n + 1 <= Len(u) THEN Len(u) - (n + 1) + 1 ELSE 0
        /\ \A i \in 1 .. Len(u) - (n + 1) + 1 : v[i] = u[n + 1 + i - 1]
    <2> DEFINE m == n + 1
    <2>1. m \in Int /\ Len(u) \in Int
      BY <1>1
    <2> HIDE DEF m
    <2>2. /\ SubSeq(u, m, Len(u)) \in Seq(S)
          /\ Len(SubSeq(u, m, Len(u))) = IF m <= Len(u) THEN Len(u) - m + 1 ELSE 0
          /\ \A i \in 1 .. Len(u) - m + 1 : SubSeq(u, m, Len(u))[i] = u[m + i - 1]
      BY <1>2, <2>1, SubSeqProperties DEF m
    <2> QED
      BY <2>2 DEF m
  <1> HIDE DEF v
  <1>4. Len(v) = Len(t)
    BY <1>1, <1>3
  <1>5. \A i \in 1 .. Len(t) : v[i] = t[i]
    <2> TAKE i \in 1 .. Len(t)
    <2>1. i \in 1 .. Len(u) - (n + 1) + 1 /\ n + 1 + i - 1 = n + i /\ n + i \in 1 .. n + Len(t) /\ ~(n + i <= n) /\ n + i - n = i
      BY <1>1
    <2>2. v[i] = u[n + i] /\ u[n + i] = t[i]
      BY <1>1, <1>3, <2>1
    <2> QED
      BY <2>2
  <1>6. v = t
    BY <1>3, <1>4, <1>5, SeqEqual
  <1> QED
    BY <1>6 DEF v, u, n

(* A stream of several parts is regrouped when a piece of it moves from    *)
(* one part to the next. The equations have names, so that the provers     *)
(* apply them to the sequences meant.                                      *)
GroupedSent(a, w, p, q) == (a \o w) \o (p \o q) = (a \o (w \o p)) \o q
GroupedReturned(a, m, u, v) == (a \o m) \o (u \o v) = ((a \o (m \o u)) \o <<>>) \o v
GroupedTaken(a, m, c, r) == ((a \o m) \o <<>>) \o (c \o r) = ((a \o (m \o c)) \o <<>>) \o r
GroupedStream(a, m, b, w, r) == (((a \o m) \o b) \o w) \o r = a \o (((m \o b) \o w) \o r)
GroupedHead(a, d, l, x) == (a \o (d \o l)) \o x = a \o (d \o (l \o x))

LEMMA RegroupSent ==
  ASSUME NEW S, NEW a \in Seq(S), NEW w \in Seq(S), NEW p \in Seq(S), NEW q \in Seq(S)
  PROVE  GroupedSent(a, w, p, q)
  <1>1. a \o w \in Seq(S)
    BY ConcatInSeq
  <1>2. Grouped(a \o w, p, q) /\ Grouped(a, w, p)
    BY <1>1, Regroup
  <1> QED
    BY <1>2 DEF Grouped, GroupedSent

LEMMA RegroupReturned ==
  ASSUME NEW S, NEW a \in Seq(S), NEW m \in Seq(S), NEW u \in Seq(S), NEW v \in Seq(S)
  PROVE  GroupedReturned(a, m, u, v)
  <1>1. m \o u \in Seq(S)
    BY ConcatInSeq
  <1>2. a \o (m \o u) \in Seq(S)
    BY <1>1, ConcatInSeq
  <1>3. (a \o (m \o u)) \o <<>> = a \o (m \o u)
    BY <1>2, ConcatEmptySeq
  <1>4. GroupedSent(a, m, u, v)
    BY RegroupSent
  <1> QED
    BY <1>3, <1>4 DEF GroupedSent, GroupedReturned

LEMMA RegroupTaken ==
  ASSUME NEW S, NEW a \in Seq(S), NEW m \in Seq(S), NEW c \in Seq(S), NEW r \in Seq(S)
  PROVE  GroupedTaken(a, m, c, r)
  <1>1. a \o m \in Seq(S)
    BY ConcatInSeq
  <1>2. (a \o m) \o <<>> = a \o m
    BY <1>1, ConcatEmptySeq
  <1>3. GroupedReturned(a, m, c, r)
    BY RegroupReturned
  <1> QED
    BY <1>2, <1>3 DEF GroupedReturned, GroupedTaken

LEMMA RegroupStream ==
  ASSUME NEW S, NEW a \in Seq(S), NEW m \in Seq(S), NEW b \in Seq(S), NEW w \in Seq(S),
         NEW r \in Seq(S)
  PROVE  GroupedStream(a, m, b, w, r) /\ ((m \o b) \o w) \o r \in Seq(S)
  <1>1. m \o b \in Seq(S) /\ Grouped(a, m, b)
    BY ConcatInSeq, Regroup
  <1>2. (m \o b) \o w \in Seq(S) /\ Grouped(a, m \o b, w)
    BY <1>1, ConcatInSeq, Regroup
  <1>3. ((m \o b) \o w) \o r \in Seq(S) /\ Grouped(a, (m \o b) \o w, r)
    BY <1>2, ConcatInSeq, Regroup
  <1> QED
    BY <1>1, <1>2, <1>3 DEF Grouped, GroupedStream

LEMMA RegroupHead ==
  ASSUME NEW S, NEW a \in Seq(S), NEW d \in Seq(S), NEW l \in Seq(S), NEW x \in Seq(S)
  PROVE  GroupedHead(a, d, l, x) /\ l \o x \in Seq(S)
  <1>1. d \o l \in Seq(S) /\ l \o x \in Seq(S) /\ Grouped(d, l, x)
    BY ConcatInSeq, Regroup
  <1>2. Grouped(a, d \o l, x)
    BY <1>1, Regroup
  <1> QED
    BY <1>1, <1>2 DEF Grouped, GroupedHead

-----------------------------------------------------------------------------
(* Remainders by any positive number.                                      *)

LEMMA ProductSum ==
  ASSUME NEW w \in Int, NEW p \in Int, NEW q \in Int
  PROVE  w * p + w * q = w * (p + q) /\ w * p - w * q = w * (p - q)
  OBVIOUS

LEMMA Remainder ==
  ASSUME NEW w \in Nat \ {0}, NEW x \in Int
  PROVE  x % w \in 0 .. w - 1 /\ x % w \in Int /\ \E q \in Int : x = w * q + (x % w)
  <1> DEFINE q == x \div w
             r == x % w
  <1>1. q \in Int /\ r \in 0 .. w - 1 /\ r \in Int
    OBVIOUS
  <1>2. \A p, s \in Int : p = q /\ s = r => x = w * p + s
    OBVIOUS
  <1> HIDE DEF q, r
  <1>3. x = w * q + r
    BY <1>1, <1>2
  <1>4. \E p \in Int : x = w * p + r
    BY <1>1, <1>3
  <1> QED
    BY <1>1, <1>4 DEF r

LEMMA SmallProduct ==
  ASSUME NEW w \in Nat \ {0}, NEW p \in Int, -w < w * p, w * p < w
  PROVE  p = 0
  OBVIOUS

LEMMA RemainderUnique ==
  ASSUME NEW w \in Nat \ {0}, NEW q \in Int, NEW r \in 0 .. w - 1
  PROVE  (w * q + r) % w = r
  <1> DEFINE x == w * q + r
             s == x % w
  <1>1. w * q \in Int /\ x \in Int
    OBVIOUS
  <1>2. PICK p \in Int : x = w * p + s /\ s \in 0 .. w - 1 /\ s \in Int
    <2> HIDE DEF x
    <2> QED
      BY <1>1, Remainder
  <1>3. w * q - w * p = w * (q - p) /\ q - p \in Int /\ w * p \in Int
    BY ProductSum
  <1>4. w * q - w * p = s - r
    <2> HIDE DEF s
    <2> QED
      BY <1>1, <1>2, <1>3
  <1>5. -w < w * (q - p) /\ w * (q - p) < w
    <2> HIDE DEF s
    <2> QED
      BY <1>2, <1>3, <1>4
  <1>6. q - p = 0
    BY <1>3, <1>5, SmallProduct
  <1> HIDE DEF s
  <1>7. s = r
    BY <1>2, <1>6
  <1> QED
    BY <1>7 DEF s

LEMMA RemainderIs ==
  ASSUME NEW w \in Nat \ {0}, NEW q \in Int, NEW r \in 0 .. w - 1, NEW x, x = w * q + r
  PROVE  x % w = r
  BY RemainderUnique

LEMMA RemainderPlus ==
  ASSUME NEW w \in Nat \ {0}, NEW x \in Int, NEW y \in Int
  PROVE  ((x % w) + y) % w = (x + y) % w
  <1> DEFINE s == x % w
             u == s + y
             r == u % w
  <1>1. PICK q \in Int : x = w * q + s /\ s \in Int
    BY Remainder
  <1> HIDE DEF s
  <1>2. PICK p \in Int : u = w * p + r /\ r \in 0 .. w - 1 /\ r \in Int
    <2>1. u \in Int
      BY <1>1
    <2> HIDE DEF u
    <2> QED
      BY <2>1, Remainder
  <1> HIDE DEF r
  <1>3. w * q + w * p = w * (q + p) /\ q + p \in Int
    BY ProductSum
  <1>4. x + y = w * (q + p) + r
    BY <1>1, <1>2, <1>3
  <1>5. (x + y) % w = r
    <2> DEFINE z == x + y
    <2>1. z = w * (q + p) + r
      BY <1>4
    <2> HIDE DEF z
    <2>2. z % w = r
      BY <1>2, <1>3, <2>1, RemainderIs
    <2> QED
      BY <2>2 DEF z
  <1> QED
    BY <1>5 DEF s, r

LEMMA RemainderMinus ==
  ASSUME NEW w \in Nat \ {0}, NEW x \in Int, NEW y \in Int
  PROVE  (y - (x % w)) % w = (y - x) % w
  <1> DEFINE s == x % w
             u == y - s
             r == u % w
  <1>1. PICK q \in Int : x = w * q + s /\ s \in Int
    BY Remainder
  <1> HIDE DEF s
  <1>2. PICK p \in Int : u = w * p + r /\ r \in 0 .. w - 1 /\ r \in Int
    <2>1. u \in Int
      BY <1>1
    <2> HIDE DEF u
    <2> QED
      BY <2>1, Remainder
  <1> HIDE DEF r
  <1>3. w * p - w * q = w * (p - q) /\ p - q \in Int
    BY ProductSum
  <1>4. y - x = w * (p - q) + r
    BY <1>1, <1>2, <1>3
  <1>5. (y - x) % w = r
    BY <1>2, <1>3, <1>4, RemainderIs
  <1> QED
    BY <1>5 DEF s, r

LEMMA RemainderSteps ==
  ASSUME NEW w \in Nat \ {0}
  PROVE  \A x \in Int : /\ ((x % w) + 1) % w = (x + 1) % w
                       /\ ((x % w) + (-1)) % w = (x + (-1)) % w
  <1> TAKE x \in Int
  <1>1. \A y \in Int : ((x % w) + y) % w = (x + y) % w
    BY RemainderPlus
  <1>2. PICK y \in Int : y = 1
    OBVIOUS
  <1>3. PICK z \in Int : z = -1
    OBVIOUS
  <1>4. ((x % w) + y) % w = (x + y) % w /\ ((x % w) + z) % w = (x + z) % w
    BY <1>1
  <1> QED
    BY <1>2, <1>3, <1>4

LEMMA ProductOrder ==
  ASSUME NEW w \in Nat, NEW x \in Int, NEW y \in Int, x <= y
  PROVE  x * w <= y * w
  <1>1. y - x \in Nat /\ (y - x) * w \in Nat /\ y * w = x * w + (y - x) * w
    OBVIOUS
  <1> QED
    BY <1>1

LEMMA Scale ==
  ASSUME NEW w \in Nat \ {0}, NEW m \in Int, NEW n \in Int
  PROVE  m * w < n * w <=> m < n
  OBVIOUS

LEMMA Quotient ==
  ASSUME NEW w \in Nat \ {0}, NEW x \in Int
  PROVE  x \div w \in Int /\ x = w * (x \div w) + (x % w) /\ x % w \in 0 .. w - 1
  OBVIOUS

-----------------------------------------------------------------------------
(* Powers of two                                                           *)

Divides(d, n) == \E k \in Int : n = d * k

Doubling(K) == K \subseteq Nat /\ 1 \in K /\ \A k \in K : 2 * k \in K
Powers == {n \in Nat : \A K : Doubling(K) => n \in K}

LEMMA PowersClosed == Doubling(Powers)
  <1>1. 1 \in Powers
    BY DEF Powers, Doubling
  <1>2. ASSUME NEW a \in Powers
        PROVE  2 * a \in Powers
    <2>1. a \in Nat /\ 2 * a \in Nat
      BY DEF Powers
    <2>2. ASSUME NEW K, Doubling(K)
          PROVE  2 * a \in K
      BY <2>2 DEF Powers, Doubling
    <2> QED
      BY <2>1, <2>2 DEF Powers
  <1>3. Powers \subseteq Nat
    BY DEF Powers
  <1> QED
    BY <1>1, <1>2, <1>3 DEF Doubling

LEMMA PowerInduction ==
  ASSUME NEW K, Doubling(K)
  PROVE  Powers \subseteq K
  BY DEF Powers

LEMMA PowersPositive == Powers \subseteq Nat \ {0}
  <1>1. Doubling(Nat \ {0})
    BY DEF Doubling
  <1> QED
    BY <1>1, PowerInduction

LEMMA PowerHalf ==
  ASSUME NEW a \in Powers
  PROVE  a = 1 \/ \E c \in Powers : a = 2 * c
  <1> DEFINE K == {n \in Powers : n = 1 \/ \E c \in Powers : n = 2 * c}
  <1>1. Doubling(K)
    BY PowersClosed DEF Doubling
  <1> HIDE DEF K
  <1>2. a \in K
    BY <1>1, PowerInduction
  <1> QED
    BY <1>2 DEF K

LEMMA Doubled ==
  ASSUME NEW d \in Int, NEW n \in Int, Divides(d, n)
  PROVE  Divides(d, 2 * n) /\ Divides(2 * d, 2 * n)
  <1>1. PICK k \in Int : n = d * k
    BY DEF Divides
  <1>2. 2 * n = d * (2 * k) /\ 2 * k \in Int
    BY <1>1
  <1>3. 2 * n = (2 * d) * k
    BY <1>1
  <1> QED
    BY <1>2, <1>3 DEF Divides

LEMMA PowersCompare ==
  ASSUME NEW a \in Powers, NEW b \in Powers
  PROVE  a = b \/ Divides(2 * a, b) \/ Divides(2 * b, a)
  <1> DEFINE K == {n \in Powers : \A c \in Powers : c = n \/ Divides(2 * c, n) \/ Divides(2 * n, c)}
  <1>0. Powers \subseteq Nat \ {0} /\ 1 \in Powers /\ \A c \in Powers : 2 * c \in Powers
    BY PowersClosed, PowersPositive DEF Doubling
  <1>1. 1 \in K
    <2>1. ASSUME NEW c \in Powers
          PROVE  c = 1 \/ Divides(2 * 1, c)
      BY <1>0, PowerHalf DEF Divides
    <2> QED
      BY <1>0, <2>1
  <1>2. ASSUME NEW n \in K
        PROVE  2 * n \in K
    <2>1. ASSUME NEW c \in Powers
          PROVE  c = 2 * n \/ Divides(2 * c, 2 * n) \/ Divides(2 * (2 * n), c)
      <3>0. n \in Powers /\ n \in Int /\ c \in Int
        BY <1>0
      <3>1. CASE c = 1
        <4>1. 2 * n = (2 * c) * n
          BY <3>0, <3>1
        <4> QED
          BY <3>0, <4>1 DEF Divides
      <3>2. CASE \E e \in Powers : c = 2 * e
        <4>1. PICK e \in Powers : c = 2 * e
          BY <3>2
        <4>2. e \in Int /\ (e = n \/ Divides(2 * e, n) \/ Divides(2 * n, e))
          BY <1>0
        <4>3. CASE e = n
          BY <4>1, <4>3
        <4>4. CASE Divides(2 * e, n)
          BY <3>0, <4>1, <4>4, Doubled
        <4>5. CASE Divides(2 * n, e)
          <5>1. PICK d \in Int : d = 2 * n
            BY <3>0
          <5> QED
            BY <4>1, <4>2, <4>5, <5>1, Doubled
        <4> QED
          BY <4>2, <4>3, <4>4, <4>5
      <3> QED
        BY <3>1, <3>2, PowerHalf
    <2> QED
      BY <1>0, <2>1
  <1>3. Doubling(K)
    BY <1>0, <1>1, <1>2 DEF Doubling
  <1> HIDE DEF K
  <1>4. b \in K
    BY <1>3, PowerInduction
  <1> QED
    BY <1>4 DEF K

LEMMA SmallerPower ==
  ASSUME NEW a \in Powers, NEW b \in Powers, a < b
  PROVE  Divides(2 * a, b)
  <1>1. a \in Nat \ {0} /\ b \in Nat \ {0}
    BY PowersPositive
  <1>2. ASSUME Divides(2 * b, a)
        PROVE  FALSE
    <2>1. PICK k \in Int : a = (2 * b) * k
      BY <1>2 DEF Divides
    <2>2. PICK d \in Nat \ {0} : d = 2 * b
      BY <1>1
    <2>3. a = d * k /\ -d < d * k /\ d * k < d
      BY <1>1, <2>1, <2>2
    <2>4. k = 0
      BY <2>3, SmallProduct
    <2> QED
      BY <1>1, <2>3, <2>4
  <1> QED
    BY <1>1, <1>2, PowersCompare

LEMMA RemainderDivides ==
  ASSUME NEW d \in Nat \ {0}, NEW n \in Int
  PROVE  n % d = 0 <=> Divides(d, n)
  <1>1. PICK q \in Int : n = d * q + (n % d)
    BY Remainder
  <1>2. n % d = 0 => Divides(d, n)
    BY <1>1 DEF Divides
  <1>3. ASSUME Divides(d, n)
        PROVE  n % d = 0
    <2>1. PICK k \in Int : n = d * k
      BY <1>3 DEF Divides
    <2>2. PICK zero \in 0 .. d - 1 : zero = 0
      OBVIOUS
    <2>3. d * k \in Int /\ n = d * k + zero
      BY <2>1, <2>2
    <2> QED
      BY <2>2, <2>3, RemainderIs
  <1> QED
    BY <1>2, <1>3

(* What divides divides sums, differences and multiples.                   *)
LEMMA DividesSum ==
  ASSUME NEW d \in Int, NEW m \in Int, NEW n \in Int, Divides(d, m), Divides(d, n)
  PROVE  Divides(d, m + n) /\ Divides(d, m - n)
  <1>1. PICK k \in Int : m = d * k
    BY DEF Divides
  <1>2. PICK l \in Int : n = d * l
    BY DEF Divides
  <1>3. m + n = d * (k + l) /\ m - n = d * (k - l) /\ k + l \in Int /\ k - l \in Int
    BY <1>1, <1>2
  <1> QED
    BY <1>3 DEF Divides

LEMMA DividesMore ==
  ASSUME NEW d \in Int, NEW m \in Int, NEW n \in Int, Divides(d, m), Divides(m, n)
  PROVE  Divides(d, n)
  <1>1. PICK k \in Int : m = d * k
    BY DEF Divides
  <1>2. PICK l \in Int : n = m * l
    BY DEF Divides
  <1>3. n = d * (k * l) /\ k * l \in Int
    BY <1>1, <1>2
  <1> QED
    BY <1>3 DEF Divides

(* A group that begins where a group of twice its size may begin, and the  *)
(* group next to it: of two powers that divide its beginning, the one that *)
(* does not divide it twice is the size of the group.                      *)
LEMMA NextGroup ==
  ASSUME NEW a \in Powers, NEW b \in Powers, NEW th \in Int, Divides(2 * a, th), Divides(b, th + a),
         ~Divides(2 * b, th + a)
  PROVE  b = a
  <1>1. a \in Int /\ b \in Int /\ 2 * a \in Int /\ 2 * b \in Int
    BY PowersPositive
  <1>2. ASSUME Divides(2 * b, a)
        PROVE  FALSE
    <2>1. Divides(a, 2 * a)
      BY <1>1 DEF Divides
    <2>2. PICK c \in Int : c = 2 * a
      BY <1>1
    <2>3. PICK d \in Int : d = 2 * b
      BY <1>1
    <2>4. Divides(d, c)
      BY <1>1, <1>2, <2>1, <2>2, <2>3, DividesMore
    <2>5. Divides(d, th)
      BY <2>2, <2>3, <2>4, DividesMore
    <2> QED
      BY <1>1, <1>2, <2>3, <2>5, DividesSum
  <1>3. ASSUME Divides(2 * a, b)
        PROVE  FALSE
    <2>1. PICK d \in Int : d = 2 * a
      BY <1>1
    <2>2. PICK e \in Int : e = th + a
      BY <1>1
    <2>3. Divides(d, e)
      BY <1>1, <1>3, <2>1, <2>2, DividesMore
    <2>4. Divides(d, e - th) /\ e - th = a
      BY <1>1, <2>1, <2>2, <2>3, DividesSum
    <2>5. PICK k \in Int : a = (2 * a) * k
      BY <2>1, <2>4 DEF Divides
    <2>6. a \in Nat \ {0}
      BY PowersPositive
    <2>7. PICK f \in Nat \ {0} : f = 2 * a
      BY <2>6
    <2>8. -f < f * k /\ f * k < f /\ a = f * k
      BY <2>5, <2>6, <2>7
    <2>9. k = 0
      BY <2>8, SmallProduct
    <2> QED
      BY <2>6, <2>8, <2>9
  <1> QED
    BY <1>2, <1>3, PowersCompare

-----------------------------------------------------------------------------
(* Where, and how often, a value occurs in the n places of a sequence that *)
(* follow the first a ones.                                                *)
Places(s, a, n, x) == {i \in a + 1 .. a + n : s[i] = x}
CountIn(s, a, n, x) == Cardinality(Places(s, a, n, x))

(* The same values at n places.                                            *)
Found(s, a, t, b, n) == \A i \in 1 .. n : t[b + i] = s[a + i]

LEMMA CountNat ==
  ASSUME NEW s, NEW a \in Int, NEW n \in Int, NEW x
  PROVE  /\ IsFiniteSet(Places(s, a, n, x))
         /\ CountIn(s, a, n, x) \in Nat
         /\ CountIn(s, a, n, x) = 0 <=> Places(s, a, n, x) = {}
  <1>1. IsFiniteSet(a + 1 .. a + n)
    <2>1. PICK c \in Int : c = a + 1
      OBVIOUS
    <2>2. PICK d \in Int : d = a + n
      OBVIOUS
    <2>3. IsFiniteSet(c .. d)
      BY FS_Interval
    <2> QED
      BY <2>1, <2>2, <2>3
  <1>2. IsFiniteSet(Places(s, a, n, x))
    <2>1. Places(s, a, n, x) \in SUBSET (a + 1 .. a + n)
      BY DEF Places
    <2> QED
      BY <1>1, <2>1, FS_Subset
  <1> QED
    BY <1>2, FS_CardinalityType, FS_EmptySet DEF CountIn

LEMMA CountNone ==
  ASSUME NEW s, NEW a \in Int, NEW x
  PROVE  CountIn(s, a, 0, x) = 0
  <1>1. Places(s, a, 0, x) = {}
    BY DEF Places
  <1> QED
    BY <1>1, FS_EmptySet DEF CountIn

LEMMA CountOne ==
  ASSUME NEW s, NEW a \in Int, NEW x
  PROVE  CountIn(s, a, 1, x) = IF s[a + 1] = x THEN 1 ELSE 0
  <1>1. Places(s, a, 1, x) = IF s[a + 1] = x THEN {a + 1} ELSE {}
    BY DEF Places
  <1> QED
    BY <1>1, FS_EmptySet, FS_Singleton DEF CountIn

LEMMA CountSplit ==
  ASSUME NEW s, NEW a \in Int, NEW m \in Nat, NEW n \in Nat, NEW x
  PROVE  CountIn(s, a, m + n, x) = CountIn(s, a, m, x) + CountIn(s, a + m, n, x)
  <1> DEFINE S == Places(s, a, m, x)
             T == Places(s, a + m, n, x)
  <1>1. S \cup T = Places(s, a, m + n, x) /\ S \cap T = {}
    BY DEF Places
  <1>2. /\ IsFiniteSet(S) /\ IsFiniteSet(T)
        /\ Cardinality(S) \in Nat /\ Cardinality(T) \in Nat
    BY CountNat, FS_CardinalityType
  <1>3. Cardinality(S \cup T) = Cardinality(S) + Cardinality(T) - Cardinality(S \cap T)
    BY <1>2, FS_Union
  <1>4. Cardinality(S \cap T) = 0
    BY <1>1, FS_EmptySet
  <1> HIDE DEF S, T
  <1>5. Cardinality(S \cup T) = Cardinality(S) + Cardinality(T)
    BY <1>2, <1>3, <1>4
  <1> QED
    BY <1>1, <1>5 DEF CountIn, S, T

LEMMA CountThree ==
  ASSUME NEW s, NEW a \in Nat, NEW k \in Nat, NEW l \in Nat, NEW x
  PROVE  CountIn(s, 0, (a + k) + l, x)
           = (CountIn(s, 0, a, x) + CountIn(s, a, k, x)) + CountIn(s, a + k, l, x)
  <1>1. PICK zero \in Int : zero = 0
    OBVIOUS
  <1>2. PICK b \in Nat : b = a + k
    OBVIOUS
  <1>3. CountIn(s, zero, b + l, x) = CountIn(s, zero, b, x) + CountIn(s, zero + b, l, x)
    BY CountSplit
  <1>4. CountIn(s, zero, a + k, x) = CountIn(s, zero, a, x) + CountIn(s, zero + a, k, x)
    BY CountSplit
  <1>5. zero + b = b /\ zero + a = a
    BY <1>1
  <1> QED
    BY <1>1, <1>2, <1>3, <1>4, <1>5

(* One place more.                                                         *)
LEMMA CountNext ==
  ASSUME NEW s, NEW a \in Int, NEW n \in Nat, NEW x
  PROVE  CountIn(s, a, n + 1, x) = CountIn(s, a, n, x) + (IF s[a + (n + 1)] = x THEN 1 ELSE 0)
  <1>1. PICK one \in Nat : one = 1
    OBVIOUS
  <1>2. CountIn(s, a, n + one, x) = CountIn(s, a, n, x) + CountIn(s, a + n, one, x)
    BY CountSplit
  <1>3. CountIn(s, a + n, 1, x) = IF s[a + n + 1] = x THEN 1 ELSE 0
    BY CountOne
  <1>4. a + (n + 1) = a + n + 1
    OBVIOUS
  <1> QED
    BY <1>1, <1>2, <1>3, <1>4

LEMMA CountFound ==
  ASSUME NEW s, NEW a \in Int, NEW t, NEW b \in Int, NEW n \in Nat, Found(s, a, t, b, n), NEW x
  PROVE  CountIn(t, b, n, x) = CountIn(s, a, n, x)
  <1> DEFINE K == {m \in Nat : m <= n => CountIn(t, b, m, x) = CountIn(s, a, m, x)}
  <1>1. 0 \in K
    BY CountNone
  <1>2. ASSUME NEW m \in Nat, m \in K
        PROVE  m + 1 \in K
    <2> SUFFICES ASSUME m + 1 <= n
                 PROVE  CountIn(t, b, m + 1, x) = CountIn(s, a, m + 1, x)
      OBVIOUS
    <2>1. /\ CountIn(t, b, m + 1, x) = CountIn(t, b, m, x) + (IF t[b + (m + 1)] = x THEN 1 ELSE 0)
          /\ CountIn(s, a, m + 1, x) = CountIn(s, a, m, x) + (IF s[a + (m + 1)] = x THEN 1 ELSE 0)
      BY CountNext
    <2>2. CountIn(t, b, m, x) = CountIn(s, a, m, x)
      BY <1>2
    <2>3. t[b + (m + 1)] = s[a + (m + 1)]
      BY DEF Found
    <2> QED
      BY <2>1, <2>2, <2>3
  <1> HIDE DEF K
  <1>3. Nat \subseteq K
    BY <1>1, <1>2, SetInduction
  <1> QED
    BY <1>3 DEF K

(* The bag of a sequence is in its counts.                                 *)
SameCounts(s, t, n) == \A x : CountIn(s, 0, n, x) = CountIn(t, 0, n, x)

LEMMA SameElsewhere ==
  ASSUME NEW n \in Nat, NEW a \in Nat, NEW k \in Nat, a + k <= n, NEW s, NEW r,
         \A i \in 1 .. n : i \notin a + 1 .. a + k => r[i] = s[i],
         \A x : CountIn(r, a, k, x) = CountIn(s, a, k, x)
  PROVE  SameCounts(r, s, n)
  <1> SUFFICES ASSUME NEW x
               PROVE  CountIn(r, 0, n, x) = CountIn(s, 0, n, x)
    BY DEF SameCounts
  <1>1. PICK l \in Nat : (a + k) + l = n
    <2>1. n - (a + k) \in Nat /\ (a + k) + (n - (a + k)) = n
      OBVIOUS
    <2> QED
      BY <2>1
  <1>2. PICK b \in Nat : b = a + k
    OBVIOUS
  <1>3. PICK zero \in Nat : zero = 0
    OBVIOUS
  <1>4. CountIn(r, 0, n, x) = (CountIn(r, 0, a, x) + CountIn(r, a, k, x)) + CountIn(r, b, l, x)
    <2>1. CountIn(r, 0, (a + k) + l, x)
            = (CountIn(r, 0, a, x) + CountIn(r, a, k, x)) + CountIn(r, a + k, l, x)
      BY CountThree
    <2> QED
      BY <1>1, <1>2, <2>1
  <1>5. CountIn(s, 0, n, x) = (CountIn(s, 0, a, x) + CountIn(s, a, k, x)) + CountIn(s, b, l, x)
    <2>1. CountIn(s, 0, (a + k) + l, x)
            = (CountIn(s, 0, a, x) + CountIn(s, a, k, x)) + CountIn(s, a + k, l, x)
      BY CountThree
    <2> QED
      BY <1>1, <1>2, <2>1
  <1>6. CountIn(r, zero, a, x) = CountIn(s, zero, a, x)
    <2>1. \A i \in 1 .. a : zero + i \in 1 .. n /\ zero + i \notin a + 1 .. a + k
      BY <1>3
    <2>2. Found(s, zero, r, zero, a)
      BY <2>1 DEF Found
    <2> QED
      BY <2>2, CountFound
  <1>7. CountIn(r, b, l, x) = CountIn(s, b, l, x)
    <2>1. \A i \in 1 .. l : b + i \in 1 .. n /\ b + i \notin a + 1 .. a + k
      BY <1>1, <1>2
    <2>2. Found(s, b, r, b, l)
      BY <2>1 DEF Found
    <2> QED
      BY <2>2, CountFound
  <1> QED
    BY <1>3, <1>4, <1>5, <1>6, <1>7

LEMMA CountTwice ==
  ASSUME NEW s, NEW a \in Nat, NEW k \in Nat, NEW N, N = 2 * k, NEW x
  PROVE  CountIn(s, a, N, x) = CountIn(s, a, k, x) + CountIn(s, a + k, k, x)
  <1>1. CountIn(s, a, k + k, x) = CountIn(s, a, k, x) + CountIn(s, a + k, k, x)
    BY CountSplit
  <1>2. k + k = N
    OBVIOUS
  <1> QED
    BY <1>1, <1>2

(* The n elements of s behind the first a ones are in order.               *)
Ordered(s, a, n) == \A i, j \in a + 1 .. a + n : i < j => s[i] <= s[j]

LEMMA OrderedPart ==
  ASSUME NEW s, NEW a \in Int, NEW k \in Int, Ordered(s, a, k),
         NEW b \in Int, NEW l \in Int, a <= b, b + l <= a + k
  PROVE  Ordered(s, b, l)
  <1>1. b + 1 .. b + l \subseteq a + 1 .. a + k
    OBVIOUS
  <1> QED
    BY <1>1 DEF Ordered

LEMMA OrderedFound ==
  ASSUME NEW s, NEW a \in Int, NEW t, NEW b \in Int, NEW n \in Nat, Found(s, a, t, b, n),
         Ordered(s, a, n)
  PROVE  Ordered(t, b, n)
  <1> SUFFICES ASSUME NEW i \in b + 1 .. b + n, NEW j \in b + 1 .. b + n, i < j
               PROVE  t[i] <= t[j]
    BY DEF Ordered
  <1>1. PICK c \in Int : c = i - b
    OBVIOUS
  <1>2. PICK d \in Int : d = j - b
    OBVIOUS
  <1>3. c \in 1 .. n /\ d \in 1 .. n /\ i = b + c /\ j = b + d
    BY <1>1, <1>2
  <1>4. t[i] = s[a + c] /\ t[j] = s[a + d]
    BY <1>3 DEF Found
  <1>5. a + c \in a + 1 .. a + n /\ a + d \in a + 1 .. a + n /\ a + c < a + d
    BY <1>3
  <1> QED
    BY <1>4, <1>5 DEF Ordered
-----------------------------------------------------------------------------
(* What a merge does                                                       *)

Numbers(p) == DOMAIN p = 1 .. Len(p) /\ Len(p) \in Nat /\ \A i \in DOMAIN p : p[i] \in Nat

(* The next record is of p1.                                               *)
FirstGoes(p1, p2, i, j) == i <= Len(p1) /\ (j <= Len(p2) => p1[i] <= p2[j])

(* t counts, up to N, how many of the first records are of p1.             *)
IsTaken(p1, p2, t, N) ==
  /\ DOMAIN t = 0 .. N /\ t[0] = 0
  /\ \A n \in 1 .. N :
       t[n] = [k \in 0 .. Len(p1) |-> IF FirstGoes(p1, p2, k + 1, n - k) THEN k + 1 ELSE k][t[n - 1]]

LEMMA TakenExists ==
  ASSUME NEW p1, NEW p2, NEW N \in Nat
  PROVE  \E t : IsTaken(p1, p2, t, N)
  <1> DEFINE K == {n \in Nat : \E t : IsTaken(p1, p2, t, n)}
             After(n, k) == [m \in 0 .. Len(p1) |-> IF FirstGoes(p1, p2, m + 1, n - m)
                                                    THEN m + 1 ELSE m][k]
  <1>1. 0 \in K
    <2>1. IsTaken(p1, p2, [n \in 0 .. 0 |-> 0], 0)
      BY DEF IsTaken
    <2> QED
      BY <2>1
  <1>2. ASSUME NEW n \in Nat, n \in K
        PROVE  n + 1 \in K
    <2>1. PICK t : IsTaken(p1, p2, t, n)
      BY <1>2
    <2> DEFINE u == [m \in 0 .. n + 1 |-> IF m = n + 1 THEN After(n + 1, t[n]) ELSE t[m]]
    <2>2. DOMAIN u = 0 .. n + 1 /\ u[0] = 0 /\ u[n + 1] = After(n + 1, t[n]) /\ u[n] = t[n]
          /\ \A m \in 0 .. n : u[m] = t[m]
      <3> HIDE DEF After
      <3> QED
        BY <2>1 DEF IsTaken
    <2>3. \A m \in 1 .. n : t[m] = After(m, t[m - 1])
      BY <2>1 DEF IsTaken
    <2>4. \A m \in 1 .. n + 1 : u[m] = After(m, u[m - 1])
      <3> HIDE DEF After, u
      <3> TAKE m \in 1 .. n + 1
      <3>1. CASE m = n + 1
        <4>1. m - 1 = n
          BY <3>1
        <4> QED
          BY <2>2, <3>1, <4>1
      <3>2. CASE m # n + 1
        <4>1. m \in 1 .. n /\ m - 1 \in 0 .. n /\ m \in 0 .. n
          BY <3>2
        <4> QED
          BY <2>2, <2>3, <4>1
      <3> QED
        BY <3>1, <3>2
    <2>5. IsTaken(p1, p2, u, n + 1)
      <3> HIDE DEF u
      <3> QED
        BY <2>2, <2>4 DEF IsTaken
    <2> QED
      BY <2>5
  <1> HIDE DEF K
  <1>3. Nat \subseteq K
    BY <1>1, <1>2, SetInduction
  <1> QED
    BY <1>3 DEF K

LEMMA FromFirstIs ==
  ASSUME NEW p1, Numbers(p1), NEW p2, Numbers(p2)
  PROVE  IsTaken(p1, p2, FromFirst(p1, p2), Len(p1) + Len(p2))
  <1> DEFINE N == Len(p1) + Len(p2)
             After(n) == [k \in 0 .. Len(p1) |-> IF FirstGoes(p1, p2, k + 1, n - k)
                                                 THEN k + 1 ELSE k]
             Is(t) == t = [n \in 0 .. N |-> IF n = 0 THEN 0 ELSE After(n)[t[n - 1]]]
  <1>1. N \in Nat
    BY DEF Numbers
  <1>2. FromFirst(p1, p2) = CHOOSE t : Is(t)
    BY DEF FromFirst, FirstGoes
  <1>3. PICK t : IsTaken(p1, p2, t, N)
    BY <1>1, TakenExists
  <1>4. Is([n \in 0 .. N |-> t[n]])
    <2> DEFINE u == [n \in 0 .. N |-> t[n]]
    <2>1. u[0] = 0 /\ \A n \in 1 .. N : u[n] = After(n)[u[n - 1]]
      <3> HIDE DEF After, N
      <3>1. \A n \in 1 .. N : t[n] = After(n)[t[n - 1]]
        BY <1>3 DEF IsTaken, After
      <3>2. \A n \in 1 .. N : n - 1 \in 0 .. N /\ n \in 0 .. N /\ 0 \in 0 .. N
        BY <1>1
      <3>3. t[0] = 0
        BY <1>3 DEF IsTaken
      <3> QED
        BY <1>1, <3>1, <3>2, <3>3
    <2>2. u = [n \in 0 .. N |-> u[n]]
      OBVIOUS
    <2> HIDE DEF u, After, N
    <2>3. \A n \in 0 .. N : u[n] = IF n = 0 THEN 0 ELSE After(n)[u[n - 1]]
      <3>1. \A n \in 0 .. N : n = 0 \/ n \in 1 .. N
        BY <1>1
      <3> QED
        BY <2>1, <3>1
    <2>4. u = [n \in 0 .. N |-> IF n = 0 THEN 0 ELSE After(n)[u[n - 1]]]
      BY <2>2, <2>3
    <2> QED
      BY <2>4 DEF u
  <1>5. Is(FromFirst(p1, p2))
    <2> HIDE DEF Is
    <2> QED
      BY <1>2, <1>4
  <1> DEFINE f == FromFirst(p1, p2)
  <1>6. f = [n \in 0 .. N |-> IF n = 0 THEN 0 ELSE After(n)[f[n - 1]]]
    BY <1>5
  <1>7. DOMAIN f = 0 .. N /\ \A n \in 0 .. N : f[n] = IF n = 0 THEN 0 ELSE After(n)[f[n - 1]]
    <2> HIDE DEF f, After, N
    <2> QED
      BY <1>6
  <1>8. 0 \in 0 .. N /\ \A n \in 1 .. N : n \in 0 .. N /\ n # 0
    BY <1>1
  <1>9. DOMAIN f = 0 .. N /\ f[0] = 0 /\ \A n \in 1 .. N : f[n] = After(n)[f[n - 1]]
    <2> HIDE DEF f, After, N
    <2> QED
      BY <1>7, <1>8
  <1> QED
    <2> HIDE DEF f
    <2>1. IsTaken(p1, p2, f, N)
      BY <1>9 DEF IsTaken
    <2> QED
      BY <2>1 DEF f

(* Step by step the merge m takes the next record of one of the two parts, *)
(* which is not after the next one of the other part.                      *)
TakesFirst(p1, p2, t, m, n) ==
  /\ t[n] = t[n - 1] + 1 /\ m[n] = p1[t[n]]
  /\ n - t[n - 1] <= Len(p2) => m[n] <= p2[n - t[n - 1]]
TakesSecond(p1, p2, t, m, n) ==
  /\ t[n] = t[n - 1] /\ m[n] = p2[n - t[n]]
  /\ t[n] + 1 <= Len(p1) => m[n] <= p1[t[n] + 1]

IsPath(p1, p2, t, m, N) ==
  /\ t[0] = 0
  /\ \A n \in 0 .. N : t[n] \in 0 .. Len(p1) /\ n - t[n] \in 0 .. Len(p2)
  /\ \A n \in 1 .. N : TakesFirst(p1, p2, t, m, n) \/ TakesSecond(p1, p2, t, m, n)

LEMMA TakenBounds ==
  ASSUME NEW p1, Numbers(p1), NEW p2, Numbers(p2), NEW N, N = Len(p1) + Len(p2),
         NEW t, IsTaken(p1, p2, t, N)
  PROVE  /\ \A n \in 0 .. N : t[n] \in 0 .. Len(p1) /\ n - t[n] \in 0 .. Len(p2)
         /\ \A n \in 1 .. N : IF FirstGoes(p1, p2, t[n - 1] + 1, n - t[n - 1])
                              THEN t[n] = t[n - 1] + 1 ELSE t[n] = t[n - 1]
  <1>0. Len(p1) \in Nat /\ Len(p2) \in Nat /\ N \in Nat
    BY DEF Numbers
  <1>1. \A n \in 1 .. N : t[n - 1] \in 0 .. Len(p1) =>
          IF FirstGoes(p1, p2, t[n - 1] + 1, n - t[n - 1])
          THEN t[n] = t[n - 1] + 1 ELSE t[n] = t[n - 1]
    BY DEF IsTaken
  <1> DEFINE K == {n \in Nat : n <= N => t[n] \in 0 .. Len(p1) /\ n - t[n] \in 0 .. Len(p2)}
  <1>2. 0 \in K
    BY <1>0 DEF IsTaken
  <1>3. ASSUME NEW n \in Nat, n \in K
        PROVE  n + 1 \in K
    <2> SUFFICES ASSUME n + 1 <= N
                 PROVE  t[n + 1] \in 0 .. Len(p1) /\ (n + 1) - t[n + 1] \in 0 .. Len(p2)
      OBVIOUS
    <2>1. t[n] \in 0 .. Len(p1) /\ n - t[n] \in 0 .. Len(p2)
      BY <1>0, <1>3
    <2>2. PICK k \in Int : k = t[n]
      BY <1>0, <2>1
    <2>6. PICK r \in 1 .. N : r = n + 1 /\ r - 1 = n
      BY <1>0
    <2>3. IF FirstGoes(p1, p2, k + 1, r - k) THEN t[r] = k + 1 ELSE t[r] = k
      BY <1>1, <2>1, <2>2, <2>6
    <2>4. FirstGoes(p1, p2, k + 1, r - k) => k + 1 <= Len(p1)
      BY DEF FirstGoes
    <2>5. ~FirstGoes(p1, p2, k + 1, r - k) => r - k <= Len(p2)
      <3>1. ~FirstGoes(p1, p2, k + 1, r - k) => k = Len(p1) \/ r - k <= Len(p2)
        BY <1>0, <2>1, <2>2, <2>6 DEF FirstGoes
      <3> QED
        BY <1>0, <2>1, <2>2, <2>6, <3>1
    <2>7. PICK y \in Int : y = t[r]
      BY <1>0, <2>2, <2>3
    <2>8. (y = k + 1 /\ k + 1 <= Len(p1)) \/ (y = k /\ r - k <= Len(p2))
      BY <2>3, <2>4, <2>5, <2>7
    <2>9. y \in 0 .. Len(p1) /\ r - y \in 0 .. Len(p2)
      <3>1. /\ Len(p1) \in Nat /\ Len(p2) \in Nat /\ n \in Nat
            /\ k \in 0 .. Len(p1) /\ n - k \in 0 .. Len(p2)
            /\ r = n + 1 /\ y \in Int
        BY <1>0, <2>1, <2>2, <2>6
      <3> QED
        BY ONLY <2>8, <3>1, SMT
    <2> QED
      BY <2>6, <2>7, <2>9
  <1> HIDE DEF K
  <1>4. Nat \subseteq K
    BY <1>2, <1>3, SetInduction
  <1>5. \A n \in 0 .. N : t[n] \in 0 .. Len(p1) /\ n - t[n] \in 0 .. Len(p2)
    BY <1>0, <1>4 DEF K
  <1>6. \A n \in 1 .. N : n - 1 \in 0 .. N
    BY <1>0
  <1> QED
    BY <1>1, <1>5, <1>6

LEMMA MergePath ==
  ASSUME NEW p1, Numbers(p1), NEW p2, Numbers(p2)
  PROVE  /\ DOMAIN MergeArrays(p1, p2) = 1 .. Len(p1) + Len(p2)
         /\ \E t : IsPath(p1, p2, t, MergeArrays(p1, p2), Len(p1) + Len(p2))
  <1> DEFINE N == Len(p1) + Len(p2)
             t == FromFirst(p1, p2)
             m == MergeArrays(p1, p2)
  <1>0. Len(p1) \in Nat /\ Len(p2) \in Nat /\ N \in Nat
        /\ (\A i \in 1 .. Len(p1) : p1[i] \in Nat) /\ \A i \in 1 .. Len(p2) : p2[i] \in Nat
    BY DEF Numbers
  <1>1. /\ DOMAIN m = 1 .. N
        /\ \A n \in 1 .. N : m[n] = IF t[n] > t[n - 1] THEN p1[t[n]] ELSE p2[n - t[n]]
    <2> HIDE DEF t
    <2> QED
      BY DEF MergeArrays, t
  <1>2. IsTaken(p1, p2, t, N)
    BY FromFirstIs
  <1> HIDE DEF t, m, N
  <1>3. /\ \A n \in 0 .. N : t[n] \in 0 .. Len(p1) /\ n - t[n] \in 0 .. Len(p2)
        /\ \A n \in 1 .. N : IF FirstGoes(p1, p2, t[n - 1] + 1, n - t[n - 1])
                             THEN t[n] = t[n - 1] + 1 ELSE t[n] = t[n - 1]
    BY <1>2, TakenBounds DEF N
  <1>4. ASSUME NEW n \in 1 .. N
        PROVE  TakesFirst(p1, p2, t, m, n) \/ TakesSecond(p1, p2, t, m, n)
    <2>0. n \in 0 .. N /\ n - 1 \in 0 .. N /\ n \in Int
      BY <1>0
    <2>1. PICK k \in Int : k = t[n - 1] /\ k \in 0 .. Len(p1) /\ n - 1 - k \in 0 .. Len(p2)
      <3>1. t[n - 1] \in 0 .. Len(p1) /\ (n - 1) - t[n - 1] \in 0 .. Len(p2)
        BY <1>3, <2>0
      <3>2. PICK k \in Int : k = t[n - 1]
        BY <1>0, <3>1
      <3> QED
        BY <3>1, <3>2
    <2>2. CASE FirstGoes(p1, p2, k + 1, n - k)
      <3>1. t[n] = k + 1 /\ k + 1 > k
        BY <1>3, <2>1, <2>2
      <3>2. m[n] = p1[k + 1]
        BY <1>1, <2>1, <3>1
      <3>3. n - k <= Len(p2) => p1[k + 1] <= p2[n - k]
        BY <2>2 DEF FirstGoes
      <3> QED
        BY <2>1, <3>1, <3>2, <3>3 DEF TakesFirst
    <2>3. CASE ~FirstGoes(p1, p2, k + 1, n - k)
      <3>1. t[n] = k /\ ~(k > k)
        BY <1>3, <2>1, <2>3
      <3>2. m[n] = p2[n - k]
        BY <1>1, <2>1, <3>1
      <3>3. n - k \in 1 .. Len(p2)
        <4>1. n - k \in 0 .. Len(p2)
          BY <1>3, <2>0, <3>1
        <4> QED
          BY <1>0, <2>0, <2>1, <4>1
      <3>4. k + 1 <= Len(p1) => k + 1 \in 1 .. Len(p1) /\ ~(p1[k + 1] <= p2[n - k])
        <4>1. k + 1 <= Len(p1) => ~(p1[k + 1] <= p2[n - k])
          BY <2>3 DEF FirstGoes
        <4>2. k \in Nat /\ Len(p1) \in Nat
          BY <1>0, <2>0, <2>1
        <4>3. k + 1 <= Len(p1) => k + 1 \in 1 .. Len(p1)
          BY ONLY <4>2, SMT
        <4> QED
          BY <4>1, <4>3
      <3>5. k + 1 <= Len(p1) => p2[n - k] <= p1[k + 1]
        BY <1>0, <3>3, <3>4
      <3> QED
        BY <2>1, <3>1, <3>2, <3>5 DEF TakesSecond
    <2> QED
      BY <2>2, <2>3
  <1>5. t[0] = 0
    BY <1>2 DEF IsTaken
  <1>6. IsPath(p1, p2, t, m, N)
    BY <1>3, <1>4, <1>5 DEF IsPath
  <1> QED
    BY <1>1, <1>6 DEF N, m

(* The merge has the records of both parts.                                *)
LEMMA PathCounts ==
  ASSUME NEW p1, Numbers(p1), NEW p2, Numbers(p2), NEW N, N = Len(p1) + Len(p2),
         NEW t, NEW m, IsPath(p1, p2, t, m, N), NEW x
  PROVE  CountIn(m, 0, N, x) = CountIn(p1, 0, Len(p1), x) + CountIn(p2, 0, Len(p2), x)
  <1> DEFINE K == {n \in Nat : n <= N => CountIn(m, 0, n, x) = CountIn(p1, 0, t[n], x)
                                                               + CountIn(p2, 0, n - t[n], x)}
  <1>0. /\ Len(p1) \in Nat /\ Len(p2) \in Nat /\ N \in Nat /\ t[0] = 0
        /\ \A n \in 0 .. N : t[n] \in 0 .. Len(p1) /\ n - t[n] \in 0 .. Len(p2)
    BY DEF Numbers, IsPath
  <1>1. \A s : CountIn(s, 0, 0, x) = 0
    BY CountNone
  <1>2. \A s : \A n \in Nat : /\ CountIn(s, 0, n, x) \in Nat
                              /\ CountIn(s, 0, n + 1, x)
                                   = CountIn(s, 0, n, x) + (IF s[n + 1] = x THEN 1 ELSE 0)
    <2> TAKE s
    <2> TAKE n \in Nat
    <2>1. PICK zero \in Int : zero = 0
      OBVIOUS
    <2>2. /\ CountIn(s, zero, n, x) \in Nat
          /\ CountIn(s, zero, n + 1, x)
               = CountIn(s, zero, n, x) + (IF s[zero + (n + 1)] = x THEN 1 ELSE 0)
      BY ONLY zero \in Int, n \in Nat, CountNat, CountNext
    <2>3. zero + (n + 1) = n + 1
      BY <2>1
    <2> QED
      BY <2>1, <2>2, <2>3
  <1>3. 0 \in K
    BY <1>0, <1>1
  <1>4. ASSUME NEW n \in Nat, n \in K
        PROVE  n + 1 \in K
    <2> SUFFICES ASSUME n + 1 <= N
                 PROVE  CountIn(m, 0, n + 1, x) = CountIn(p1, 0, t[n + 1], x)
                                                  + CountIn(p2, 0, (n + 1) - t[n + 1], x)
      OBVIOUS
    <2>0. n \in 0 .. N /\ n + 1 \in 1 .. N /\ (n + 1) - 1 = n /\ n <= N
      BY <1>0
    <2>1. PICK k \in Nat, l \in Nat : k = t[n] /\ l = n - t[n] /\ n = k + l
      BY <1>0, <2>0
    <2>2. CountIn(m, 0, n, x) = CountIn(p1, 0, k, x) + CountIn(p2, 0, l, x)
      BY <1>4, <2>0, <2>1
    <2>3. TakesFirst(p1, p2, t, m, n + 1) \/ TakesSecond(p1, p2, t, m, n + 1)
      BY <2>0 DEF IsPath
    <2>6. /\ CountIn(m, 0, n + 1, x) = CountIn(m, 0, n, x) + (IF m[n + 1] = x THEN 1 ELSE 0)
          /\ CountIn(p1, 0, k + 1, x) = CountIn(p1, 0, k, x) + (IF p1[k + 1] = x THEN 1 ELSE 0)
          /\ CountIn(p2, 0, l + 1, x) = CountIn(p2, 0, l, x) + (IF p2[l + 1] = x THEN 1 ELSE 0)
          /\ CountIn(p1, 0, k, x) \in Nat /\ CountIn(p2, 0, l, x) \in Nat
      BY <1>2, <2>1
    <2>4. CASE TakesFirst(p1, p2, t, m, n + 1)
      <3>1. t[n + 1] = k + 1 /\ m[n + 1] = p1[k + 1]
        BY <2>0, <2>1, <2>4 DEF TakesFirst
      <3>3. (n + 1) - (k + 1) = l
        BY ONLY <2>1, k \in Nat, l \in Nat, SMT
      <3>2. (n + 1) - t[n + 1] = l
        BY <3>1, <3>3
      <3>4. CountIn(m, 0, n + 1, x) = CountIn(p1, 0, k + 1, x) + CountIn(p2, 0, l, x)
        BY ONLY <2>2, <2>6, <3>1
      <3> QED
        BY ONLY <3>1, <3>2, <3>4
    <2>5. CASE TakesSecond(p1, p2, t, m, n + 1)
      <3>1. t[n + 1] = k /\ m[n + 1] = p2[(n + 1) - t[n + 1]]
        BY <2>0, <2>1, <2>5 DEF TakesSecond
      <3>3. (n + 1) - k = l + 1
        BY ONLY <2>1, k \in Nat, l \in Nat, SMT
      <3>2. (n + 1) - t[n + 1] = l + 1
        BY <3>1, <3>3
      <3>4. CountIn(m, 0, n + 1, x) = CountIn(p1, 0, k, x) + CountIn(p2, 0, l + 1, x)
        BY ONLY <2>2, <2>6, <3>1, <3>2
      <3> QED
        BY ONLY <3>1, <3>2, <3>4
    <2> QED
      BY <2>3, <2>4, <2>5
  <1> HIDE DEF K
  <1>5. Nat \subseteq K
    BY <1>3, <1>4, SetInduction
  <1>6. t[N] = Len(p1) /\ N - t[N] = Len(p2)
    <2>1. t[N] \in 0 .. Len(p1) /\ N - t[N] \in 0 .. Len(p2)
      BY <1>0
    <2> QED
      BY <1>0, <2>1
  <1> QED
    BY <1>0, <1>5, <1>6 DEF K

(* The merge of two parts in order is in order.                            *)
LEMMA PathOrdered ==
  ASSUME NEW p1, Numbers(p1), NEW p2, Numbers(p2), NEW N, N = Len(p1) + Len(p2),
         NEW t, NEW m, IsPath(p1, p2, t, m, N),
         Ordered(p1, 0, Len(p1)), Ordered(p2, 0, Len(p2))
  PROVE  Ordered(m, 0, N)
  <1>0. /\ Len(p1) \in Nat /\ Len(p2) \in Nat /\ N \in Nat
        /\ \A n \in 0 .. N : t[n] \in Int /\ t[n] \in 0 .. Len(p1) /\ n - t[n] \in 0 .. Len(p2)
    BY DEF Numbers, IsPath
  <1>1. \A n \in 1 .. N : TakesFirst(p1, p2, t, m, n) \/ TakesSecond(p1, p2, t, m, n)
    BY DEF IsPath
  <1> DEFINE K == {n \in Nat : n <= N => \A i \in 0 .. n : t[i] <= t[n] /\ i - t[i] <= n - t[n]}
  <1>2. 0 \in K
    <2>1. 0 \in 0 .. N /\ 0 .. 0 = {0}
      BY <1>0
    <2> QED
      BY <1>0, <2>1
  <1>3. ASSUME NEW n \in Nat, n \in K
        PROVE  n + 1 \in K
    <2> SUFFICES ASSUME n + 1 <= N, NEW i \in 0 .. n + 1
                 PROVE  t[i] <= t[n + 1] /\ i - t[i] <= (n + 1) - t[n + 1]
      OBVIOUS
    <2>0. n \in 0 .. N /\ n + 1 \in 1 .. N /\ n + 1 \in 0 .. N /\ (n + 1) - 1 = n /\ i \in 0 .. N
      BY <1>0
    <2>1. t[n + 1] = t[n] + 1 \/ t[n + 1] = t[n]
      BY <1>1, <2>0 DEF TakesFirst, TakesSecond
    <2>2. i = n + 1 \/ i \in 0 .. n
      OBVIOUS
    <2>3. i \in 0 .. n => t[i] <= t[n] /\ i - t[i] <= n - t[n]
      BY <1>0, <1>3
    <2>4. t[i] \in Int /\ t[n] \in Int /\ t[n + 1] \in Int
      BY <1>0, <2>0
    <2>5. CASE i = n + 1
      BY <2>4, <2>5
    <2>6. CASE i \in 0 .. n
      <3>1. t[i] <= t[n] /\ i - t[i] <= n - t[n]
        BY <2>3, <2>6
      <3>0. n \in Int /\ i \in Int
        BY <2>6
      <3>2. CASE t[n + 1] = t[n] + 1
        <4>1. ASSUME NEW a \in Int, NEW b \in Int, NEW c \in Int,
                     a <= b, i - a <= n - b, c = b + 1
              PROVE  a <= c /\ i - a <= (n + 1) - c
          BY ONLY <3>0, <4>1
        <4> QED
          BY ONLY <2>4, <3>1, <3>2, <4>1
      <3>3. CASE t[n + 1] = t[n]
        BY <2>4, <3>1, <3>3
      <3> QED
        BY <2>1, <3>2, <3>3
    <2> QED
      BY <2>2, <2>5, <2>6
  <1> HIDE DEF K
  <1>4. Nat \subseteq K
    BY <1>2, <1>3, SetInduction
  <1> SUFFICES ASSUME NEW i \in 1 .. N, NEW j \in 1 .. N, i < j
               PROVE  m[i] <= m[j]
    BY <1>0 DEF Ordered
  <1>5. i \in 0 .. N /\ i - 1 \in 0 .. N /\ j \in 0 .. N /\ j - 1 \in 0 .. N
    BY <1>0
  <1>6. PICK a \in Int : a = t[i]
    BY <1>0, <1>5
  <1>7. PICK b \in Int : b = t[j - 1]
    BY <1>0, <1>5
  <1>8. a <= b /\ i - a <= (j - 1) - b
    <2>1. j - 1 \in K /\ j - 1 <= N /\ i \in 0 .. j - 1
      BY <1>0, <1>4, <1>5
    <2> QED
      BY <1>6, <1>7, <2>1 DEF K
  <1>9. /\ a \in 0 .. Len(p1) /\ i - a \in 0 .. Len(p2)
        /\ b \in 0 .. Len(p1) /\ (j - 1) - b \in 0 .. Len(p2)
    BY <1>0, <1>5, <1>6, <1>7
  <1>10. /\ \A c, d \in 1 .. Len(p1) : c <= d => p1[c] <= p1[d] /\ p1[c] \in Nat
         /\ \A c, d \in 1 .. Len(p2) : c <= d => p2[c] <= p2[d] /\ p2[c] \in Nat
    <2>1. \A c, d \in Int : c <= d <=> c < d \/ c = d
      OBVIOUS
    <2>2. /\ \A c \in 1 .. Len(p1) : p1[c] \in Nat
          /\ \A c \in 1 .. Len(p2) : p2[c] \in Nat
      BY DEF Numbers
    <2>3. /\ \A c, d \in 1 .. Len(p1) : c < d => p1[c] <= p1[d]
          /\ \A c, d \in 1 .. Len(p2) : c < d => p2[c] <= p2[d]
      BY <1>0 DEF Ordered
    <2>4. \A c \in Nat : c <= c
      OBVIOUS
    <2>5. \A l \in Nat : \A c \in 1 .. l : c \in Int
      OBVIOUS
    <2> QED
      BY <1>0, <2>1, <2>2, <2>3, <2>4, <2>5
  <1>11. \/ b + 1 \in 1 .. Len(p1) /\ m[j] = p1[b + 1]
         \/ j - b \in 1 .. Len(p2) /\ m[j] = p2[j - b]
    <2>1. CASE TakesFirst(p1, p2, t, m, j)
      <3>1. t[j] = b + 1 /\ m[j] = p1[b + 1]
        BY <1>7, <2>1 DEF TakesFirst
      <3> QED
        BY <1>0, <1>5, <1>9, <3>1
    <2>2. CASE TakesSecond(p1, p2, t, m, j)
      <3>1. t[j] = b /\ m[j] = p2[j - b]
        BY <1>7, <2>2 DEF TakesSecond
      <3>2. PICK l \in Nat : l = Len(p2)
        BY <1>0
      <3>3. j - b \in 0 .. l /\ (j - 1) - b \in 0 .. l /\ j \in Int /\ b \in Int
        BY <1>0, <1>5, <1>9, <3>1, <3>2
      <3>4. j - b \in 1 .. l
        BY ONLY <3>3, l \in Nat
      <3> QED
        BY <3>1, <3>2, <3>4
    <2> QED
      BY <1>1, <2>1, <2>2
  <1>12. CASE TakesFirst(p1, p2, t, m, i)
    <2>1. t[i - 1] = a - 1 /\ m[i] = p1[a]
      <3>1. t[i - 1] \in Int /\ t[i] = t[i - 1] + 1 /\ m[i] = p1[t[i]]
        BY <1>0, <1>5, <1>12 DEF TakesFirst
      <3> QED
        BY <1>6, <3>1
    <2>2. i - (a - 1) <= Len(p2) => m[i] <= p2[i - (a - 1)]
      BY <1>12, <2>1 DEF TakesFirst
    <2>3. a \in 1 .. Len(p1)
      BY <1>0, <1>5, <1>9, <2>1
    <2>4. CASE b + 1 \in 1 .. Len(p1) /\ m[j] = p1[b + 1]
      BY <1>8, <1>10, <2>1, <2>3, <2>4
    <2>5. CASE j - b \in 1 .. Len(p2) /\ m[j] = p2[j - b]
      <3>1. PICK c \in Int : c = i - (a - 1)
        OBVIOUS
      <3>2. c \in 1 .. Len(p2) /\ c <= j - b
        BY <1>0, <1>8, <1>9, <2>5, <3>1
      <3>3. m[i] <= p2[c]
        BY <1>0, <2>2, <3>1, <3>2
      <3>4. p2[c] <= p2[j - b] /\ p2[c] \in Nat
        BY <1>10, <2>5, <3>2
      <3>5. p2[j - b] \in Nat /\ m[i] \in Nat
        BY <1>0, <2>1, <2>3, <2>5 DEF Numbers
      <3> QED
        BY <2>5, <3>3, <3>4, <3>5
    <2> QED
      BY <1>11, <2>4, <2>5
  <1>13. CASE TakesSecond(p1, p2, t, m, i)
    <2>1. t[i - 1] = a /\ m[i] = p2[i - a]
      BY <1>6, <1>13 DEF TakesSecond
    <2>2. a + 1 <= Len(p1) => m[i] <= p1[a + 1]
      BY <1>6, <1>13 DEF TakesSecond
    <2>3. i - a \in 1 .. Len(p2)
      <3>1. (i - 1) - t[i - 1] \in 0 .. Len(p2)
        BY <1>0, <1>5
      <3> QED
        BY <1>0, <1>5, <1>9, <2>1, <3>1
    <2>4. CASE b + 1 \in 1 .. Len(p1) /\ m[j] = p1[b + 1]
      <3>1. a + 1 \in 1 .. Len(p1) /\ a + 1 <= b + 1
        BY <1>0, <1>8, <1>9, <2>4
      <3>3. m[i] <= p1[a + 1]
        BY <1>0, <2>2, <3>1
      <3>4. p1[a + 1] <= p1[b + 1] /\ p1[a + 1] \in Nat
        BY <1>10, <2>4, <3>1
      <3>5. p1[b + 1] \in Nat /\ m[i] \in Nat
        BY <1>0, <2>1, <2>3, <2>4 DEF Numbers
      <3> QED
        BY <2>4, <3>3, <3>4, <3>5
    <2>5. CASE j - b \in 1 .. Len(p2) /\ m[j] = p2[j - b]
      <3>1. i - a <= j - b
        BY ONLY <1>8, a \in Int, b \in Int, i \in Int, j \in Int, SMT
      <3>2. p2[i - a] <= p2[j - b]
        BY <1>10, <2>3, <2>5, <3>1
      <3> QED
        BY <2>1, <2>5, <3>2
    <2> QED
      BY <1>11, <2>4, <2>5
  <1> QED
    BY <1>1, <1>12, <1>13

-----------------------------------------------------------------------------
(* Sequences of records in the order of a sort that keeps the order of     *)
(* records with the same key                                               *)

Record == [key : Nat, tag : Nat]

Stable(s) == \A i, j \in DOMAIN s : i < j => Precedes(s[i], s[j])

LEMMA PrecedesOrder ==
  /\ \A r \in Record : ~Precedes(r, r)
  /\ \A r, s, t \in Record : Precedes(r, s) /\ Precedes(s, t) => Precedes(r, t)
  BY DEF Record, Precedes

(* Two sequences around a record.                                          *)
LEMMA AroundIs ==
  ASSUME NEW s \in Seq(Record), NEW d \in Record, NEW t \in Seq(Record),
         NEW u, u = s \o <<d>> \o t
  PROVE  /\ u \in Seq(Record) /\ Len(u) = Len(s) + 1 + Len(t)
         /\ Len(s) \in Nat /\ Len(t) \in Nat
         /\ \A i \in 1 .. Len(s) : u[i] = s[i]
         /\ u[Len(s) + 1] = d
         /\ \A i \in 1 .. Len(t) : u[Len(s) + 1 + i] = t[i]
  OBVIOUS

LEMMA AroundSet ==
  ASSUME NEW s \in Seq(Record), NEW d \in Record, NEW t \in Seq(Record)
  PROVE  ToSet(s \o <<d>> \o t) = (ToSet(s) \cup {d}) \cup ToSet(t)
  <1> DEFINE u == s \o <<d>> \o t
  <1>1. /\ Len(u) = Len(s) + 1 + Len(t) /\ Len(s) \in Nat /\ Len(t) \in Nat
        /\ \A i \in 1 .. Len(s) : u[i] = s[i]
        /\ u[Len(s) + 1] = d
        /\ \A i \in 1 .. Len(t) : u[Len(s) + 1 + i] = t[i]
        /\ u \in Seq(Record)
    BY AroundIs
  <1>2. DOMAIN u = 1 .. Len(u) /\ DOMAIN s = 1 .. Len(s) /\ DOMAIN t = 1 .. Len(t)
    BY <1>1
  <1> HIDE DEF u
  <1>3. ASSUME NEW i \in DOMAIN u
        PROVE  u[i] \in (ToSet(s) \cup {d}) \cup ToSet(t)
    <2>1. CASE i \in 1 .. Len(s)
      BY <1>1, <1>2, <2>1 DEF ToSet
    <2>2. CASE i = Len(s) + 1
      BY <1>1, <2>2
    <2>3. CASE i > Len(s) + 1
      <3>1. PICK j \in 1 .. Len(t) : i = Len(s) + 1 + j
        <4>1. PICK n \in Nat : n = Len(s)
          BY <1>1
        <4>2. PICK m \in Nat : m = Len(t)
          BY <1>1
        <4>3. i \in 1 .. n + 1 + m /\ i > n + 1
          BY <1>1, <1>2, <2>3, <4>1, <4>2
        <4>4. i - (n + 1) \in 1 .. m /\ i = n + 1 + (i - (n + 1))
          BY <4>3
        <4> QED
          BY <4>1, <4>2, <4>4
      <3> QED
        BY <1>1, <1>2, <3>1 DEF ToSet
    <2>4. i \in 1 .. Len(s) \/ i = Len(s) + 1 \/ i > Len(s) + 1
      <3>1. i \in Int /\ i >= 1 /\ Len(s) \in Nat
        BY <1>1, <1>2
      <3> QED
        BY <3>1
    <2> QED
      BY <2>1, <2>2, <2>3, <2>4
  <1>4. ToSet(s) \subseteq ToSet(u)
    BY <1>1, <1>2 DEF ToSet
  <1>5. ToSet(t) \subseteq ToSet(u)
    <2>1. \A i \in 1 .. Len(t) : Len(s) + 1 + i \in DOMAIN u
      BY <1>1, <1>2
    <2> QED
      BY <1>1, <1>2, <2>1 DEF ToSet
  <1>6. d \in ToSet(u)
    <2>1. Len(s) + 1 \in DOMAIN u
      BY <1>1, <1>2
    <2> QED
      BY <1>1, <2>1 DEF ToSet
  <1>7. ToSet(u) = (ToSet(s) \cup {d}) \cup ToSet(t)
    <2>1. ToSet(u) = {u[i] : i \in DOMAIN u}
      BY DEF ToSet
    <2> QED
      BY <1>3, <1>4, <1>5, <1>6, <2>1
  <1> QED
    BY <1>7 DEF u

LEMMA StableAround ==
  ASSUME NEW s \in Seq(Record), NEW d \in Record, NEW t \in Seq(Record)
  PROVE  Stable(s \o <<d>> \o t) <=>
           /\ Stable(s) /\ Stable(t)
           /\ \A r \in ToSet(s) : Precedes(r, d)
           /\ \A r \in ToSet(t) : Precedes(d, r)
  <1> DEFINE u == s \o <<d>> \o t
             n == Len(s)
             m == Len(t)
  <1>1. /\ Len(u) = n + 1 + m /\ n \in Nat /\ m \in Nat
        /\ \A i \in 1 .. n : u[i] = s[i]
        /\ u[n + 1] = d
        /\ \A i \in 1 .. m : u[n + 1 + i] = t[i]
        /\ u \in Seq(Record)
    BY AroundIs
  <1>2. DOMAIN u = 1 .. n + 1 + m /\ DOMAIN s = 1 .. n /\ DOMAIN t = 1 .. m
    BY <1>1
  <1>3. (\A i \in 1 .. n : s[i] \in Record) /\ \A i \in 1 .. m : t[i] \in Record
    BY ElementOfSeq
  <1> HIDE DEF u, n, m
  <1>4. ASSUME Stable(u)
        PROVE  /\ Stable(s) /\ Stable(t)
               /\ \A r \in ToSet(s) : Precedes(r, d)
               /\ \A r \in ToSet(t) : Precedes(d, r)
    <2>1. \A i, j \in 1 .. n + 1 + m : i < j => Precedes(u[i], u[j])
      BY <1>2, <1>4 DEF Stable
    <2>2. Stable(s)
      <3>1. \A i \in 1 .. n : i \in 1 .. n + 1 + m
        BY <1>1
      <3> QED
        BY <1>1, <1>2, <2>1, <3>1 DEF Stable
    <2>3. ASSUME NEW i \in 1 .. m, NEW j \in 1 .. m, i < j
          PROVE  Precedes(t[i], t[j])
      <3>1. PICK a \in 1 .. n + 1 + m : a = n + 1 + i
        BY <1>1
      <3>2. PICK b \in 1 .. n + 1 + m : b = n + 1 + j
        BY <1>1
      <3>3. a < b /\ u[a] = t[i] /\ u[b] = t[j]
        BY <1>1, <2>3, <3>1, <3>2
      <3> QED
        BY <2>1, <3>3
    <2>4. \A i \in 1 .. n : Precedes(s[i], d)
      <3>1. \A i \in 1 .. n : i \in 1 .. n + 1 + m /\ n + 1 \in 1 .. n + 1 + m /\ i < n + 1
        BY <1>1
      <3> QED
        BY <1>1, <2>1, <3>1
    <2>5. ASSUME NEW i \in 1 .. m
          PROVE  Precedes(d, t[i])
      <3>1. PICK a \in 1 .. n + 1 + m : a = n + 1
        BY <1>1
      <3>2. PICK b \in 1 .. n + 1 + m : b = n + 1 + i
        BY <1>1
      <3>3. a < b /\ u[a] = d /\ u[b] = t[i]
        BY <1>1, <3>1, <3>2
      <3> QED
        BY <2>1, <3>3
    <2> QED
      BY <1>2, <2>2, <2>3, <2>4, <2>5 DEF Stable, ToSet
  <1>5. ASSUME Stable(s), Stable(t),
               \A r \in ToSet(s) : Precedes(r, d), \A r \in ToSet(t) : Precedes(d, r)
        PROVE  Stable(u)
    <2>1. \A i \in 1 .. n : Precedes(s[i], d)
      BY <1>2, <1>5 DEF ToSet
    <2>2. \A i \in 1 .. m : Precedes(d, t[i])
      BY <1>2, <1>5 DEF ToSet
    <2>3. \A i \in 1 .. n, j \in 1 .. m : Precedes(s[i], t[j])
      BY <1>3, <2>1, <2>2, PrecedesOrder
    <2>4. \A i \in 1 .. n + 1 + m : i \in 1 .. n \/ i = n + 1 \/ \E k \in 1 .. m : i = n + 1 + k
      <3> TAKE i \in 1 .. n + 1 + m
      <3>1. CASE i > n + 1
        <4>1. i - (n + 1) \in 1 .. m /\ i = n + 1 + (i - (n + 1))
          BY <1>1, <3>1
        <4> QED
          BY <4>1
      <3> QED
        BY <1>1, <3>1
    <2>5. ASSUME NEW i \in 1 .. n + 1 + m, NEW j \in 1 .. n + 1 + m, i < j
          PROVE  Precedes(u[i], u[j])
      <3>1. CASE j \in 1 .. n
        <4>1. i \in 1 .. n
          BY <1>1, <2>5, <3>1
        <4> QED
          BY <1>1, <1>2, <1>5, <2>5, <3>1, <4>1 DEF Stable
      <3>2. CASE j = n + 1
        <4>1. i \in 1 .. n
          BY <1>1, <2>5, <3>2
        <4> QED
          BY <1>1, <2>1, <3>2, <4>1
      <3>3. ASSUME NEW k \in 1 .. m, j = n + 1 + k
            PROVE  Precedes(u[i], u[j])
        <4>1. u[j] = t[k]
          BY <1>1, <3>3
        <4>2. CASE i \in 1 .. n
          BY <1>1, <2>3, <4>1, <4>2
        <4>3. CASE i = n + 1
          BY <1>1, <2>2, <4>1, <4>3
        <4>4. ASSUME NEW h \in 1 .. m, i = n + 1 + h
              PROVE  Precedes(u[i], u[j])
          <5>1. h < k
            BY <1>1, <2>5, <3>3, <4>4
          <5>2. u[i] = t[h]
            BY <1>1, <4>4
          <5> QED
            BY <1>2, <1>5, <4>1, <5>1, <5>2 DEF Stable
        <4> QED
          BY <2>4, <4>2, <4>3, <4>4
      <3> QED
        BY <2>4, <3>1, <3>2, <3>3
    <2> QED
      BY <1>2, <2>5 DEF Stable
  <1>6. Stable(u) <=> /\ Stable(s) /\ Stable(t)
                      /\ \A r \in ToSet(s) : Precedes(r, d)
                      /\ \A r \in ToSet(t) : Precedes(d, r)
    BY <1>4, <1>5
  <1> QED
    BY <1>6 DEF u

-----------------------------------------------------------------------------
(* The tree: a node lies behind its parent in the heap.                    *)

Node == [Left : Nat, Right : Nat, data : Record]

IsTree(nodes, n) ==
  /\ nodes \in Seq(Node) /\ Len(nodes) = n
  /\ \A p \in 1 .. n : Below(p, nodes) \subseteq p + 1 .. n

(* g[p] is what is printed for the tree at p.                              *)
IsScan(nodes, g, a, n) ==
  /\ DOMAIN g = 0 .. n /\ g[0] = <<>>
  /\ \A p \in a + 1 .. n : g[p] = g[nodes[p].Left] \o <<nodes[p].data>> \o g[nodes[p].Right]

LEMMA TreeNodes ==
  ASSUME NEW n \in Nat, NEW nodes, IsTree(nodes, n)
  PROVE  /\ DOMAIN nodes = 1 .. n
         /\ \A p \in 1 .. n :
              /\ nodes[p] \in Node /\ nodes[p].data \in Record
              /\ nodes[p].Left \in Nat /\ nodes[p].Right \in Nat
              /\ nodes[p].Left = 0 \/ nodes[p].Left \in p + 1 .. n
              /\ nodes[p].Right = 0 \/ nodes[p].Right \in p + 1 .. n
  <1>1. DOMAIN nodes = 1 .. n /\ \A p \in 1 .. n : nodes[p] \in Node
    BY ElementOfSeq DEF IsTree
  <1>2. \A p \in 1 .. n : {nodes[p].Left, nodes[p].Right} \ {0} \subseteq p + 1 .. n
    BY DEF IsTree, Below, NULL
  <1> QED
    BY <1>1, <1>2 DEF Node

(* Induction from the last node to the first.                              *)
LEMMA FromLast ==
  ASSUME NEW n \in Nat, NEW K, 0 \in K,
         \A p \in 1 .. n : (\A q \in p + 1 .. n : q \in K) => p \in K
  PROVE  0 .. n \subseteq K
  <1> DEFINE J == {k \in Nat : \A q \in 1 .. n : q + k > n => q \in K}
  <1>1. 0 \in J
    OBVIOUS
  <1>2. ASSUME NEW k \in Nat, k \in J
        PROVE  k + 1 \in J
    <2> SUFFICES ASSUME NEW q \in 1 .. n, q + (k + 1) > n
                 PROVE  q \in K
      OBVIOUS
    <2>1. \A r \in q + 1 .. n : r \in 1 .. n /\ r + k > n
      BY <1>2
    <2> QED
      BY <1>2, <2>1
  <1> HIDE DEF J
  <1>3. Nat \subseteq J
    BY <1>1, <1>2, SetInduction
  <1>4. n \in J
    BY <1>3
  <1>5. \A q \in 1 .. n : q + n > n
    OBVIOUS
  <1>6. \A q \in 1 .. n : q \in K
    BY <1>4, <1>5 DEF J
  <1>7. \A q \in 0 .. n : q = 0 \/ q \in 1 .. n
    OBVIOUS
  <1> QED
    BY <1>6, <1>7

LEMMA ScanExists ==
  ASSUME NEW n \in Nat, NEW nodes, IsTree(nodes, n)
  PROVE  \E g : IsScan(nodes, g, 0, n)
  <1> DEFINE K == {k \in Nat : k <= n => \E g : IsScan(nodes, g, n - k, n)}
  <1>1. 0 \in K
    <2> DEFINE g == [p \in 0 .. n |-> <<>>]
    <2>1. DOMAIN g = 0 .. n /\ g[0] = <<>> /\ n - 0 = n /\ n + 1 .. n = {}
      OBVIOUS
    <2> HIDE DEF g
    <2>2. IsScan(nodes, g, n - 0, n)
      BY <2>1 DEF IsScan
    <2> QED
      BY <2>2
  <1>2. ASSUME NEW k \in Nat, k \in K
        PROVE  k + 1 \in K
    <2> SUFFICES ASSUME k + 1 <= n
                 PROVE  \E g : IsScan(nodes, g, n - (k + 1), n)
      OBVIOUS
    <2>1. PICK a \in 0 .. n : a = n - (k + 1)
      OBVIOUS
    <2>2. PICK b \in 1 .. n : b = n - k /\ b = a + 1
      BY <2>1
    <2>3. PICK g : IsScan(nodes, g, b, n)
      BY <1>2, <2>2
    <2> DEFINE new == g[nodes[b].Left] \o <<nodes[b].data>> \o g[nodes[b].Right]
               h == [p \in 0 .. n |-> IF p = b THEN new ELSE g[p]]
    <2>4. DOMAIN h = 0 .. n /\ h[0] = <<>> /\ h[b] = new /\ \A p \in 0 .. n : p # b => h[p] = g[p]
      <3> HIDE DEF new
      <3> QED
        BY <2>2, <2>3 DEF IsScan
    <2> HIDE DEF h
    <2>5. ASSUME NEW p \in a + 1 .. n
          PROVE  h[p] = h[nodes[p].Left] \o <<nodes[p].data>> \o h[nodes[p].Right]
      <3>1. p \in 1 .. n /\ p >= b
        BY <2>1, <2>2
      <3>2. /\ nodes[p].Left \in 0 .. n /\ nodes[p].Left # b
            /\ nodes[p].Right \in 0 .. n /\ nodes[p].Right # b
        BY <2>2, <3>1, TreeNodes
      <3>3. h[nodes[p].Left] = g[nodes[p].Left] /\ h[nodes[p].Right] = g[nodes[p].Right]
        BY <2>4, <3>2
      <3>4. CASE p = b
        BY <2>4, <3>3, <3>4
      <3>5. CASE p # b
        <4>1. p \in b + 1 .. n /\ p \in 0 .. n
          BY <2>1, <2>2, <3>1, <3>5
        <4>2. h[p] = g[p]
          BY <2>4, <3>5, <4>1
        <4>3. g[p] = g[nodes[p].Left] \o <<nodes[p].data>> \o g[nodes[p].Right]
          BY <2>3, <4>1 DEF IsScan
        <4> QED
          BY <3>3, <4>2, <4>3
      <3> QED
        BY <3>4, <3>5
    <2>6. IsScan(nodes, h, a, n)
      BY <2>4, <2>5 DEF IsScan
    <2> QED
      BY <2>1, <2>6
  <1> HIDE DEF K
  <1>3. Nat \subseteq K
    BY <1>1, <1>2, SetInduction
  <1>4. \E g : IsScan(nodes, g, n - n, n)
    BY <1>3 DEF K
  <1>5. n - n = 0
    OBVIOUS
  <1> QED
    BY <1>4, <1>5

LEMMA ScanIs ==
  ASSUME NEW n \in Nat, NEW nodes, IsTree(nodes, n)
  PROVE  \E g : IsScan(nodes, g, 0, n) /\ Scan(nodes) = g[pRoot(nodes)]
  <1> DEFINE At(g, p) == g[nodes[p].Left] \o <<nodes[p].data>> \o g[nodes[p].Right]
             Is(g) == g = [p \in 0 .. Len(nodes) |-> IF p = NULL THEN <<>> ELSE At(g, p)]
             f == CHOOSE g : Is(g)
  <1>1. Scan(nodes) = f[pRoot(nodes)]
    BY DEF Scan
  <1>2. Len(nodes) = n
    BY DEF IsTree
  <1>3. PICK g : IsScan(nodes, g, 0, n)
    BY ScanExists
  <1> DEFINE h == [p \in 0 .. n |-> g[p]]
  <1>4. \A p \in 1 .. n : nodes[p].Left \in 0 .. n /\ nodes[p].Right \in 0 .. n
    <2>1. \A p \in 1 .. n : \A q \in p + 1 .. n : q \in 0 .. n
      OBVIOUS
    <2> QED
      BY <2>1, TreeNodes
  <1>5. h[0] = <<>> /\ \A p \in 1 .. n : h[p] = At(h, p)
    <2>1. \A p \in 1 .. n : At(h, p) = At(g, p)
      BY <1>4
    <2>2. \A p \in 1 .. n : p \in 0 .. n /\ 0 \in 0 .. n
      OBVIOUS
    <2>3. \A p \in 1 .. n : p \in 0 + 1 .. n
      OBVIOUS
    <2>4. g[0] = <<>> /\ \A p \in 1 .. n : g[p] = At(g, p)
      BY <1>3, <2>3 DEF IsScan
    <2>5. h[0] = g[0] /\ \A p \in 1 .. n : h[p] = g[p]
      BY <2>2
    <2> HIDE DEF At, h
    <2> QED
      BY <2>1, <2>4, <2>5
  <1>6. Is(h)
    <2>1. h = [p \in 0 .. n |-> h[p]]
      OBVIOUS
    <2>2. \A p \in 0 .. n : h[p] = IF p = NULL THEN <<>> ELSE At(h, p)
      <3> HIDE DEF At, h
      <3>1. \A p \in 0 .. n : p = 0 \/ p \in 1 .. n
        OBVIOUS
      <3> QED
        BY <1>5, <3>1 DEF NULL
    <2> HIDE DEF At, h
    <2> QED
      BY <1>2, <2>1, <2>2
  <1>7. Is(f)
    <2> HIDE DEF Is
    <2> QED
      BY <1>6
  <1> HIDE DEF f
  <1>8. DOMAIN f = 0 .. n /\ \A p \in 0 .. n : f[p] = IF p = NULL THEN <<>> ELSE At(f, p)
    <2> HIDE DEF At
    <2> QED
      BY <1>2, <1>7
  <1>9. IsScan(nodes, f, 0, n)
    <2>1. f[0] = <<>> /\ \A p \in 0 + 1 .. n : f[p] = At(f, p)
      <3> HIDE DEF At
      <3>1. 0 \in 0 .. n /\ \A p \in 0 + 1 .. n : p \in 0 .. n /\ p # 0
        OBVIOUS
      <3> QED
        BY <1>8, <3>1 DEF NULL
    <2> QED
      BY <1>8, <2>1 DEF IsScan
  <1> QED
    BY <1>1, <1>9

LEMMA ScanTyped ==
  ASSUME NEW n \in Nat, NEW nodes, IsTree(nodes, n), NEW g, IsScan(nodes, g, 0, n)
  PROVE  \A p \in 0 .. n : g[p] \in Seq(Record)
  <1> DEFINE K == {p \in 0 .. n : g[p] \in Seq(Record)}
  <1>1. 0 \in K
    BY DEF IsScan
  <1>2. ASSUME NEW p \in 1 .. n, \A q \in p + 1 .. n : q \in K
        PROVE  p \in K
    <2>1. g[nodes[p].Left] \in Seq(Record) /\ g[nodes[p].Right] \in Seq(Record)
      BY <1>1, <1>2, TreeNodes
    <2>2. nodes[p].data \in Record
      BY TreeNodes
    <2>3. PICK s \in Seq(Record) : s = g[nodes[p].Left]
      BY <2>1
    <2>4. PICK t \in Seq(Record) : t = g[nodes[p].Right]
      BY <2>1
    <2>5. PICK d \in Record : d = nodes[p].data
      BY <2>2
    <2>6. g[p] = s \o <<d>> \o t
      <3>1. p \in 0 + 1 .. n
        OBVIOUS
      <3> QED
        BY <2>3, <2>4, <2>5, <3>1 DEF IsScan
    <2>7. g[p] \in Seq(Record)
      BY <2>6, AroundIs
    <2> QED
      BY <2>7
  <1> HIDE DEF K
  <1>3. 0 .. n \subseteq K
    BY <1>1, <1>2, FromLast
  <1> QED
    BY <1>3 DEF K

(* What is printed for the tree at a node, with the trees at l and r below *)
(* it.                                                                     *)
Printed(nodes, g, n, p, l, r) ==
  /\ l = nodes[p].Left /\ r = nodes[p].Right
  /\ l = 0 \/ l \in p + 1 .. n
  /\ r = 0 \/ r \in p + 1 .. n
  /\ nodes[p].data \in Record
  /\ g[l] \in Seq(Record) /\ g[r] \in Seq(Record)
  /\ g[p] = g[l] \o <<nodes[p].data>> \o g[r]
  /\ ToSet(g[p]) = (ToSet(g[l]) \cup {nodes[p].data}) \cup ToSet(g[r])
  /\ Stable(g[p]) <=> /\ Stable(g[l]) /\ Stable(g[r])
                      /\ \A q \in ToSet(g[l]) : Precedes(q, nodes[p].data)
                      /\ \A q \in ToSet(g[r]) : Precedes(nodes[p].data, q)

LEMMA ScanAt ==
  ASSUME NEW n \in Nat, NEW nodes, IsTree(nodes, n), NEW g, IsScan(nodes, g, 0, n),
         NEW p \in 1 .. n
  PROVE  \E l, r \in 0 .. n : Printed(nodes, g, n, p, l, r)
  <1>1. PICK l \in 0 .. n : l = nodes[p].Left /\ (l = 0 \/ l \in p + 1 .. n)
    BY TreeNodes
  <1>2. PICK r \in 0 .. n : r = nodes[p].Right /\ (r = 0 \/ r \in p + 1 .. n)
    BY TreeNodes
  <1>3. PICK d \in Record : d = nodes[p].data
    BY TreeNodes
  <1>4. g[l] \in Seq(Record) /\ g[r] \in Seq(Record)
    BY ScanTyped
  <1>5. g[p] = g[l] \o <<d>> \o g[r]
    <2>1. p \in 0 + 1 .. n
      OBVIOUS
    <2> QED
      BY <1>1, <1>2, <1>3, <2>1 DEF IsScan
  <1>6. ToSet(g[p]) = (ToSet(g[l]) \cup {d}) \cup ToSet(g[r])
    BY <1>4, <1>5, AroundSet
  <1>7. Stable(g[p]) <=> /\ Stable(g[l]) /\ Stable(g[r])
                         /\ \A q \in ToSet(g[l]) : Precedes(q, d)
                         /\ \A q \in ToSet(g[r]) : Precedes(d, q)
    BY <1>4, <1>5, StableAround
  <1>8. Printed(nodes, g, n, p, l, r)
    BY <1>1, <1>2, <1>3, <1>4, <1>5, <1>6, <1>7 DEF Printed
  <1> QED
    BY <1>8

-----------------------------------------------------------------------------
(* The way down the tree: d[p] is where x is put below p.                  *)

Side(nodes, p, x) == IF KeyBefore(x.key, nodes[p].data.key) THEN "Left" ELSE "Right"

IsDescent(nodes, d, a, n, x) ==
  /\ DOMAIN d = 1 .. n
  /\ \A p \in a + 1 .. n :
       d[p] = IF nodes[p][Side(nodes, p, x)] = NULL THEN p ELSE d[nodes[p][Side(nodes, p, x)]]

LEMMA SideIs ==
  ASSUME NEW n \in Nat, NEW nodes, IsTree(nodes, n), NEW p \in 1 .. n, NEW x
  PROVE  /\ Side(nodes, p, x) \in {"Left", "Right"}
         /\ nodes[p][Side(nodes, p, x)] = 0 \/ nodes[p][Side(nodes, p, x)] \in p + 1 .. n
  BY TreeNodes DEF Side

LEMMA DescentExists ==
  ASSUME NEW n \in Nat, NEW nodes, IsTree(nodes, n), NEW x
  PROVE  \E d : IsDescent(nodes, d, 0, n, x)
  <1> DEFINE K == {k \in Nat : k <= n => \E d : IsDescent(nodes, d, n - k, n, x)}
             c(p) == nodes[p][Side(nodes, p, x)]
  <1>1. 0 \in K
    <2> DEFINE d == [p \in 1 .. n |-> p]
    <2>1. DOMAIN d = 1 .. n /\ n - 0 = n /\ n + 1 .. n = {}
      OBVIOUS
    <2> HIDE DEF d
    <2>2. IsDescent(nodes, d, n - 0, n, x)
      BY <2>1 DEF IsDescent
    <2> QED
      BY <2>2
  <1>2. ASSUME NEW k \in Nat, k \in K
        PROVE  k + 1 \in K
    <2> SUFFICES ASSUME k + 1 <= n
                 PROVE  \E d : IsDescent(nodes, d, n - (k + 1), n, x)
      OBVIOUS
    <2>1. PICK a \in 0 .. n : a = n - (k + 1)
      OBVIOUS
    <2>2. PICK b \in 1 .. n : b = n - k /\ b = a + 1
      BY <2>1
    <2>3. PICK d : IsDescent(nodes, d, b, n, x)
      BY <1>2, <2>2
    <2> DEFINE new == IF c(b) = 0 THEN b ELSE d[c(b)]
               h == [p \in 1 .. n |-> IF p = b THEN new ELSE d[p]]
    <2>4. DOMAIN h = 1 .. n /\ h[b] = new /\ \A p \in 1 .. n : p # b => h[p] = d[p]
      <3> HIDE DEF new
      <3> QED
        BY <2>2
    <2> HIDE DEF h
    <2>5. ASSUME NEW p \in a + 1 .. n
          PROVE  h[p] = IF c(p) = 0 THEN p ELSE h[c(p)]
      <3>1. p \in 1 .. n /\ p >= b
        BY <2>1, <2>2
      <3>2. c(p) = 0 \/ c(p) \in p + 1 .. n
        BY <3>1, SideIs
      <3>3. c(p) # 0 => h[c(p)] = d[c(p)]
        <4>1. c(p) # 0 => c(p) \in 1 .. n /\ c(p) # b
          BY <2>2, <3>1, <3>2
        <4> HIDE DEF c
        <4> QED
          BY <2>4, <4>1
      <3>4. CASE p = b
        <4> HIDE DEF c
        <4> QED
          BY <2>4, <3>3, <3>4
      <3>5. CASE p # b
        <4>1. p \in b + 1 .. n
          BY <2>1, <2>2, <3>1, <3>5
        <4>2. h[p] = d[p]
          BY <2>4, <3>1, <3>5
        <4>3. d[p] = IF c(p) = 0 THEN p ELSE d[c(p)]
          BY <2>3, <4>1 DEF IsDescent, NULL
        <4> HIDE DEF c
        <4> QED
          BY <3>3, <4>2, <4>3
      <3> QED
        BY <3>4, <3>5
    <2>6. IsDescent(nodes, h, a, n, x)
      BY <2>4, <2>5 DEF IsDescent, NULL
    <2> QED
      BY <2>1, <2>6
  <1> HIDE DEF K
  <1>3. Nat \subseteq K
    BY <1>1, <1>2, SetInduction
  <1>4. \E d : IsDescent(nodes, d, n - n, n, x)
    BY <1>3 DEF K
  <1>5. n - n = 0
    OBVIOUS
  <1> QED
    BY <1>4, <1>5

LEMMA DescentEnds ==
  ASSUME NEW n \in Nat, NEW nodes, IsTree(nodes, n), NEW x, NEW d, IsDescent(nodes, d, 0, n, x)
  PROVE  \A p \in 1 .. n : d[p] \in 1 .. n /\ nodes[d[p]][Side(nodes, d[p], x)] = 0
  <1> DEFINE c(p) == nodes[p][Side(nodes, p, x)]
             K == {p \in 0 .. n : p # 0 => d[p] \in 1 .. n /\ c(d[p]) = 0}
  <1>1. 0 \in K
    OBVIOUS
  <1>2. ASSUME NEW p \in 1 .. n, \A q \in p + 1 .. n : q \in K
        PROVE  p \in K
    <2>1. c(p) = 0 \/ c(p) \in p + 1 .. n
      BY SideIs
    <2>2. d[p] = IF c(p) = 0 THEN p ELSE d[c(p)]
      <3>1. p \in 0 + 1 .. n
        OBVIOUS
      <3> QED
        BY <3>1 DEF IsDescent, NULL
    <2> HIDE DEF c
    <2>3. CASE c(p) = 0
      BY <2>2, <2>3
    <2>4. CASE c(p) \in p + 1 .. n
      <3>1. c(p) # 0 /\ c(p) \in K
        BY <1>2, <2>4
      <3> HIDE DEF K
      <3>2. d[c(p)] \in 1 .. n /\ c(d[c(p)]) = 0
        BY <3>1 DEF K
      <3>3. p \in 0 .. n
        OBVIOUS
      <3> QED
        BY <2>2, <3>1, <3>2, <3>3 DEF K
    <2> QED
      BY <2>1, <2>3, <2>4
  <1> HIDE DEF K, c
  <1>3. 0 .. n \subseteq K
    BY <1>1, <1>2, FromLast
  <1>4. \A p \in 1 .. n : p \in 0 .. n /\ p # 0
    OBVIOUS
  <1> QED
    BY <1>3, <1>4 DEF K, c

-----------------------------------------------------------------------------
(* A record is put into the tree.                                          *)

NewNode(x) == [Left |-> NULL, Right |-> NULL, data |-> x]

LEMMA InsertIs ==
  ASSUME NEW n \in Nat \ {0}, NEW nodes, IsTree(nodes, n), NEW x
  PROVE  \E d : /\ IsDescent(nodes, d, 0, n, x)
                /\ InsertTree(nodes, x)
                     = Append([nodes EXCEPT ![d[1]][Side(nodes, d[1], x)] = n + 1], NewNode(x))
  <1> DEFINE c(p) == nodes[p][Side(nodes, p, x)]
             Is(d) == d = [p \in DOMAIN nodes |-> IF c(p) = NULL THEN p ELSE d[c(p)]]
             f == CHOOSE d : Is(d)
             P == f[pRoot(nodes)]
  <1>1. nodes # <<>> /\ Len(nodes) = n /\ DOMAIN nodes = 1 .. n
    BY TreeNodes DEF IsTree
  <1>2. InsertTree(nodes, x)
          = Append([nodes EXCEPT ![P][Side(nodes, P, x)] = Len(nodes) + 1], NewNode(x))
    BY <1>1 DEF InsertTree, Side, NewNode
  <1>3. pRoot(nodes) = 1
    BY <1>1 DEF pRoot
  <1>4. PICK d : IsDescent(nodes, d, 0, n, x)
    BY DescentExists
  <1> DEFINE h == [p \in 1 .. n |-> d[p]]
  <1>5. \A p \in 1 .. n : c(p) = 0 \/ c(p) \in 1 .. n
    <2>1. \A p \in 1 .. n : \A q \in p + 1 .. n : q \in 1 .. n
      OBVIOUS
    <2> QED
      BY <2>1, SideIs
  <1>6. \A p \in 1 .. n : h[p] = IF c(p) = 0 THEN p ELSE h[c(p)]
    <2>1. \A p \in 1 .. n : d[p] = IF c(p) = 0 THEN p ELSE d[c(p)]
      <3>1. \A p \in 1 .. n : p \in 0 + 1 .. n
        OBVIOUS
      <3> QED
        BY <1>4, <3>1 DEF IsDescent, NULL
    <2>2. \A p \in 1 .. n : h[p] = d[p]
      OBVIOUS
    <2> HIDE DEF c, h
    <2> QED
      BY <1>5, <2>1, <2>2
  <1>7. Is(h)
    <2>1. h = [p \in 1 .. n |-> h[p]]
      OBVIOUS
    <2> HIDE DEF c, h
    <2> QED
      BY <1>1, <1>6, <2>1 DEF NULL
  <1>8. Is(f)
    <2> HIDE DEF Is
    <2> QED
      BY <1>7
  <1> HIDE DEF f
  <1>9. IsDescent(nodes, f, 0, n, x)
    <2>1. DOMAIN f = 1 .. n /\ \A p \in 1 .. n : f[p] = IF c(p) = NULL THEN p ELSE f[c(p)]
      <3> HIDE DEF c
      <3> QED
        BY <1>1, <1>8
    <2>2. \A p \in 0 + 1 .. n : p \in 1 .. n
      OBVIOUS
    <2> QED
      BY <2>1, <2>2 DEF IsDescent
  <1> QED
    BY <1>1, <1>2, <1>3, <1>9

LEMMA FunctionIsSeq ==
  ASSUME NEW n \in Nat, NEW S, NEW s \in [1 .. n -> S]
  PROVE  s \in Seq(S) /\ Len(s) = n
  OBVIOUS

(* new is the tree nodes with x at a free place of node P.                 *)
IsInserted(nodes, new, n, x, P) ==
  /\ \A p \in 1 .. n : p # P => new[p] = nodes[p]
  /\ new[P].data = nodes[P].data
  /\ Side(nodes, P, x) = "Left" => new[P].Left = n + 1 /\ new[P].Right = nodes[P].Right
  /\ Side(nodes, P, x) = "Right" => new[P].Right = n + 1 /\ new[P].Left = nodes[P].Left
  /\ new[n + 1] = NewNode(x)

LEMMA InsertKeepsTree ==
  ASSUME NEW n \in Nat, NEW nodes, IsTree(nodes, n), NEW x \in Record, NEW P \in 1 .. n,
         NEW new, new = Append([nodes EXCEPT ![P][Side(nodes, P, x)] = n + 1], NewNode(x))
  PROVE  IsInserted(nodes, new, n, x, P) /\ IsTree(new, n + 1)
  <1> DEFINE changed == [nodes[P] EXCEPT ![Side(nodes, P, x)] = n + 1]
             most == [nodes EXCEPT ![P] = changed]
  <1>1. new = Append(most, NewNode(x))
    OBVIOUS
  <1>2. /\ DOMAIN nodes = 1 .. n
        /\ \A p \in 1 .. n : nodes[p] \in Node
        /\ nodes[P] \in Node
    BY TreeNodes
  <1>3. /\ changed \in Node /\ changed.data = nodes[P].data
        /\ Side(nodes, P, x) = "Left" => changed.Left = n + 1 /\ changed.Right = nodes[P].Right
        /\ Side(nodes, P, x) = "Right" => changed.Right = n + 1 /\ changed.Left = nodes[P].Left
    <2>1. n + 1 \in Nat
      OBVIOUS
    <2>2. CASE Side(nodes, P, x) = "Left"
      BY <1>2, <2>1, <2>2 DEF Node
    <2>3. CASE Side(nodes, P, x) = "Right"
      BY <1>2, <2>1, <2>3 DEF Node
    <2> QED
      BY <2>2, <2>3, SideIs
  <1> HIDE DEF changed
  <1>4. NewNode(x) \in Node
    BY DEF NewNode, Node, NULL
  <1>5. /\ most \in [1 .. n -> Node] /\ most[P] = changed
        /\ \A p \in 1 .. n : p # P => most[p] = nodes[p]
    BY <1>2, <1>3
  <1> HIDE DEF most
  <1>6. most \in Seq(Node) /\ Len(most) = n
    BY <1>5, FunctionIsSeq
  <1>7. /\ new \in Seq(Node) /\ Len(new) = n + 1 /\ new[n + 1] = NewNode(x)
        /\ \A p \in 1 .. n : new[p] = most[p]
    <2>1. PICK e \in Node : e = NewNode(x)
      BY <1>4
    <2>2. /\ Append(most, e) \in Seq(Node) /\ Len(Append(most, e)) = Len(most) + 1
          /\ \A p \in 1 .. Len(most) : Append(most, e)[p] = most[p]
          /\ Append(most, e)[Len(most) + 1] = e
      BY <1>6, AppendProperties
    <2>3. new = Append(most, e)
      BY <1>1, <2>1
    <2> QED
      BY <1>6, <2>1, <2>2, <2>3
  <1>8. IsInserted(nodes, new, n, x, P)
    BY <1>3, <1>5, <1>7 DEF IsInserted
  <1>9. ASSUME NEW p \in 1 .. n + 1
        PROVE  /\ new[p].Left = 0 \/ new[p].Left \in p + 1 .. n + 1
               /\ new[p].Right = 0 \/ new[p].Right \in p + 1 .. n + 1
    <2>1. CASE p = n + 1
      BY <1>7, <2>1 DEF NewNode, NULL
    <2>2. ASSUME p \in 1 .. n
          PROVE  /\ nodes[p].Left = 0 \/ nodes[p].Left \in p + 1 .. n + 1
                 /\ nodes[p].Right = 0 \/ nodes[p].Right \in p + 1 .. n + 1
                 /\ n + 1 \in p + 1 .. n + 1
      <3>1. p + 1 .. n \subseteq p + 1 .. n + 1
        OBVIOUS
      <3> QED
        BY <2>2, <3>1, TreeNodes
    <2>3. CASE p \in 1 .. n /\ p # P
      BY <1>5, <1>7, <2>2, <2>3
    <2>4. CASE p = P
      <3>1. CASE Side(nodes, P, x) = "Left"
        BY <1>8, <2>2, <2>4, <3>1 DEF IsInserted
      <3>2. CASE Side(nodes, P, x) = "Right"
        BY <1>8, <2>2, <2>4, <3>2 DEF IsInserted
      <3>3. Side(nodes, P, x) \in {"Left", "Right"}
        BY <2>4, SideIs
      <3> QED
        BY <3>1, <3>2, <3>3
    <2>5. p \in 1 .. n \/ p = n + 1
      OBVIOUS
    <2> QED
      BY <2>1, <2>3, <2>4, <2>5
  <1>10. IsTree(new, n + 1)
    <2>1. \A p \in 1 .. n + 1 : Below(p, new) \subseteq p + 1 .. n + 1
      BY <1>9 DEF Below, NULL
    <2> QED
      BY <1>7, <2>1 DEF IsTree
  <1> QED
    BY <1>8, <1>10

(* Where the new parent is not, the same is printed.                       *)
UnchangedElsewhere(nodes, P, n, g, h) ==
  \A q \in 0 .. n : nodes[P].data \notin ToSet(g[q]) => h[q] = g[q]

LEMMA ElsewhereSame ==
  ASSUME NEW n \in Nat, NEW nodes, IsTree(nodes, n), NEW x, NEW P \in 1 .. n,
         NEW new, IsInserted(nodes, new, n, x, P),
         NEW g, IsScan(nodes, g, 0, n), NEW h, IsScan(new, h, 0, n + 1)
  PROVE  UnchangedElsewhere(nodes, P, n, g, h)
  <1> DEFINE K == {q \in 0 .. n : nodes[P].data \notin ToSet(g[q]) => h[q] = g[q]}
  <1>1. 0 \in K
    BY DEF IsScan
  <1>2. ASSUME NEW q \in 1 .. n, \A r \in q + 1 .. n : r \in K
        PROVE  q \in K
    <2>0. PICK l, r \in 0 .. n : Printed(nodes, g, n, q, l, r)
      BY ScanAt
    <2>1. /\ l = nodes[q].Left /\ r = nodes[q].Right
          /\ l = 0 \/ l \in q + 1 .. n
          /\ r = 0 \/ r \in q + 1 .. n
          /\ g[q] = g[l] \o <<nodes[q].data>> \o g[r]
          /\ ToSet(g[q]) = (ToSet(g[l]) \cup {nodes[q].data}) \cup ToSet(g[r])
      BY <2>0 DEF Printed
    <2>2. l \in K /\ r \in K
      BY <1>1, <1>2, <2>1
    <2>3. ASSUME nodes[P].data \notin ToSet(g[q])
          PROVE  h[q] = g[q]
      <3>1. q # P
        BY <2>1, <2>3
      <3>2. new[q] = nodes[q]
        BY <3>1 DEF IsInserted
      <3>3. h[q] = h[l] \o <<nodes[q].data>> \o h[r]
        <4>1. q \in 0 + 1 .. n + 1
          OBVIOUS
        <4> QED
          BY <2>1, <3>2, <4>1 DEF IsScan
      <3>4. h[l] = g[l] /\ h[r] = g[r]
        BY <2>1, <2>2, <2>3
      <3> QED
        BY <2>1, <3>3, <3>4
    <2>4. q \in 0 .. n
      OBVIOUS
    <2> QED
      BY <2>3, <2>4
  <1> HIDE DEF K
  <1>3. 0 .. n \subseteq K
    BY <1>1, <1>2, FromLast
  <1> QED
    BY <1>3 DEF K, UnchangedElsewhere

LEMMA LeftGrows ==
  ASSUME NEW s \in Seq(Record), NEW d \in Record, NEW t \in Seq(Record), NEW x \in Record,
         Stable(s \o <<d>> \o t), NEW r \in Seq(Record), Stable(r),
         ToSet(r) = ToSet(s) \cup {x}, Precedes(x, d)
  PROVE  /\ Stable(r \o <<d>> \o t)
         /\ ToSet(r \o <<d>> \o t) = ToSet(s \o <<d>> \o t) \cup {x}
  <1>1. /\ Stable(t) /\ \A q \in ToSet(s) : Precedes(q, d)
        /\ \A q \in ToSet(t) : Precedes(d, q)
    BY StableAround
  <1>2. \A q \in ToSet(r) : Precedes(q, d)
    BY <1>1
  <1>3. Stable(r \o <<d>> \o t)
    BY <1>1, <1>2, StableAround
  <1>4. ToSet(r \o <<d>> \o t) = (ToSet(r) \cup {d}) \cup ToSet(t)
    BY AroundSet
  <1>5. ToSet(s \o <<d>> \o t) = (ToSet(s) \cup {d}) \cup ToSet(t)
    BY AroundSet
  <1> QED
    BY <1>3, <1>4, <1>5

LEMMA RightGrows ==
  ASSUME NEW s \in Seq(Record), NEW d \in Record, NEW t \in Seq(Record), NEW x \in Record,
         Stable(s \o <<d>> \o t), NEW r \in Seq(Record), Stable(r),
         ToSet(r) = ToSet(t) \cup {x}, Precedes(d, x)
  PROVE  /\ Stable(s \o <<d>> \o r)
         /\ ToSet(s \o <<d>> \o r) = ToSet(s \o <<d>> \o t) \cup {x}
  <1>1. /\ Stable(s) /\ \A q \in ToSet(s) : Precedes(q, d)
        /\ \A q \in ToSet(t) : Precedes(d, q)
    BY StableAround
  <1>2. \A q \in ToSet(r) : Precedes(d, q)
    BY <1>1
  <1>3. Stable(s \o <<d>> \o r)
    BY <1>1, <1>2, StableAround
  <1>4. ToSet(s \o <<d>> \o r) = (ToSet(s) \cup {d}) \cup ToSet(r)
    BY AroundSet
  <1>5. ToSet(s \o <<d>> \o t) = (ToSet(s) \cup {d}) \cup ToSet(t)
    BY AroundSet
  <1> QED
    BY <1>3, <1>4, <1>5

(* x comes after the records of the tree in the file.                      *)
IsLater(nodes, n, x) == \A q \in 1 .. n : nodes[q].data.tag < x.tag

OneMorePrinted(g, h, q, x) ==
  Stable(h[q]) /\ ToSet(h[q]) = ToSet(g[q]) \cup {x}

LEMMA RecordsOf ==
  ASSUME NEW s \in Seq(Record)
  PROVE  ToSet(s) \subseteq Record
  BY ElementOfSeq DEF ToSet

(* On the way down the tree x gets its place in what is printed.           *)
LEMMA GrowsOnTheWay ==
  ASSUME NEW n \in Nat, NEW nodes, IsTree(nodes, n), NEW x \in Record, NEW P \in 1 .. n,
         NEW new, IsInserted(nodes, new, n, x, P), IsTree(new, n + 1),
         NEW g, IsScan(nodes, g, 0, n), NEW h, IsScan(new, h, 0, n + 1),
         NEW d, IsDescent(nodes, d, 0, n, x), nodes[P][Side(nodes, P, x)] = 0,
         IsLater(nodes, n, x)
  PROVE  \A q \in 1 .. n : d[q] = P /\ Stable(g[q]) => OneMorePrinted(g, h, q, x)
  <1>0. UnchangedElsewhere(nodes, P, n, g, h)
    BY ElsewhereSame
  <1> DEFINE Grown(q) == Stable(h[q]) /\ ToSet(h[q]) = ToSet(g[q]) \cup {x}
             c(q) == nodes[q][Side(nodes, q, x)]
             K == {q \in 0 .. n : q # 0 /\ d[q] = P /\ Stable(g[q]) =>
                                  nodes[P].data \in ToSet(g[q]) /\ Grown(q)}
  <1>1. 0 \in K
    OBVIOUS
  <1>2. g[0] = <<>> /\ h[0] = <<>>
    BY DEF IsScan
  <1>3. h[n + 1] = <<x>> /\ Stable(h[n + 1]) /\ ToSet(h[n + 1]) = {x}
    <2>1. new[n + 1].Left = 0 /\ new[n + 1].Right = 0 /\ new[n + 1].data = x
      BY DEF IsInserted, NewNode, NULL
    <2>2. n + 1 \in 0 + 1 .. n + 1
      OBVIOUS
    <2>3. h[n + 1] = h[0] \o <<x>> \o h[0]
      BY <2>1, <2>2 DEF IsScan
    <2>4. h[n + 1] = <<x>>
      BY <1>2, <2>3
    <2> QED
      BY <2>4 DEF Stable, ToSet
  <1>4. ASSUME NEW q \in 1 .. n, \A r \in q + 1 .. n : r \in K
        PROVE  q \in K
    <2> SUFFICES ASSUME d[q] = P, Stable(g[q])
                 PROVE  nodes[P].data \in ToSet(g[q]) /\ Grown(q)
      <3>1. q \in 0 .. n
        OBVIOUS
      <3> HIDE DEF Grown
      <3> QED
        BY <3>1
    <2> DEFINE e == nodes[q].data
    <2>0. PICK l, r \in 0 .. n : Printed(nodes, g, n, q, l, r)
      BY ScanAt
    <2>1. /\ l = nodes[q].Left /\ r = nodes[q].Right
          /\ l = 0 \/ l \in q + 1 .. n
          /\ r = 0 \/ r \in q + 1 .. n
          /\ nodes[q].data \in Record
          /\ g[l] \in Seq(Record) /\ g[r] \in Seq(Record)
          /\ g[q] = g[l] \o <<nodes[q].data>> \o g[r]
          /\ ToSet(g[q]) = (ToSet(g[l]) \cup {nodes[q].data}) \cup ToSet(g[r])
          /\ Stable(g[q]) <=> /\ Stable(g[l]) /\ Stable(g[r])
                              /\ \A a \in ToSet(g[l]) : Precedes(a, nodes[q].data)
                              /\ \A a \in ToSet(g[r]) : Precedes(nodes[q].data, a)
      BY <2>0 DEF Printed
    <2>2. /\ Stable(g[l]) /\ Stable(g[r])
          /\ \A a \in ToSet(g[l]) : Precedes(a, e)
          /\ \A a \in ToSet(g[r]) : Precedes(e, a)
      BY <2>1
    <2>3. \A a \in ToSet(g[l]), b \in ToSet(g[r]) : a # b /\ a # e /\ b # e
      <3>1. ToSet(g[l]) \subseteq Record /\ ToSet(g[r]) \subseteq Record
        BY <2>1, RecordsOf
      <3> HIDE DEF e
      <3>2. e \in Record
        BY <2>1 DEF e
      <3> QED
        BY <2>2, <3>1, <3>2, PrecedesOrder
    <2>4. \A a \in ToSet(g[l]) : a # e /\ a \notin ToSet(g[r])
      <3>1. ToSet(g[l]) \subseteq Record
        BY <2>1, RecordsOf
      <3> HIDE DEF e
      <3>2. e \in Record
        BY <2>1 DEF e
      <3> QED
        BY <2>2, <2>3, <3>1, <3>2, PrecedesOrder
    <2>5. \A b \in ToSet(g[r]) : b # e /\ b \notin ToSet(g[l])
      <3>1. ToSet(g[r]) \subseteq Record
        BY <2>1, RecordsOf
      <3> HIDE DEF e
      <3>2. e \in Record
        BY <2>1 DEF e
      <3> QED
        BY <2>2, <2>3, <3>1, <3>2, PrecedesOrder
    <2>6. new[q].data = e
      BY DEF IsInserted
    <2>7. h[q] = h[new[q].Left] \o <<e>> \o h[new[q].Right]
      <3>1. q \in 0 + 1 .. n + 1
        OBVIOUS
      <3> HIDE DEF e
      <3> QED
        BY <2>6, <3>1 DEF IsScan
    <2>8. d[q] = IF c(q) = 0 THEN q ELSE d[c(q)]
      <3>1. q \in 0 + 1 .. n
        OBVIOUS
      <3> QED
        BY <3>1 DEF IsDescent, NULL
    <2>9. CASE Side(nodes, q, x) = "Left"
      <3>1. c(q) = l
        BY <2>1, <2>9
      <3>2. Precedes(x, e)
        BY <2>9 DEF Side, KeyBefore, Precedes
      <3>3. ASSUME nodes[P].data = e \/ nodes[P].data \in ToSet(g[l])
            PROVE  h[r] = g[r]
        <4>1. nodes[P].data \notin ToSet(g[r])
          BY <2>4, <2>5, <3>3
        <4> QED
          BY <1>0, <4>1 DEF UnchangedElsewhere
      <3>4. ASSUME NEW m \in 0 .. n + 1, new[q].Left = m, new[q].Right = r,
                   Stable(h[m]), ToSet(h[m]) = ToSet(g[l]) \cup {x}, h[r] = g[r]
            PROVE  Grown(q)
        <4>1. h[m] \in Seq(Record)
          BY ScanTyped
        <4>2. PICK s \in Seq(Record) : s = g[l]
          BY <2>1
        <4>3. PICK t \in Seq(Record) : t = g[r]
          BY <2>1
        <4>4. PICK u \in Seq(Record) : u = h[m]
          BY <4>1
        <4>5. PICK a \in Record : a = e
          BY <2>1
        <4>6. Stable(s \o <<a>> \o t) /\ g[q] = s \o <<a>> \o t
          BY <2>1, <4>2, <4>3, <4>5
        <4>9. /\ Stable(s \o <<a>> \o t) /\ Stable(u) /\ ToSet(u) = ToSet(s) \cup {x}
              /\ Precedes(x, a) /\ x \in Record
          BY <3>2, <3>4, <4>2, <4>4, <4>5, <4>6
        <4>10. Stable(u \o <<a>> \o t) /\ ToSet(u \o <<a>> \o t) = ToSet(s \o <<a>> \o t) \cup {x}
          BY <4>9, LeftGrows
        <4>7. Stable(u \o <<a>> \o t) /\ ToSet(u \o <<a>> \o t) = ToSet(g[q]) \cup {x}
          BY <4>6, <4>10
        <4>8. h[q] = u \o <<a>> \o t
          BY <2>7, <3>4, <4>3, <4>4, <4>5
        <4> QED
          BY <4>7, <4>8
      <3>5. CASE l = 0
        <4>1. q = P
          BY <2>8, <3>1, <3>5
        <4>2. new[q].Left = n + 1 /\ new[q].Right = r
          BY <2>1, <2>9, <4>1 DEF IsInserted
        <4>3. ToSet(g[l]) = {}
          BY <1>2, <3>5 DEF ToSet
        <4>4. h[r] = g[r]
          BY <3>3, <4>1
        <4>5. n + 1 \in 0 .. n + 1
          OBVIOUS
        <4>6. Grown(q)
          <5> HIDE DEF Grown
          <5> QED
            BY <1>3, <3>4, <4>2, <4>3, <4>4, <4>5
        <4> QED
          BY <2>1, <4>1, <4>6
      <3>6. CASE l # 0
        <4>1. l \in q + 1 .. n /\ l \in K
          BY <1>4, <2>1, <3>6
        <4>2. d[l] = P
          BY <2>8, <3>1, <3>6
        <4>3. nodes[P].data \in ToSet(g[l]) /\ Grown(l)
          BY <2>2, <3>6, <4>1, <4>2
        <4>4. q # P
          BY <3>1, <3>6
        <4>5. new[q].Left = l /\ new[q].Right = r
          BY <2>1, <4>4 DEF IsInserted
        <4>6. h[r] = g[r]
          BY <3>3, <4>3
        <4>7. l \in 0 .. n + 1
          BY ONLY l \in 0 .. n, n \in Nat
        <4>8. Grown(q)
          BY <3>4, <4>3, <4>5, <4>6, <4>7
        <4> QED
          BY <2>1, <4>3, <4>8
      <3> QED
        BY <3>5, <3>6
    <2>10. CASE Side(nodes, q, x) = "Right"
      <3>1. c(q) = r
        BY <2>1, <2>10
      <3>2. Precedes(e, x)
        <4>1. ~(x.key < e.key)
          BY <2>10 DEF Side, KeyBefore
        <4>2. x.key \in Nat /\ e.key \in Nat /\ e.tag < x.tag
          BY <2>1 DEF Record, IsLater
        <4> HIDE DEF e
        <4> QED
          BY <4>1, <4>2 DEF Precedes
      <3>3. ASSUME nodes[P].data = e \/ nodes[P].data \in ToSet(g[r])
            PROVE  h[l] = g[l]
        <4>1. nodes[P].data \notin ToSet(g[l])
          BY <2>4, <2>5, <3>3
        <4> QED
          BY <1>0, <4>1 DEF UnchangedElsewhere
      <3>4. ASSUME NEW m \in 0 .. n + 1, new[q].Left = l, new[q].Right = m,
                   Stable(h[m]), ToSet(h[m]) = ToSet(g[r]) \cup {x}, h[l] = g[l]
            PROVE  Grown(q)
        <4>1. h[m] \in Seq(Record)
          BY ScanTyped
        <4>2. PICK s \in Seq(Record) : s = g[l]
          BY <2>1
        <4>3. PICK t \in Seq(Record) : t = g[r]
          BY <2>1
        <4>4. PICK u \in Seq(Record) : u = h[m]
          BY <4>1
        <4>5. PICK a \in Record : a = e
          BY <2>1
        <4>6. Stable(s \o <<a>> \o t) /\ g[q] = s \o <<a>> \o t
          BY <2>1, <4>2, <4>3, <4>5
        <4>7. Stable(s \o <<a>> \o u) /\ ToSet(s \o <<a>> \o u) = ToSet(g[q]) \cup {x}
          BY <3>2, <3>4, <4>3, <4>4, <4>5, <4>6, RightGrows
        <4>8. h[q] = s \o <<a>> \o u
          BY <2>7, <3>4, <4>2, <4>4, <4>5
        <4> QED
          BY <4>7, <4>8
      <3>5. CASE r = 0
        <4>1. q = P
          BY <2>8, <3>1, <3>5
        <4>2. new[q].Right = n + 1 /\ new[q].Left = l
          BY <2>1, <2>10, <4>1 DEF IsInserted
        <4>3. ToSet(g[r]) = {}
          BY <1>2, <3>5 DEF ToSet
        <4>4. h[l] = g[l]
          BY <3>3, <4>1
        <4>5. n + 1 \in 0 .. n + 1
          OBVIOUS
        <4>6. Grown(q)
          <5> HIDE DEF Grown
          <5> QED
            BY <1>3, <3>4, <4>2, <4>3, <4>4, <4>5
        <4> QED
          BY <2>1, <4>1, <4>6
      <3>6. CASE r # 0
        <4>1. r \in q + 1 .. n /\ r \in K
          BY <1>4, <2>1, <3>6
        <4>2. d[r] = P
          BY <2>8, <3>1, <3>6
        <4>3. nodes[P].data \in ToSet(g[r]) /\ Grown(r)
          BY <2>2, <3>6, <4>1, <4>2
        <4>4. q # P
          BY <3>1, <3>6
        <4>5. new[q].Left = l /\ new[q].Right = r
          BY <2>1, <4>4 DEF IsInserted
        <4>6. h[l] = g[l]
          BY <3>3, <4>3
        <4>7. r \in 0 .. n + 1
          <5>1. r \in 0 .. n
            BY <2>1
          <5> QED
            BY ONLY <5>1, n \in Nat, SMT
        <4>8. Grown(q)
          BY <3>4, <4>3, <4>5, <4>6, <4>7
        <4> QED
          BY <2>1, <4>3, <4>8
      <3> QED
        BY <3>5, <3>6
    <2> QED
      BY <2>9, <2>10, SideIs
  <1> HIDE DEF K, Grown
  <1>5. 0 .. n \subseteq K
    BY <1>1, <1>4, FromLast
  <1>6. \A q \in 1 .. n : q \in 0 .. n /\ q # 0
    OBVIOUS
  <1> QED
    BY <1>5, <1>6 DEF K, Grown, OneMorePrinted

LEMMA ScanEmpty == Scan(<<>>) = <<>>
  <1>1. IsTree(<<>>, 0)
    <2>1. 1 .. 0 = {} /\ Len(<<>>) = 0 /\ <<>> \in Seq(Node)
      OBVIOUS
    <2> QED
      BY <2>1 DEF IsTree
  <1>2. PICK g : IsScan(<<>>, g, 0, 0) /\ Scan(<<>>) = g[pRoot(<<>>)]
    BY <1>1, ScanIs
  <1>3. pRoot(<<>>) = 0 /\ g[0] = <<>>
    BY <1>2 DEF pRoot, NULL, IsScan
  <1> QED
    BY <1>2, <1>3

(* A record that comes later in the file is printed where it belongs.      *)
LEMMA InsertSorts ==
  ASSUME NEW n \in Nat, NEW nodes, IsTree(nodes, n), Stable(Scan(nodes)),
         NEW x \in Record, IsLater(nodes, n, x), NEW new, new = InsertTree(nodes, x)
  PROVE  /\ IsTree(new, n + 1)
         /\ \A p \in 1 .. n : new[p].data = nodes[p].data
         /\ new[n + 1].data = x
         /\ Stable(Scan(new))
         /\ ToSet(Scan(new)) = ToSet(Scan(nodes)) \cup {x}
  <1>1. CASE n = 0
    <2>1. nodes = <<>>
      BY <1>1 DEF IsTree
    <2>2. new = <<NewNode(x)>>
      BY <2>1 DEF InsertTree, NewNode
    <2>3. NewNode(x) \in Node /\ NewNode(x).Left = 0 /\ NewNode(x).Right = 0 /\ NewNode(x).data = x
      BY DEF NewNode, Node, NULL
    <2>4. PICK e \in Node : e = NewNode(x)
      BY <2>3
    <2>5. new \in Seq(Node) /\ Len(new) = 1 /\ new[1] = e
      BY <2>2, <2>4
    <2>6. IsTree(new, 1)
      <3>1. \A p \in 1 .. 1 : Below(p, new) = {}
        BY <2>3, <2>4, <2>5 DEF Below, NULL
      <3> QED
        BY <2>5, <3>1 DEF IsTree
    <2>7. PICK h : IsScan(new, h, 0, 1) /\ Scan(new) = h[pRoot(new)]
      BY <2>6, ScanIs
    <2>8. pRoot(new) = 1
      <3>1. new # <<>>
        BY <2>5, EmptySeq
      <3> QED
        BY <3>1 DEF pRoot
    <2>9. h[1] = h[0] \o <<x>> \o h[0] /\ h[0] = <<>>
      <3>1. 1 \in 0 + 1 .. 1
        OBVIOUS
      <3>2. new[1].Left = 0 /\ new[1].Right = 0 /\ new[1].data = x
        BY <2>3, <2>4, <2>5
      <3> QED
        BY <2>7, <3>1, <3>2 DEF IsScan
    <2>10. Scan(new) = <<x>>
      BY <2>7, <2>8, <2>9
    <2>11. Scan(nodes) = <<>>
      BY <2>1, ScanEmpty
    <2>12. Stable(<<x>>) /\ ToSet(<<x>>) = {x} /\ ToSet(<<>>) = {}
      BY DEF Stable, ToSet
    <2>13. 1 .. n = {} /\ n + 1 = 1
      BY <1>1
    <2> QED
      BY <2>3, <2>4, <2>5, <2>6, <2>10, <2>11, <2>12, <2>13
  <1>2. CASE n # 0
    <2>1. PICK d : /\ IsDescent(nodes, d, 0, n, x)
                   /\ new = Append([nodes EXCEPT ![d[1]][Side(nodes, d[1], x)] = n + 1], NewNode(x))
      BY <1>2, InsertIs
    <2>2. PICK P \in 1 .. n : P = d[1] /\ nodes[P][Side(nodes, P, x)] = 0
      <3>1. 1 \in 1 .. n
        BY <1>2
      <3> QED
        BY <2>1, <3>1, DescentEnds
    <2>3. IsInserted(nodes, new, n, x, P) /\ IsTree(new, n + 1)
      <3>1. new = Append([nodes EXCEPT ![P][Side(nodes, P, x)] = n + 1], NewNode(x))
        BY <2>1, <2>2
      <3> QED
        BY <3>1, InsertKeepsTree
    <2>4. PICK g : IsScan(nodes, g, 0, n) /\ Scan(nodes) = g[pRoot(nodes)]
      BY ScanIs
    <2>5. PICK h : IsScan(new, h, 0, n + 1) /\ Scan(new) = h[pRoot(new)]
      <3>1. n + 1 \in Nat
        OBVIOUS
      <3> QED
        BY <2>3, <3>1, ScanIs
    <2>6. pRoot(nodes) = 1 /\ pRoot(new) = 1
      BY <1>2, <2>3 DEF pRoot, IsTree
    <2>7. \A q \in 1 .. n : d[q] = P /\ Stable(g[q]) => OneMorePrinted(g, h, q, x)
      BY <2>1, <2>2, <2>3, <2>4, <2>5, GrowsOnTheWay
    <2>8. 1 \in 1 .. n
      BY <1>2
    <2>9. /\ \A p \in 1 .. n : new[p].data = nodes[p].data
          /\ new[n + 1].data = x
      BY <2>3 DEF IsInserted, NewNode
    <2> QED
      BY <2>2, <2>3, <2>4, <2>5, <2>6, <2>7, <2>8, <2>9 DEF OneMorePrinted
  <1> QED
    BY <1>1, <1>2

-----------------------------------------------------------------------------
(* The elements of s at the places K, in their order, up to each place.    *)

Kept(s, K) ==
  LET UpTo[n \in 0 .. Len(s)] ==
        IF n = 0 THEN <<>> ELSE IF n \in K THEN Append(UpTo[n - 1], s[n]) ELSE UpTo[n - 1]
  IN UpTo

(* The next one.                                                           *)
KeptNext(s, K, n, t) == IF n \in K THEN Append(t, s[n]) ELSE t

IsKept(s, K, f, N) ==
  /\ DOMAIN f = 0 .. N /\ f[0] = <<>>
  /\ \A n \in 1 .. N : f[n] = KeptNext(s, K, n, f[n - 1])

LEMMA KeptExists ==
  ASSUME NEW s, NEW K, NEW N \in Nat
  PROVE  \E f : IsKept(s, K, f, N)
  <1> DEFINE J == {n \in Nat : \E f : IsKept(s, K, f, n)}
  <1>1. 0 \in J
    <2>1. IsKept(s, K, [n \in 0 .. 0 |-> <<>>], 0)
      BY DEF IsKept
    <2> QED
      BY <2>1
  <1>2. ASSUME NEW n \in Nat, n \in J
        PROVE  n + 1 \in J
    <2>1. PICK f : IsKept(s, K, f, n)
      BY <1>2
    <2> DEFINE u == [m \in 0 .. n + 1 |-> IF m = n + 1 THEN KeptNext(s, K, n + 1, f[n]) ELSE f[m]]
    <2>2. DOMAIN u = 0 .. n + 1 /\ u[0] = <<>> /\ u[n + 1] = KeptNext(s, K, n + 1, f[n])
          /\ u[n] = f[n] /\ \A m \in 0 .. n : u[m] = f[m]
      BY <2>1 DEF IsKept
    <2>3. \A m \in 1 .. n : f[m] = KeptNext(s, K, m, f[m - 1])
      BY <2>1 DEF IsKept
    <2>4. \A m \in 1 .. n + 1 : u[m] = KeptNext(s, K, m, u[m - 1])
      <3> HIDE DEF u
      <3> TAKE m \in 1 .. n + 1
      <3>1. CASE m = n + 1
        <4>1. m - 1 = n
          BY <3>1
        <4> QED
          BY <2>2, <3>1, <4>1
      <3>2. CASE m # n + 1
        <4>1. m \in 1 .. n /\ m - 1 \in 0 .. n /\ m \in 0 .. n
          BY <3>2
        <4> QED
          BY <2>2, <2>3, <4>1
      <3> QED
        BY <3>1, <3>2
    <2>5. IsKept(s, K, u, n + 1)
      <3> HIDE DEF u
      <3> QED
        BY <2>2, <2>4 DEF IsKept
    <2> QED
      BY <2>5
  <1> HIDE DEF J
  <1>3. Nat \subseteq J
    BY <1>1, <1>2, SetInduction
  <1> QED
    BY <1>3 DEF J

LEMMA KeptIs ==
  ASSUME NEW s, Len(s) \in Nat, NEW K
  PROVE  IsKept(s, K, Kept(s, K), Len(s))
  <1> DEFINE N == Len(s)
             Is(f) == f = [n \in 0 .. N |-> IF n = 0 THEN <<>> ELSE KeptNext(s, K, n, f[n - 1])]
  <1>1. Kept(s, K) = CHOOSE f : Is(f)
    BY DEF Kept, KeptNext
  <1>2. PICK f : IsKept(s, K, f, N)
    BY KeptExists
  <1>3. Is([n \in 0 .. N |-> f[n]])
    <2> DEFINE u == [n \in 0 .. N |-> f[n]]
    <2>1. u[0] = <<>> /\ \A n \in 1 .. N : u[n] = KeptNext(s, K, n, u[n - 1])
      <3>1. \A n \in 1 .. N : f[n] = KeptNext(s, K, n, f[n - 1])
        BY <1>2 DEF IsKept
      <3>2. \A n \in 1 .. N : n - 1 \in 0 .. N /\ n \in 0 .. N /\ 0 \in 0 .. N
        OBVIOUS
      <3>3. f[0] = <<>> /\ 0 \in 0 .. N
        BY <1>2 DEF IsKept
      <3> HIDE DEF N
      <3> QED
        BY <3>1, <3>2, <3>3
    <2>2. u = [n \in 0 .. N |-> u[n]]
      OBVIOUS
    <2>3. \A n \in 0 .. N : n = 0 \/ n \in 1 .. N
      OBVIOUS
    <2> HIDE DEF u, N
    <2>4. \A n \in 0 .. N : u[n] = IF n = 0 THEN <<>> ELSE KeptNext(s, K, n, u[n - 1])
      BY <2>1, <2>3
    <2>5. u = [n \in 0 .. N |-> IF n = 0 THEN <<>> ELSE KeptNext(s, K, n, u[n - 1])]
      BY <2>2, <2>4
    <2> QED
      BY <2>5 DEF u
  <1>4. Is(Kept(s, K))
    <2> HIDE DEF Is
    <2> QED
      BY <1>1, <1>3
  <1>5. PICK g : g = Kept(s, K)
    OBVIOUS
  <1>6. g = [n \in 0 .. N |-> IF n = 0 THEN <<>> ELSE KeptNext(s, K, n, g[n - 1])]
    BY <1>4, <1>5
  <1>7. 0 \in 0 .. N /\ \A n \in 1 .. N : n \in 0 .. N /\ n # 0
    OBVIOUS
  <1>8. DOMAIN g = 0 .. N /\ g[0] = <<>> /\ \A n \in 1 .. N : g[n] = KeptNext(s, K, n, g[n - 1])
    <2> HIDE DEF N
    <2> QED
      BY <1>6, <1>7
  <1> QED
    BY <1>5, <1>8 DEF IsKept

LEMMA KeptInSeq ==
  ASSUME NEW S, NEW s \in Seq(S), NEW K
  PROVE  \A n \in 0 .. Len(s) : Kept(s, K)[n] \in Seq(S)
  <1>1. Len(s) \in Nat /\ \A n \in 1 .. Len(s) : s[n] \in S
    BY ElementOfSeq
  <1>2. PICK f : f = Kept(s, K) /\ IsKept(s, K, f, Len(s))
    BY <1>1, KeptIs
  <1> DEFINE J == {n \in Nat : n <= Len(s) => f[n] \in Seq(S)}
  <1>3. 0 \in J
    <2>1. f[0] = <<>>
      BY <1>2 DEF IsKept
    <2>2. <<>> \in Seq(S)
      BY EmptySeq
    <2> QED
      BY <2>1, <2>2
  <1>4. ASSUME NEW n \in Nat, n \in J
        PROVE  n + 1 \in J
    <2> SUFFICES ASSUME n + 1 <= Len(s)
                 PROVE  f[n + 1] \in Seq(S)
      OBVIOUS
    <2>1. n + 1 \in 1 .. Len(s) /\ (n + 1) - 1 = n /\ n <= Len(s)
      BY <1>1
    <2>2. f[n] \in Seq(S) /\ s[n + 1] \in S
      BY <1>1, <1>4, <2>1
    <2>3. f[n + 1] = KeptNext(s, K, n + 1, f[n])
      BY <1>2, <2>1 DEF IsKept
    <2> QED
      BY <2>2, <2>3, AppendProperties DEF KeptNext
  <1> HIDE DEF J
  <1>5. Nat \subseteq J
    BY <1>3, <1>4, SetInduction
  <1> QED
    BY <1>1, <1>2, <1>5 DEF J
=============================================================================
