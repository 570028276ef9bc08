------------------------ MODULE PdMessageQueueProofs ------------------------
(***************************************************************************)
(* Proofs about PdMessageQueue, for any number of threads, any capacity    *)
(* and any messages: the type invariant, that no piece of an accepted      *)
(* message is refused, that the buffer holds a stretch of the stream, and  *)
(* that every message arrives whole unless a poll splits one.              *)
(*                                                                         *)
(* The words that were read and not given back, those in the buffer and    *)
(* those the hook in progress still owes are one tape, the end of the      *)
(* stream.  A hook lengthens both, a write and a read move words along the *)
(* tape, and a poll's end cuts off its beginning.                          *)
(***************************************************************************)
EXTENDS PdMessageQueue, SequenceLemmas

Words == Nat \X Nat

(* Message m whole, and the stream of messages with payloads as long as acc
   says; message m begins in it at Start(acc, m). *)
Whole(m, n) == [k \in 1..(n+1) |-> Word(m, k - 1)]
Laid(acc) == FlattenSeq([m \in 1..Len(acc) |-> Whole(m, acc[m])])
Start(acc, m) == 1 + SumOf([i \in 1..(m-1) |-> acc[i] + 1])

-----------------------------------------------------------------------------
(* Where messages begin. *)

(* The first at the first word, each after the words of the one before. *)
LEMMA StartStep ==
  ASSUME NEW acc \in Seq(Nat)
  PROVE  /\ Start(acc, 1) = 1
         /\ \A m \in 1..(Len(acc) + 1) : Start(acc, m) \in Nat \ {0}
         /\ \A m \in 1..Len(acc) : Start(acc, m + 1) = Start(acc, m) + acc[m] + 1
<1> DEFINE sizes(n) == [i \in 1..n |-> acc[i] + 1]
<1>1. Start(acc, 1) = 1
  <2>1. [i \in 1..(1-1) |-> acc[i] + 1] = <<>>
    OBVIOUS
  <2> QED BY <2>1, SumEmpty DEF Start
<1>2. ASSUME NEW m \in 1..(Len(acc) + 1) PROVE Start(acc, m) \in Nat \ {0}
  <2>1. sizes(m - 1) \in Seq(Nat)
    OBVIOUS
  <2>2. SumOf(sizes(m - 1)) \in Nat
    BY <2>1, SumType
  <2> QED BY <2>2 DEF Start
<1>3. ASSUME NEW m \in 1..Len(acc) PROVE Start(acc, m + 1) = Start(acc, m) + acc[m] + 1
  <2> DEFINE s == sizes(m - 1)
             t == sizes(m + 1 - 1)
             n == m - 1
  <2>1. /\ s \in Seq(Nat) /\ t \in Seq(Nat) /\ n \in Nat /\ Len(s) = n /\ Len(t) = n + 1
        /\ \A i \in 1..n : s[i] = t[i]
        /\ t[n+1] = acc[m] + 1 /\ acc[m] \in Nat
    OBVIOUS
  <2>2. SumOf(t) = SumOf(s) + t[n+1]
    <3> HIDE DEF s, t, n
    <3> QED BY <2>1, SumStep
  <2>3. SumOf(s) \in Nat
    <3> HIDE DEF s, t, n
    <3> QED BY <2>1, SumType
  <2>4. Start(acc, m) = 1 + SumOf(s) /\ Start(acc, m + 1) = 1 + SumOf(t)
    BY DEF Start
  <2>5. t[n+1] = acc[m] + 1 /\ acc[m] \in Nat
    BY <2>1
  <2> HIDE DEF s, t, n
  <2> QED BY <2>2, <2>3, <2>4, <2>5
<1> QED
  BY <1>1, <1>2, <1>3

(* A later message begins after all words of an earlier one. *)
LEMMA StartMonotone ==
  ASSUME NEW acc \in Seq(Nat), NEW i \in 1..Len(acc)
  PROVE  \A j \in (i+1)..(Len(acc) + 1) : Start(acc, i) + acc[i] + 1 <= Start(acc, j)
<1> DEFINE Holds(j) == Start(acc, i) + acc[i] + 1 <= Start(acc, j)
           N == {d \in Nat : i + 1 + d <= Len(acc) + 1 => Holds(i + 1 + d)}
<1>0. Len(acc) \in Nat /\ acc[i] \in Nat /\ Start(acc, i) \in Nat
  BY StartStep
<1>1. 0 \in N
  BY <1>0, StartStep
<1>2. ASSUME NEW d \in Nat, d \in N PROVE d + 1 \in N
  <2> SUFFICES ASSUME i + 1 + (d + 1) <= Len(acc) + 1 PROVE Holds(i + 1 + (d + 1))
    OBVIOUS
  <2> DEFINE j == i + 1 + d
  <2>1. j \in 1..Len(acc) /\ j \in 1..(Len(acc) + 1) /\ j + 1 = i + 1 + (d + 1) /\ acc[j] \in Nat
    BY <1>0
  <2>2. Holds(j)
    <3>1. i + 1 + d <= Len(acc) + 1
      BY <1>0
    <3> QED BY <1>2, <3>1
  <2> HIDE DEF j
  <2>3. Start(acc, j + 1) = Start(acc, j) + acc[j] + 1 /\ Start(acc, j) \in Nat
    BY <2>1, StartStep
  <2>4. Holds(j + 1)
    <3>1. Start(acc, i) + acc[i] + 1 <= Start(acc, j)
      BY <2>2
    <3>2. Start(acc, j) <= Start(acc, j + 1) /\ Start(acc, j + 1) \in Nat
      BY <2>1, <2>3
    <3> QED BY <1>0, <2>3, <3>1, <3>2
  <2> QED BY <2>1, <2>4
<1> QED
  <2> HIDE DEF N, Holds
  <2>1. \A d \in Nat : d \in N BY <1>1, <1>2, NatSetInduction
  <2>2. ASSUME NEW j \in (i+1)..(Len(acc) + 1) PROVE Holds(j)
    <3>1. j - (i + 1) \in Nat /\ i + 1 + (j - (i + 1)) = j /\ j <= Len(acc) + 1
      BY <1>0
    <3> QED BY <2>1, <3>1 DEF N
  <2> QED BY <2>2 DEF Holds

(* One more message leaves the earlier ones where they are. *)
LEMMA StartAppend ==
  ASSUME NEW acc \in Seq(Nat), NEW n \in Nat, NEW m \in 1..(Len(acc) + 1)
  PROVE  Start(Append(acc, n), m) = Start(acc, m)
<1>1. [i \in 1..(m-1) |-> Append(acc, n)[i] + 1] = [i \in 1..(m-1) |-> acc[i] + 1]
  OBVIOUS
<1> QED
  BY <1>1 DEF Start

-----------------------------------------------------------------------------
(* What the stream is made of. *)

(* A whole message is a sequence of its words. *)
LEMMA WholeWords ==
  ASSUME NEW m \in Nat, NEW n \in Nat
  PROVE  /\ Whole(m, n) \in Seq(Words) /\ Len(Whole(m, n)) = n + 1
         /\ \A k \in 1..(n+1) : Whole(m, n)[k] = Word(m, k - 1)
  BY DEF Whole, Word, Words

(* ... and so are the messages of a stream. *)
LEMMA WholesTyped ==
  ASSUME NEW acc \in Seq(Nat)
  PROVE  \A m \in 1..Len(acc) : Whole(m, acc[m]) \in Seq(Words)
<1> SUFFICES ASSUME NEW m \in 1..Len(acc) PROVE Whole(m, acc[m]) \in Seq(Words)
  OBVIOUS
<1>1. m \in Nat /\ acc[m] \in Nat
  OBVIOUS
<1> QED
  BY <1>1, WholeWords

(* One more message at the end. *)
LEMMA LaidAppend ==
  ASSUME NEW acc \in Seq(Nat), NEW n \in Nat
  PROVE  Laid(Append(acc, n)) = Laid(acc) \o Whole(Len(acc) + 1, n)
<1> DEFINE acc2 == Append(acc, n)
           s == [m \in 1..Len(acc) |-> Whole(m, acc[m])]
           t == [m \in 1..Len(acc2) |-> Whole(m, acc2[m])]
           x == Whole(Len(acc) + 1, n)
<1>1. s \in Seq(Seq(Words)) /\ x \in Seq(Words)
  <2>1. \A m \in 1..Len(acc) : Whole(m, acc[m]) \in Seq(Words)
    BY WholesTyped
  <2>2. x \in Seq(Words)
    <3>1. Len(acc) + 1 \in Nat
      OBVIOUS
    <3> QED BY <3>1, WholeWords
  <2> QED BY <2>1, <2>2
<1>2. t = Append(s, x)
  <2>1. /\ Len(acc) \in Nat /\ Len(acc2) = Len(acc) + 1 /\ acc2[Len(acc) + 1] = n
        /\ \A m \in 1..Len(acc) : acc2[m] = acc[m]
    OBVIOUS
  <2>2. t \in Seq(Seq(Words)) /\ Len(t) = Len(acc) + 1
    <3>1. acc2 \in Seq(Nat)
      OBVIOUS
    <3> HIDE DEF acc2
    <3>2. \A m \in 1..Len(acc2) : Whole(m, acc2[m]) \in Seq(Words)
      BY <3>1, WholesTyped
    <3> QED BY <2>1, <3>1, <3>2
  <2>3. Append(s, x) \in Seq(Seq(Words)) /\ Len(Append(s, x)) = Len(acc) + 1 /\ Len(s) = Len(acc)
    <3>1. Len(s) = Len(acc)
      OBVIOUS
    <3> HIDE DEF s, x
    <3> QED BY <1>1, <3>1
  <2>4. ASSUME NEW m \in 1..(Len(acc) + 1) PROVE t[m] = Append(s, x)[m]
    <3>1. t[m] = Whole(m, acc2[m])
      BY <2>1
    <3>2. CASE m = Len(acc) + 1
      <4>1. Append(s, x)[m] = x
        BY <2>3, <3>2
      <4> QED BY <2>1, <3>1, <3>2, <4>1
    <3>3. CASE m # Len(acc) + 1
      <4>1. m \in 1..Len(acc)
        BY <3>3
      <4>2. Append(s, x)[m] = s[m]
        <5> HIDE DEF s, x
        <5> QED BY <1>1, <2>3, <4>1
      <4> QED BY <2>1, <3>1, <4>1, <4>2
    <3> QED BY <3>2, <3>3
  <2> QED
    <3> HIDE DEF t, s, x
    <3> QED BY <2>2, <2>3, <2>4, SeqEqual
<1>3. FlattenSeq(Append(s, x)) = FlattenSeq(s) \o x
  <2> HIDE DEF s, x
  <2> QED BY <1>1, FlattenAppend
<1> QED
  BY <1>2, <1>3 DEF Laid

(* The stream is words, each word of it a word of a message, and word k of
   message m lies k after the message's beginning. *)
LaidOut(acc) ==
  /\ Laid(acc) \in Seq(Words)
  /\ Len(Laid(acc)) + 1 = Start(acc, Len(acc) + 1)
  /\ \A m \in 1..Len(acc) : \A k \in 0..acc[m] :
       Start(acc, m) + k \in 1..Len(Laid(acc)) /\ Laid(acc)[Start(acc, m) + k] = <<m, k>>
  /\ \A p \in 1..Len(Laid(acc)) : \E m \in 1..Len(acc) : \E k \in 0..acc[m] : p = Start(acc, m) + k

(* One message more is laid out behind the others. *)
LEMMA LaidAppendOut ==
  ASSUME NEW acc \in Seq(Nat), NEW n \in Nat, LaidOut(acc)
  PROVE  LaidOut(Append(acc, n))
<1> DEFINE acc2 == Append(acc, n)
           M == Len(acc) + 1
           x == Whole(M, n)
           L == Len(Laid(acc))
<1>1. acc2 \in Seq(Nat) /\ Len(acc2) = M /\ acc2[M] = n /\ M \in Nat /\ \A m \in 1..Len(acc) : acc2[m] = acc[m]
  OBVIOUS
<1>2. x \in Seq(Words) /\ Len(x) = n + 1 /\ \A k \in 1..(n+1) : x[k] = <<M, k - 1>>
  BY <1>1, WholeWords DEF Word
<1>3. Laid(acc) \in Seq(Words) /\ L \in Nat /\ Start(acc, M) = L + 1
  BY DEF LaidOut
<1>4. Laid(acc2) = Laid(acc) \o x
  BY LaidAppend
<1>5. \A m \in 1..M : Start(acc2, m) = Start(acc, m)
  BY StartAppend
<1>6. Start(acc2, M + 1) = L + 1 + n + 1
  <2> HIDE DEF acc2
  <2>1. M \in 1..Len(acc2) /\ M \in 1..M
    BY <1>1
  <2>2. Start(acc2, M + 1) = Start(acc2, M) + acc2[M] + 1
    BY <1>1, <2>1, StartStep
  <2> QED BY <1>1, <1>3, <1>5, <2>1, <2>2
<1> HIDE DEF acc2, x, L
<1>7. /\ Laid(acc2) \in Seq(Words) /\ Len(Laid(acc2)) = L + n + 1
      /\ \A p \in 1..L : Laid(acc2)[p] = Laid(acc)[p]
      /\ \A k \in 1..(n+1) : Laid(acc2)[L+k] = x[k]
  <2>1. Len(Laid(acc)) = L
    BY DEF L
  <2>5. x \in Seq(Words) /\ Laid(acc) \in Seq(Words)
    BY <1>2, <1>3
  <2>2. Laid(acc2) \in Seq(Words) /\ Len(Laid(acc2)) = Len(Laid(acc)) + Len(x)
    BY <1>4, <2>5, ConcatProperties
  <2>3. \A p \in 1..L : Laid(acc2)[p] = Laid(acc)[p]
    BY <1>2, <1>3, <1>4, <2>1
  <2>4. \A k \in 1..(n+1) : Laid(acc2)[L+k] = x[k]
    BY <1>2, <1>3, <1>4, <2>1
  <2> QED BY <1>2, <1>3, <2>1, <2>2, <2>3, <2>4
<1>8. Len(Laid(acc2)) + 1 = Start(acc2, Len(acc2) + 1)
  BY <1>1, <1>3, <1>6, <1>7
<1>9. ASSUME NEW m \in 1..Len(acc2), NEW k \in 0..acc2[m]
      PROVE  Start(acc2, m) + k \in 1..Len(Laid(acc2)) /\ Laid(acc2)[Start(acc2, m) + k] = <<m, k>>
  <2>1. CASE m = M
    <3>4. k \in 0..n
      BY <1>1, <2>1
    <3>5. Start(acc2, m) = L + 1
      BY <1>1, <1>3, <1>5, <2>1
    <3>1. Start(acc2, m) + k = L + (k + 1) /\ k + 1 \in 1..(n+1) /\ k + 1 - 1 = k
      BY <1>3, <3>4, <3>5
    <3>2. Laid(acc2)[L + (k + 1)] = <<M, k + 1 - 1>>
      BY <1>2, <1>7, <3>1
    <3>3. L + (k + 1) \in 1..Len(Laid(acc2))
      BY <1>3, <1>7, <3>1
    <3> QED BY <2>1, <3>1, <3>2, <3>3
  <2>2. CASE m # M
    <3>1. m \in 1..Len(acc) /\ k \in 0..acc[m] /\ m \in 1..M
      BY <1>1, <2>2
    <3>2. Start(acc, m) + k \in 1..L /\ Laid(acc)[Start(acc, m) + k] = <<m, k>>
      BY <3>1 DEF LaidOut, L
    <3> QED BY <1>3, <1>5, <1>7, <3>1, <3>2
  <2> QED BY <2>1, <2>2
<1>10. ASSUME NEW p \in 1..Len(Laid(acc2))
       PROVE  \E m \in 1..Len(acc2) : \E k \in 0..acc2[m] : p = Start(acc2, m) + k
  <2>1. CASE p <= L
    <3>3. PICK m \in 1..Len(acc) : \E k \in 0..acc[m] : p = Start(acc, m) + k
      BY <1>3, <2>1 DEF LaidOut, L
    <3>1. PICK k \in 0..acc[m] : p = Start(acc, m) + k
      BY <3>3
    <3>2. m \in 1..Len(acc2) /\ k \in 0..acc2[m] /\ m \in 1..M
      BY <1>1
    <3> QED BY <1>5, <3>1, <3>2
  <2>2. CASE ~(p <= L)
    <3>1. p - (L + 1) \in 0..n /\ p = Start(acc2, M) + (p - (L + 1)) /\ M \in 1..Len(acc2)
      BY <1>1, <1>3, <1>5, <1>7, <2>2
    <3> QED BY <1>1, <3>1
  <2> QED BY <2>1, <2>2
<1> QED
  BY <1>7, <1>8, <1>9, <1>10 DEF LaidOut, acc2

(* By induction over the messages, every stream is laid out. *)
LEMMA StreamLaidOut ==
  ASSUME NEW acc \in Seq(Nat)
  PROVE  LaidOut(acc)
<1> DEFINE N == {n \in Nat : \A a \in Seq(Nat) : Len(a) = n => LaidOut(a)}
<1>1. 0 \in N
  <2> SUFFICES ASSUME NEW a \in Seq(Nat), Len(a) = 0 PROVE LaidOut(a)
    OBVIOUS
  <2>1. [m \in 1..Len(a) |-> Whole(m, a[m])] = <<>>
    OBVIOUS
  <2>2. Laid(a) = <<>>
    BY <2>1, FlattenEmpty DEF Laid
  <2>3. Start(a, 1) = 1
    BY StartStep
  <2> QED BY <2>2, <2>3 DEF LaidOut
<1>2. ASSUME NEW n \in Nat, n \in N PROVE n + 1 \in N
  <2> SUFFICES ASSUME NEW a \in Seq(Nat), Len(a) = n + 1 PROVE LaidOut(a)
    OBVIOUS
  <2>1. PICK b \in Seq(Nat), y \in Nat : Len(b) = n /\ a = Append(b, y)
    <3>1. /\ SubSeq(a, 1, n) \in Seq(Nat) /\ Len(SubSeq(a, 1, n)) = n /\ a[n+1] \in Nat
          /\ a = Append(SubSeq(a, 1, n), a[n+1])
      BY SeqSplitLast
    <3> QED BY <3>1
  <2>2. LaidOut(b)
    BY <1>2, <2>1
  <2> QED BY <2>1, <2>2, LaidAppendOut
<1> QED
  <2> HIDE DEF N
  <2>1. \A n \in Nat : n \in N BY <1>1, <1>2, NatSetInduction
  <2>2. Len(acc) \in N BY <2>1
  <2> QED BY <2>2 DEF N

-----------------------------------------------------------------------------
(* What a hook writes. *)

(* n words of message m's payload after the first b, and the pieces of it. *)
Piece(m, b, n) == [k \in 1..n |-> Word(m, b + k)]
Payload(m, kind) == [i \in 1..Len(kind) |-> Piece(m, SumOf(SubSeq(kind, 1, i - 1)), kind[i])]

(* A piece is a sequence of words. *)
LEMMA PieceWords ==
  ASSUME NEW m \in Nat, NEW b \in Nat, NEW n \in Nat
  PROVE  /\ Piece(m, b, n) \in Seq(Words) /\ Len(Piece(m, b, n)) = n
         /\ \A k \in 1..n : Piece(m, b, n)[k] = Word(m, b + k)
  BY DEF Piece, Word, Words

(* ... the first one, word k its k-th. *)
LEMMA FirstPiece ==
  ASSUME NEW m \in Nat, NEW n \in Nat
  PROVE  /\ Piece(m, 0, n) \in Seq(Words) /\ Len(Piece(m, 0, n)) = n
         /\ \A k \in 1..n : Piece(m, 0, n)[k] = Word(m, k)
<1>1. \A k \in 1..n : 0 + k = k
  OBVIOUS
<1>2. ASSUME NEW k \in 1..n PROVE Piece(m, 0, n)[k] = Word(m, k)
  <2>1. Piece(m, 0, n)[k] = Word(m, 0 + k)
    BY PieceWords
  <2> QED BY <1>1, <2>1
<1> QED
  BY <1>2, PieceWords

(* A payload is a sequence of pieces. *)
LEMMA PayloadTyped ==
  ASSUME NEW m \in Nat, NEW kind \in Seq(Nat)
  PROVE  Payload(m, kind) \in Seq(Seq(Words)) /\ Len(Payload(m, kind)) = Len(kind)
<1>1. ASSUME NEW i \in 1..Len(kind)
      PROVE  Piece(m, SumOf(SubSeq(kind, 1, i - 1)), kind[i]) \in Seq(Words)
  <2>1. SubSeq(kind, 1, i - 1) \in Seq(Nat) /\ kind[i] \in Nat
    OBVIOUS
  <2>2. SumOf(SubSeq(kind, 1, i - 1)) \in Nat
    BY <2>1, SumType
  <2> QED BY <2>1, <2>2, PieceWords
<1> QED
  BY <1>1 DEF Payload

(* One more piece. *)
LEMMA PayloadAppend ==
  ASSUME NEW m \in Nat, NEW kind \in Seq(Nat), NEW y \in Nat
  PROVE  Payload(m, Append(kind, y)) = Append(Payload(m, kind), Piece(m, SumOf(kind), y))
<1> DEFINE kind2 == Append(kind, y)
           N == Len(kind)
           P == Payload(m, kind)
           x == Piece(m, SumOf(kind), y)
<1>1. kind2 \in Seq(Nat) /\ Len(kind2) = N + 1 /\ N \in Nat /\ kind2[N+1] = y
  OBVIOUS
<1>2. \A i \in 1..N : kind2[i] = kind[i] /\ SubSeq(kind2, 1, i - 1) = SubSeq(kind, 1, i - 1)
  OBVIOUS
<1>3. SubSeq(kind2, 1, N) = kind
  OBVIOUS
<1>4. P \in Seq(Seq(Words)) /\ Len(P) = N
  BY PayloadTyped
<1>5. x \in Seq(Words)
  BY SumType, PieceWords
<1> HIDE DEF kind2, P, x
<1>6. Payload(m, kind2) \in Seq(Seq(Words)) /\ Len(Payload(m, kind2)) = N + 1
  BY <1>1, PayloadTyped
<1>7. Append(P, x) \in Seq(Seq(Words)) /\ Len(Append(P, x)) = N + 1 /\ Append(P, x)[N+1] = x
      /\ \A i \in 1..N : Append(P, x)[i] = P[i]
  BY <1>4, <1>5
<1>8. ASSUME NEW i \in 1..(N+1) PROVE Payload(m, kind2)[i] = Append(P, x)[i]
  <2>1. Payload(m, kind2)[i] = Piece(m, SumOf(SubSeq(kind2, 1, i - 1)), kind2[i])
    BY <1>1 DEF Payload
  <2>2. CASE i = N + 1
    <3>1. i - 1 = N
      BY <1>1, <2>2
    <3> QED BY <1>1, <1>3, <1>7, <2>1, <2>2, <3>1 DEF x
  <2>3. CASE i # N + 1
    <3>1. i \in 1..N
      BY <1>1, <2>3
    <3>2. P[i] = Piece(m, SumOf(SubSeq(kind, 1, i - 1)), kind[i])
      BY <3>1 DEF P, Payload
    <3> QED BY <1>2, <1>7, <2>1, <3>1, <3>2
  <2> QED BY <2>2, <2>3
<1>9. Payload(m, kind2) = Append(P, x)
  BY <1>6, <1>7, <1>8, SeqEqual
<1> QED
  BY <1>9 DEF kind2, P, x

(* The pieces of a payload, end to end, are its words in order. *)
LEMMA PayloadFlat ==
  ASSUME NEW m \in Nat, NEW kind \in Seq(Nat)
  PROVE  FlattenSeq(Payload(m, kind)) = Piece(m, 0, SumOf(kind))
<1> DEFINE Holds(v) == FlattenSeq(Payload(m, v)) = Piece(m, 0, SumOf(v))
           N == {n \in Nat : \A v \in Seq(Nat) : Len(v) = n => Holds(v)}
<1>1. 0 \in N
  <2> SUFFICES ASSUME NEW v \in Seq(Nat), Len(v) = 0 PROVE Holds(v)
    OBVIOUS
  <2>1. v = <<>>
    OBVIOUS
  <2>2. Payload(m, v) = <<>>
    BY DEF Payload
  <2>3. Piece(m, 0, 0) = <<>>
    BY DEF Piece
  <2> QED BY <2>1, <2>2, <2>3, FlattenEmpty, SumEmpty
<1>2. ASSUME NEW n \in Nat, n \in N PROVE n + 1 \in N
  <2> SUFFICES ASSUME NEW v \in Seq(Nat), Len(v) = n + 1 PROVE Holds(v)
    OBVIOUS
  <2>1. PICK u \in Seq(Nat), y \in Nat : Len(u) = n /\ v = Append(u, y)
    <3>1. /\ SubSeq(v, 1, n) \in Seq(Nat) /\ Len(SubSeq(v, 1, n)) = n /\ v[n+1] \in Nat
          /\ v = Append(SubSeq(v, 1, n), v[n+1])
      BY SeqSplitLast
    <3> QED BY <3>1
  <2>2. Holds(u)
    BY <1>2, <2>1
  <2> DEFINE b == SumOf(u)
             x == Piece(m, b, y)
  <2>3. b \in Nat /\ SumOf(v) = b + y
    BY <2>1, SumType, SumAppend
  <2>4. x \in Seq(Words) /\ Len(x) = y /\ \A k \in 1..y : x[k] = Word(m, b + k)
    BY <2>3, PieceWords
  <2>5. Payload(m, v) = Append(Payload(m, u), x)
    BY <2>1, PayloadAppend
  <2> HIDE DEF b, x
  <2>6. FlattenSeq(Payload(m, v)) = FlattenSeq(Payload(m, u)) \o x
    <3>1. Payload(m, u) \in Seq(Seq(Words))
      BY <2>1, PayloadTyped
    <3> QED BY <2>4, <2>5, <3>1, FlattenAppend
  <2>7. FlattenSeq(Payload(m, u)) = Piece(m, 0, b)
    BY <2>2 DEF b
  <2>8. /\ Piece(m, 0, b) \in Seq(Words) /\ Len(Piece(m, 0, b)) = b
        /\ \A k \in 1..b : Piece(m, 0, b)[k] = Word(m, k)
    BY <2>3, FirstPiece
  <2>9. /\ Piece(m, 0, b + y) \in Seq(Words) /\ Len(Piece(m, 0, b + y)) = b + y
        /\ \A k \in 1..(b + y) : Piece(m, 0, b + y)[k] = Word(m, k)
    <3>1. b + y \in Nat
      BY <2>3
    <3> QED BY <3>1, FirstPiece
  <2>10. Piece(m, 0, b) \o x = Piece(m, 0, b + y)
    <3> DEFINE f == Piece(m, 0, b)
               g == Piece(m, 0, b + y)
    <3>1. f \in Seq(Words) /\ Len(f) = b /\ g \in Seq(Words) /\ Len(g) = b + y
      BY <2>8, <2>9
    <3>2. \A k \in 1..b : f[k] = g[k]
      BY <2>3, <2>8, <2>9
    <3>3. ASSUME NEW k \in 1..y PROVE x[k] = g[b+k]
      <4>1. b + k \in 1..(b + y)
        BY <2>3
      <4>2. g[b+k] = Word(m, b + k)
        BY <2>9, <4>1
      <4> QED BY <2>4, <4>2
    <3> HIDE DEF f, g
    <3>4. f \o x \in Seq(Words) /\ Len(f \o x) = b + y
      <4>1. x \in Seq(Words) /\ Len(x) = y
        BY <2>4
      <4> QED BY <3>1, <4>1, ConcatProperties
    <3>5. \A k \in 1..(b+y) : (f \o x)[k] = g[k]
      <4> SUFFICES ASSUME NEW k \in 1..(b+y) PROVE (f \o x)[k] = g[k]
        OBVIOUS
      <4>1. (f \o x)[k] = IF k <= b THEN f[k] ELSE x[k - b]
        <5>1. x \in Seq(Words) /\ Len(x) = y
          BY <2>4
        <5> QED BY <2>3, <3>1, <5>1, ConcatProperties
      <4>2. CASE k <= b
        BY <2>3, <3>2, <4>1, <4>2
      <4>3. CASE ~(k <= b)
        <5>1. k - b \in 1..y /\ b + (k - b) = k
          BY <2>3, <4>3
        <5>2. x[k - b] = g[b + (k - b)]
          BY <3>3, <5>1
        <5> QED BY <4>1, <4>3, <5>1, <5>2
      <4> QED BY <4>2, <4>3
    <3>6. f \o x = g
      BY <3>1, <3>4, <3>5, SeqEqual
    <3> QED BY <3>6 DEF f, g
  <2> QED BY <2>3, <2>6, <2>7, <2>10
<1> QED
  <2> HIDE DEF N, Holds
  <2>1. \A n \in Nat : n \in N BY <1>1, <1>2, NatSetInduction
  <2>2. Len(kind) \in N BY <2>1
  <2>3. Holds(kind) BY <2>2 DEF N
  <2> QED BY <2>3 DEF Holds

(* The writes of a hook, end to end, are the whole message. *)
LEMMA WritesAreWhole ==
  ASSUME NEW m \in Nat, NEW kind \in Seq(Nat)
  PROVE  /\ Total(kind) \in Nat
         /\ Writes(m, kind) \in Seq(Seq(Words))
         /\ FlattenSeq(Writes(m, kind)) = Whole(m, Total(kind))
<1> DEFINE n == Total(kind)
           h == <<Word(m, 0)>>
<1>1. \A v : Total(v) = SumOf(v)
  BY DEF Total, SumOf
<1>2. n \in Nat
  BY <1>1, SumType
<1>3. h \in Seq(Words) /\ <<h>> \in Seq(Seq(Words))
  BY DEF Word, Words
<1>4. Writes(m, kind) = <<h>> \o Payload(m, kind)
  <2>1. [i \in 1..Len(kind) |-> LET before == Total(SubSeq(kind, 1, i - 1))
                                IN  [k \in 1..kind[i] |-> Word(m, before + k)]]
          = Payload(m, kind)
    BY <1>1 DEF Payload, Piece
  <2> QED BY <2>1 DEF Writes
<1>5. Payload(m, kind) \in Seq(Seq(Words))
  BY PayloadTyped
<1>6. Writes(m, kind) \in Seq(Seq(Words))
  BY <1>3, <1>4, <1>5
<1>7. FlattenSeq(Writes(m, kind)) = h \o Piece(m, 0, n)
  <2>1. FlattenSeq(<<h>> \o Payload(m, kind)) = FlattenSeq(<<h>>) \o FlattenSeq(Payload(m, kind))
    BY <1>3, <1>5, FlattenConcat
  <2>2. FlattenSeq(<<h>>) = h
    BY <1>3, FlattenSingle
  <2>3. FlattenSeq(Payload(m, kind)) = Piece(m, 0, n)
    BY <1>1, PayloadFlat
  <2> QED BY <1>4, <2>1, <2>2, <2>3
<1>8. h \o Piece(m, 0, n) = Whole(m, n)
  <2> DEFINE f == Piece(m, 0, n)
             g == Whole(m, n)
  <2>1. f \in Seq(Words) /\ Len(f) = n /\ \A k \in 1..n : f[k] = Word(m, 0 + k)
    BY <1>2, PieceWords
  <2>2. g \in Seq(Words) /\ Len(g) = n + 1 /\ \A k \in 1..(n+1) : g[k] = Word(m, k - 1)
    BY <1>2, WholeWords
  <2> HIDE DEF n, f, g
  <2>3. h \o f \in Seq(Words) /\ Len(h \o f) = n + 1 /\ (h \o f)[1] = Word(m, 0)
        /\ \A k \in 2..(n+1) : (h \o f)[k] = f[k-1]
    BY <1>2, <1>3, <2>1
  <2>4. ASSUME NEW k \in 1..(n+1) PROVE (h \o f)[k] = g[k]
    <3>1. CASE k = 1
      BY <2>2, <2>3, <3>1
    <3>2. CASE k # 1
      <4>1. k - 1 \in 1..n /\ k \in 2..(n+1) /\ 0 + (k - 1) = k - 1
        BY <1>2, <3>2
      <4> QED BY <2>1, <2>2, <2>3, <4>1
    <3> QED BY <3>1, <3>2
  <2>5. h \o f = g
    BY <2>2, <2>3, <2>4, SeqEqual
  <2> QED BY <2>5 DEF f, g
<1> QED
  BY <1>2, <1>6, <1>7, <1>8

-----------------------------------------------------------------------------
(* The invariant. *)

OwedWords == IF mutex = NoThread THEN <<>> ELSE FlattenSeq(todo[mutex])

Tape == temp \o (ring \o OwedWords)

(* Only the owner of the mutex has anything left to write. *)
OwnerHasTodo == \A t \in Threads : todo[t] # <<>> => mutex = t

(* What each part of a poll relies on. *)
PollInv ==
  /\ poll = "idle" => available = 0
  /\ poll = "read" => available \in 1..Len(ring)
  /\ poll # "parse" => temp = <<>> /\ pos = 1
  /\ poll = "parse" => available = Len(temp)

(* With the tape after the first b words of the stream: the messages delivered
   are those before pos, and temp ends where a message does. *)
DeliveredWhole(b) ==
  /\ aligned /\ DeliveredIntact /\ Len(delivered) <= Len(accepted)
  /\ b + pos = Start(accepted, Len(delivered) + 1)
  /\ \E e \in (Len(delivered) + 1)..(Len(accepted) + 1) : b + Len(temp) + 1 = Start(accepted, e)

TapeInv ==
  \E u \in Seq(Words) : Stream = u \o Tape /\ (~split => DeliveredWhole(Len(u)))

QueueInv == TypeOK /\ OwnerHasTodo /\ PollInv /\ ReservedSpace /\ TapeInv

(* The stream is what the accepted messages lay out, before and after a step. *)
LEMMA StreamIsLaid == Stream = Laid(accepted) /\ Stream' = Laid(accepted')
  BY DEF Stream, Laid, Whole

(* What lies on the tape are words. *)
LEMMA TapeTyped ==
  ASSUME TypeOK
  PROVE  /\ accepted \in Seq(Nat) /\ temp \in Seq(Words) /\ ring \in Seq(Words)
         /\ OwedWords \in Seq(Words) /\ Tape \in Seq(Words) /\ Stream \in Seq(Words)
         /\ Owed = Len(OwedWords) /\ Owed \in Nat
         /\ Len(ring) \in 0..Capacity /\ Capacity \in Nat /\ Room = Capacity - Len(ring)
         /\ Len(temp) \in Nat /\ Len(accepted) \in Nat /\ Len(delivered) \in Nat
<1>1. accepted \in Seq(Nat) /\ temp \in Seq(Words) /\ ring \in Seq(Words)
  BY DEF TypeOK, Words
<1>2. OwedWords \in Seq(Words)
  <2>1. CASE mutex = NoThread
    <3>1. <<>> \in Seq(Words)
      OBVIOUS
    <3> QED BY <2>1, <3>1 DEF OwedWords
  <2>2. CASE mutex # NoThread
    <3>1. todo[mutex] \in Seq(Seq(Words))
      BY <2>2 DEF TypeOK, Words
    <3> QED BY <2>2, <3>1, FlattenType DEF OwedWords
  <2> QED BY <2>1, <2>2
<1>3. Owed = Len(OwedWords)
  <2>1. Len(<<>>) = 0
    OBVIOUS
  <2> QED BY <2>1 DEF Owed, OwedWords
<1>4. Len(OwedWords) \in Nat
  BY <1>2
<1>5. Tape \in Seq(Words)
  BY <1>1, <1>2 DEF Tape
<1>6. Stream \in Seq(Words)
  BY <1>1, StreamIsLaid, StreamLaidOut DEF LaidOut
<1>7. Len(ring) \in 0..Capacity /\ Capacity \in Nat /\ Room = Capacity - Len(ring)
  BY CapacityAssumption DEF TypeOK, Room
<1>8. Len(temp) \in Nat /\ Len(accepted) \in Nat /\ Len(delivered) \in Nat
  BY DEF TypeOK
<1> QED
  BY <1>1, <1>2, <1>3, <1>4, <1>5, <1>6, <1>7, <1>8

(* The same tape, cut in another place. *)
LEMMA Regroup ==
  ASSUME NEW W, NEW u \in Seq(W), NEW v \in Seq(W), NEW w \in Seq(W)
  PROVE  u \o v \in Seq(W) /\ Len(u \o v) = Len(u) + Len(v) /\ u \o (v \o w) = (u \o v) \o w
  BY ConcatProperties, ConcatAssociative, SMTT(60)

(* What lies in the middle of a sequence. *)
LEMMA Middle ==
  ASSUME NEW W, NEW u \in Seq(W), NEW v \in Seq(W), NEW w \in Seq(W), NEW s, s = u \o (v \o w)
  PROVE  /\ s \in Seq(W) /\ Len(s) = Len(u) + Len(v) + Len(w)
         /\ \A i \in 1..Len(v) : Len(u) + i \in 1..Len(s) /\ s[Len(u) + i] = v[i]
<1>1. v \o w \in Seq(W) /\ Len(v \o w) = Len(v) + Len(w) /\ \A i \in 1..Len(v) : (v \o w)[i] = v[i]
  OBVIOUS
<1> DEFINE x == v \o w
<1> HIDE DEF x
<1>2. s = u \o x /\ x \in Seq(W) /\ Len(x) = Len(v) + Len(w) /\ \A i \in 1..Len(v) : x[i] = v[i]
  BY <1>1 DEF x
<1>3. Len(u) \in Nat /\ Len(v) \in Nat /\ Len(w) \in Nat
  OBVIOUS
<1>4. s \in Seq(W) /\ Len(s) = Len(u) + Len(x)
  <2>1. u \o x \in Seq(W) /\ Len(u \o x) = Len(u) + Len(x)
    BY <1>2, ConcatProperties
  <2> QED BY <1>2, <2>1
<1>5. ASSUME NEW i \in 1..Len(v) PROVE Len(u) + i \in 1..Len(s) /\ s[Len(u) + i] = v[i]
  <2>1. i \in 1..Len(x)
    BY <1>2, <1>3
  <2>2. s[Len(u) + i] = x[i]
    <3>1. (u \o x)[Len(u) + i] = x[i]
      BY <1>2, <1>3, <2>1
    <3> QED BY <1>2, <3>1
  <2> QED BY <1>2, <1>3, <1>4, <2>2
<1> QED
  BY <1>2, <1>3, <1>4, <1>5

(* A word on the tape that was read, or that is in the buffer while nothing is
   read, is the word of a message. *)
LEMMA TapeWord ==
  ASSUME TypeOK, NEW u \in Seq(Words), Stream = u \o Tape, NEW v \in Seq(Words),
         v = temp \/ (temp = <<>> /\ v = ring), NEW i \in 1..Len(v)
  PROVE  \E m \in 1..Len(accepted) : \E k \in 0..accepted[m] :
           v[i] = <<m, k>> /\ Len(u) + i = Start(accepted, m) + k
<1>1. \E w \in Seq(Words) : Tape = v \o w
  <2>1. CASE v = temp
    <3>1. ring \o OwedWords \in Seq(Words)
      BY TapeTyped
    <3> QED BY <2>1, <3>1 DEF Tape
  <2>2. CASE temp = <<>> /\ v = ring
    <3>1. <<>> \o (ring \o OwedWords) = ring \o OwedWords /\ OwedWords \in Seq(Words)
      BY TapeTyped
    <3> QED BY <2>2, <3>1 DEF Tape
  <2> QED BY <2>1, <2>2
<1>2. PICK w \in Seq(Words) : Tape = v \o w
  BY <1>1
<1>3. Len(u) + i \in 1..Len(Stream) /\ Stream[Len(u) + i] = v[i]
  BY <1>2, Middle
<1>4. LaidOut(accepted) /\ Stream = Laid(accepted)
  BY TapeTyped, StreamLaidOut, StreamIsLaid
<1>5. PICK m \in 1..Len(accepted) : \E k \in 0..accepted[m] : Len(u) + i = Start(accepted, m) + k
  BY <1>3, <1>4 DEF LaidOut
<1>6. PICK k \in 0..accepted[m] : Len(u) + i = Start(accepted, m) + k
  BY <1>5
<1>7. Stream[Start(accepted, m) + k] = <<m, k>>
  BY <1>4 DEF LaidOut
<1> QED
  BY <1>3, <1>6, <1>7

-----------------------------------------------------------------------------
(* The producers. *)

(* A step that leaves stream, poll and tape alone keeps the tape's place. *)
LEMMA TapeKept ==
  ASSUME TapeInv, UNCHANGED <<accepted, poller, split>>, Tape' = Tape
  PROVE  TapeInv'
<1>1. PICK u \in Seq(Words) : Stream = u \o Tape /\ (~split => DeliveredWhole(Len(u)))
  BY DEF TapeInv
<1>2. Stream' = Stream
  BY StreamIsLaid
<1>3. DeliveredWhole(Len(u)) => DeliveredWhole(Len(u))'
  BY DEF DeliveredWhole, DeliveredIntact, poller
<1>4. Stream' = u \o Tape' /\ (~split' => DeliveredWhole(Len(u))')
  BY <1>1, <1>2, <1>3
<1> QED
  BY <1>4 DEF TapeInv

(* Taking and giving back the mutex: the new owner and the old one owe
   nothing. *)
LEMMA Locking ==
  ASSUME QueueInv, NEW t \in Threads, Lock(t) \/ Unlock(t)
  PROVE  QueueInv'
<1>1. TypeOK /\ OwnerHasTodo /\ PollInv /\ ReservedSpace /\ TapeInv
  BY DEF QueueInv
<1>2. UNCHANGED <<offered, accepted, todo, ring, poller, split>> /\ mutex' \in {t, NoThread}
  BY DEF Lock, Unlock
<1>3. todo[t] = <<>> /\ mutex \in {t, NoThread}
  BY <1>1, ThreadsAssumption DEF Lock, Unlock, OwnerHasTodo
<1>4. OwedWords = <<>> /\ OwedWords' = <<>>
  BY <1>2, <1>3, FlattenEmpty DEF OwedWords
<1>5. TypeOK'
  BY <1>1, <1>2 DEF TypeOK, poller
<1>6. OwnerHasTodo'
  BY <1>1, <1>2, <1>3, ThreadsAssumption DEF OwnerHasTodo
<1>7. PollInv'
  BY <1>1, <1>2 DEF PollInv, poller
<1>8. ReservedSpace'
  <2>1. Owed' = Owed
    <3>1. Len(FlattenSeq(<<>>)) = 0
      BY FlattenEmpty
    <3>2. todo' = todo /\ todo[t] = <<>>
      BY <1>2, <1>3
    <3>3. Owed = 0
      BY <1>3, <3>1 DEF Owed
    <3>4. Owed' = 0
      BY <1>2, <3>1, <3>2 DEF Owed
    <3> QED BY <3>3, <3>4
  <2> QED BY <1>1, <1>2, <2>1 DEF ReservedSpace, Room
<1>9. TapeInv'
  <2>1. Tape' = Tape
    BY <1>2, <1>4 DEF Tape, poller
  <2> QED BY <1>1, <1>2, <2>1, TapeKept
<1> QED
  BY <1>5, <1>6, <1>7, <1>8, <1>9 DEF QueueInv

(* A message there is no room for changes nothing but the count of calls. *)
LEMMA Dropping ==
  ASSUME QueueInv, NEW t \in Threads, NEW kind \in Kinds, HookDrop(t, kind)
  PROVE  QueueInv'
<1>1. TypeOK /\ OwnerHasTodo /\ PollInv /\ ReservedSpace /\ TapeInv
  BY DEF QueueInv
<1>2. UNCHANGED <<mutex, accepted, todo, ring, poller, split>> /\ offered' = offered + 1 /\ offered < MaxMsgs
  BY DEF HookDrop
<1>3. TypeOK'
  <2>1. offered' \in 0..MaxMsgs /\ Len(accepted) <= offered'
    BY <1>1, <1>2, CapacityAssumption DEF TypeOK
  <2> QED BY <1>1, <1>2, <2>1 DEF TypeOK, poller
<1>4. Owed' = Owed /\ Tape' = Tape
  BY <1>2 DEF Owed, Tape, OwedWords, poller
<1>5. OwnerHasTodo' /\ PollInv' /\ ReservedSpace'
  BY <1>1, <1>2, <1>4 DEF OwnerHasTodo, PollInv, ReservedSpace, Room, poller
<1> QED
  BY <1>1, <1>2, <1>3, <1>4, <1>5, TapeKept DEF QueueInv

(* A message there is room for lengthens the stream, and the tape with it. *)
LEMMA Accepting ==
  ASSUME QueueInv, NEW t \in Threads, NEW kind \in Kinds, HookAccept(t, kind)
  PROVE  QueueInv'
<1> DEFINE m == Len(accepted) + 1
           n == Total(kind)
           w == Writes(m, kind)
           x == Whole(m, n)
<1>1. TypeOK /\ OwnerHasTodo /\ PollInv /\ ReservedSpace /\ TapeInv
  BY DEF QueueInv
<1>2. /\ UNCHANGED <<mutex, ring, poller, split>> /\ offered' = offered + 1 /\ offered < MaxMsgs
      /\ accepted' = Append(accepted, n) /\ todo' = [todo EXCEPT ![t] = w]
      /\ mutex = t /\ todo[t] = <<>> /\ Room >= 1 + n
  BY DEF HookAccept
<1>3. m \in Nat /\ n \in Nat /\ w \in Seq(Seq(Words)) /\ FlattenSeq(w) = x /\ x \in Seq(Words) /\ Len(x) = n + 1
  <2>1. m \in Nat /\ kind \in Seq(Nat)
    BY <1>1, KindsAssumption DEF TypeOK
  <2>2. n \in Nat /\ w \in Seq(Seq(Words)) /\ FlattenSeq(w) = x
    BY <2>1, WritesAreWhole
  <2>3. x \in Seq(Words) /\ Len(x) = n + 1
    BY <2>1, <2>2, WholeWords
  <2> QED BY <2>1, <2>2, <2>3
<1> HIDE DEF n, w, x
<1>4. OwedWords = <<>> /\ OwedWords' = x
  <2>1. t # NoThread /\ todo'[t] = w /\ mutex' = t
    BY <1>1, <1>2, ThreadsAssumption DEF TypeOK
  <2> QED BY <1>2, <1>3, <2>1, FlattenEmpty DEF OwedWords
<1>5. TypeOK'
  <2>1. offered' \in 0..MaxMsgs /\ accepted' \in Seq(Nat) /\ Len(accepted') <= offered'
    BY <1>1, <1>2, <1>3, CapacityAssumption DEF TypeOK
  <2>2. todo' \in [Threads -> Seq(Seq(Nat \X Nat))]
    BY <1>1, <1>2, <1>3 DEF TypeOK, Words
  <2> QED BY <1>1, <1>2, <2>1, <2>2 DEF TypeOK, poller
<1>6. OwnerHasTodo'
  BY <1>1, <1>2 DEF OwnerHasTodo, TypeOK
<1>7. PollInv'
  BY <1>1, <1>2 DEF PollInv, poller
<1>8. ReservedSpace'
  <2>1. Owed' = n + 1
    <3>1. t # NoThread /\ todo'[t] = w /\ mutex' = t
      BY <1>1, <1>2, ThreadsAssumption DEF TypeOK
    <3> QED BY <1>3, <3>1 DEF Owed
  <2>2. Room' = Room
    BY <1>2 DEF Room
  <2> QED BY <1>1, <1>2, <1>3, <2>1, <2>2, TapeTyped DEF ReservedSpace
<1>9. TapeInv'
  <2>1. PICK u \in Seq(Words) : Stream = u \o Tape /\ (~split => DeliveredWhole(Len(u)))
    BY <1>1 DEF TapeInv
  <2>2. Tape' = Tape \o x
    <3>1. temp \in Seq(Words) /\ ring \in Seq(Words)
      BY <1>1, TapeTyped
    <3>2. Tape = temp \o ring
      BY <1>4, <3>1 DEF Tape
    <3>3. Tape' = temp \o (ring \o x)
      BY <1>2, <1>4 DEF Tape, poller
    <3>4. (temp \o ring) \o x = temp \o (ring \o x)
      BY <1>3, <3>1, ConcatAssociative, SMTT(60)
    <3> QED BY <3>2, <3>3, <3>4
  <2>3. Stream' = Stream \o x
    <3>1. accepted \in Seq(Nat)
      BY <1>1, TapeTyped
    <3>2. Laid(Append(accepted, n)) = Laid(accepted) \o x
      BY <1>3, <3>1, LaidAppend DEF x
    <3> QED BY <1>2, <3>2, StreamIsLaid
  <2>4. Stream' = u \o Tape'
    <3>1. Tape \in Seq(Words)
      BY <1>1, TapeTyped
    <3> QED BY <1>3, <2>1, <2>2, <2>3, <3>1, ConcatAssociative, SMTT(60)
  <2>5. ASSUME DeliveredWhole(Len(u)) PROVE DeliveredWhole(Len(u))'
    <3> DEFINE d == Len(delivered)
               b == Len(u)
    <3>1. accepted \in Seq(Nat) /\ d \in Nat /\ Len(accepted) \in Nat /\ Len(accepted') = Len(accepted) + 1
      BY <1>1, <1>2, <1>3, TapeTyped
    <3>2. \A i \in 1..(Len(accepted) + 1) : Start(accepted', i) = Start(accepted, i)
      BY <1>2, <1>3, <3>1, StartAppend
    <3>3. aligned' /\ DeliveredIntact' /\ d' = d /\ d <= Len(accepted) /\ pos' = pos /\ temp' = temp
      BY <1>2, <2>5 DEF DeliveredWhole, DeliveredIntact, poller
    <3>4. b + pos = Start(accepted, d + 1)
      BY <2>5 DEF DeliveredWhole
    <3>5. PICK e \in (d + 1)..(Len(accepted) + 1) : b + Len(temp) + 1 = Start(accepted, e)
      BY <2>5 DEF DeliveredWhole
    <3> HIDE DEF d, b
    <3>6. d + 1 \in 1..(Len(accepted) + 1) /\ e \in 1..(Len(accepted) + 1)
          /\ e \in (d + 1)..(Len(accepted') + 1) /\ d <= Len(accepted')
      BY <3>1, <3>3, <3>5
    <3>7. b + pos = Start(accepted', d + 1) /\ b + Len(temp) + 1 = Start(accepted', e)
      BY <3>2, <3>4, <3>5, <3>6
    <3> QED BY <3>3, <3>6, <3>7 DEF DeliveredWhole, d, b
  <2>6. split' = split
    BY <1>2
  <2> QED BY <2>1, <2>4, <2>5, <2>6 DEF TapeInv
<1> QED
  BY <1>5, <1>6, <1>7, <1>8, <1>9 DEF QueueInv

(* A write moves a piece along the tape: there is room for it. *)
LEMMA Writing ==
  ASSUME QueueInv, NEW t \in Threads, HookWrite(t)
  PROVE  QueueInv'
<1> DEFINE h == Head(todo[t])
           r == Tail(todo[t])
<1>1. TypeOK /\ OwnerHasTodo /\ PollInv /\ ReservedSpace /\ TapeInv
  BY DEF QueueInv
<1>2. /\ UNCHANGED <<mutex, offered, accepted, poller, split>>
      /\ mutex = t /\ todo[t] # <<>> /\ todo' = [todo EXCEPT ![t] = r]
      /\ ring' = IF Len(h) <= Room THEN ring \o h ELSE ring
  BY DEF HookWrite
<1>3. mutex # NoThread /\ todo'[t] = r /\ todo[t] \in Seq(Seq(Words))
  BY <1>1, <1>2, ThreadsAssumption DEF TypeOK, Words
<1>4. h \in Seq(Words) /\ r \in Seq(Seq(Words)) /\ FlattenSeq(todo[t]) = h \o FlattenSeq(r)
  BY <1>2, <1>3, FlattenTail
<1>5. FlattenSeq(r) \in Seq(Words)
  BY <1>4, FlattenType
<1> DEFINE q == FlattenSeq(r)
<1>6. OwedWords = h \o q /\ OwedWords' = q
  BY <1>2, <1>3, <1>4 DEF OwedWords
<1>7. Len(h) \in Nat /\ Len(q) \in Nat /\ Len(OwedWords) = Len(h) + Len(q)
  BY <1>4, <1>5, <1>6, ConcatProperties
<1>8. Len(h) + Len(q) <= Room
  <2>1. Owed = Len(OwedWords) /\ Owed <= Room
    BY <1>1, TapeTyped DEF ReservedSpace
  <2> QED BY <1>7, <2>1
<1>9. ring' = ring \o h /\ Len(ring') = Len(ring) + Len(h) /\ ring \in Seq(Words) /\ ring' \in Seq(Words)
  <2>3. Room \in Int /\ ring \in Seq(Words)
    <3>1. Capacity \in Nat /\ Len(ring) \in 0..Capacity /\ Room = Capacity - Len(ring) /\ ring \in Seq(Words)
      BY <1>1, TapeTyped
    <3> QED BY <3>1
  <2>1. Len(h) <= Room /\ ring \in Seq(Words)
    <3> HIDE DEF h, r, q
    <3> QED BY <1>7, <1>8, <2>3
  <2>2. ring \o h \in Seq(Words) /\ Len(ring \o h) = Len(ring) + Len(h)
    BY <1>4, <2>1, ConcatProperties
  <2> QED BY <1>2, <2>1, <2>2
<1> HIDE DEF h, r, q
<1>10. TypeOK'
  <2>1. ring' \in Seq(Nat \X Nat) /\ Len(ring') <= Capacity
    BY <1>1, <1>7, <1>8, <1>9, TapeTyped DEF Words
  <2>2. todo' \in [Threads -> Seq(Seq(Nat \X Nat))]
    BY <1>1, <1>2, <1>4 DEF TypeOK, Words
  <2> QED BY <1>1, <1>2, <2>1, <2>2 DEF TypeOK, poller
<1>11. OwnerHasTodo'
  BY <1>1, <1>2 DEF OwnerHasTodo, TypeOK
<1>12. PollInv'
  BY <1>1, <1>2, <1>7, <1>9, TapeTyped DEF PollInv, poller
<1>13. ReservedSpace'
  <2>1. Owed' = Len(q)
    BY <1>2, <1>3 DEF Owed, q
  <2>2. Room' = Capacity - Len(ring')
    BY DEF Room
  <2> QED BY <1>1, <1>7, <1>8, <1>9, <2>1, <2>2, TapeTyped DEF ReservedSpace
<1>14. TapeInv'
  <2>1. (ring \o h) \o q = ring \o (h \o q)
    BY <1>4, <1>5, <1>9, ConcatAssociative, SMTT(60) DEF q
  <2>2. Tape' = Tape
    BY <1>2, <1>6, <1>9, <2>1 DEF Tape, poller
  <2> QED BY <1>1, <1>2, <2>2, TapeKept
<1> QED
  BY <1>10, <1>11, <1>12, <1>13, <1>14 DEF QueueInv

-----------------------------------------------------------------------------
(* The poller. *)

(* Asking how much there is. *)
LEMMA AskingAvailable ==
  ASSUME QueueInv, PollAvailable
  PROVE  QueueInv'
<1>1. TypeOK /\ OwnerHasTodo /\ PollInv /\ ReservedSpace /\ TapeInv
  BY DEF QueueInv
<1>2. /\ UNCHANGED <<hook, ring, temp, pos, aligned, delivered, split>>
      /\ poll = "idle" /\ poll' = "read" /\ ring # <<>> /\ available' = Len(ring)
  BY DEF PollAvailable
<1>3. Len(ring) \in 0..Capacity /\ Len(ring) \in 1..Len(ring)
  <2>1. ring \in Seq(Words) /\ Len(ring) \in 0..Capacity
    BY <1>1, TapeTyped
  <2> QED BY <1>2, <2>1
<1>4. TypeOK'
  BY <1>1, <1>2, <1>3 DEF TypeOK, hook
<1>5. OwnerHasTodo' /\ PollInv' /\ ReservedSpace'
  BY <1>1, <1>2, <1>3 DEF OwnerHasTodo, PollInv, ReservedSpace, Owed, Room, hook
<1>6. TapeInv'
  <2>1. PICK u \in Seq(Words) : Stream = u \o Tape /\ (~split => DeliveredWhole(Len(u)))
    BY <1>1 DEF TapeInv
  <2>2. Stream' = Stream /\ Tape' = Tape /\ split' = split
    BY <1>2, StreamIsLaid DEF Tape, OwedWords, hook
  <2>3. DeliveredWhole(Len(u)) => DeliveredWhole(Len(u))'
    BY <1>2 DEF DeliveredWhole, DeliveredIntact, hook
  <2>4. Stream' = u \o Tape' /\ (~split' => DeliveredWhole(Len(u))')
    BY <2>1, <2>2, <2>3
  <2> QED BY <2>4 DEF TapeInv
<1> QED
  BY <1>4, <1>5, <1>6 DEF QueueInv

(* Reading moves words along the tape; unless the last of them is recorded as
   inside a message, a message ends with it. *)
LEMMA Reading ==
  ASSUME QueueInv, PollRead
  PROVE  QueueInv'
<1> DEFINE v == SubSeq(ring, 1, available)
           r == SubSeq(ring, available + 1, Len(ring))
<1>1. TypeOK /\ OwnerHasTodo /\ PollInv /\ ReservedSpace /\ TapeInv
  BY DEF QueueInv
<1>2. /\ UNCHANGED <<hook, available, delivered>>
      /\ poll = "read" /\ poll' = "parse" /\ temp' = v /\ ring' = r /\ pos' = 1 /\ aligned' = TRUE
      /\ split' = (split \/ LET last == ring[available] IN last[2] < accepted[last[1]])
  BY DEF PollRead
<1>3. available \in 1..Len(ring) /\ temp = <<>> /\ pos = 1 /\ ring \in Seq(Words)
  BY <1>1, <1>2, TapeTyped DEF PollInv
<1>4. /\ v \in Seq(Words) /\ Len(v) = available
      /\ r \in Seq(Words) /\ Len(r) = Len(ring) - available
      /\ \A i \in 1..available : v[i] = ring[i]
  BY <1>3
<1>5. v \o r = ring
  <2>1. v \o r \in Seq(Words) /\ Len(v \o r) = Len(ring)
    BY <1>3
  <2>2. \A i \in 1..Len(ring) : (v \o r)[i] = ring[i]
    BY <1>3
  <2> QED
    <3> HIDE DEF v, r
    <3> QED BY <1>3, <2>1, <2>2, SeqEqual
<1> HIDE DEF v, r
<1>6. Len(ring') <= Len(ring) /\ Len(ring') \in Nat /\ Len(ring) \in 0..Capacity
  BY <1>1, <1>2, <1>3, <1>4, TapeTyped
<1>7. TypeOK'
  <2>1. temp' \in Seq(Nat \X Nat) /\ ring' \in Seq(Nat \X Nat) /\ Len(ring') <= Capacity
    BY <1>1, <1>2, <1>4, <1>6, CapacityAssumption DEF Words
  <2>2. split' \in BOOLEAN
    BY <1>1, <1>2 DEF TypeOK
  <2> QED BY <1>1, <1>2, <2>1, <2>2 DEF TypeOK, hook
<1>8. OwnerHasTodo' /\ PollInv'
  BY <1>1, <1>2, <1>3, <1>4 DEF OwnerHasTodo, PollInv, hook
<1>9. ReservedSpace'
  <2>1. Owed' = Owed
    BY <1>2 DEF Owed, hook
  <2>2. Room' = Capacity - Len(ring') /\ Room = Capacity - Len(ring)
    BY DEF Room
  <2> QED BY <1>1, <1>6, <2>1, <2>2, TapeTyped DEF ReservedSpace
<1>10. TapeInv'
  <2>1. PICK u \in Seq(Words) : Stream = u \o Tape /\ (~split => DeliveredWhole(Len(u)))
    BY <1>1 DEF TapeInv
  <2>2. Tape' = Tape
    <3>1. OwedWords' = OwedWords /\ OwedWords \in Seq(Words)
      BY <1>1, <1>2, TapeTyped DEF OwedWords, hook
    <3>2. (v \o r) \o OwedWords = v \o (r \o OwedWords)
      BY <1>4, <3>1, ConcatAssociative, SMTT(60)
    <3>3. Tape = ring \o OwedWords
      BY <1>3, <3>1 DEF Tape
    <3>4. Tape' = v \o (r \o OwedWords)
      BY <1>2, <3>1 DEF Tape
    <3> QED BY <1>5, <3>2, <3>3, <3>4
  <2>3. Stream' = Stream
    BY <1>2, StreamIsLaid DEF hook
  <2>4. ASSUME ~split' PROVE DeliveredWhole(Len(u))'
    <3> DEFINE d == Len(delivered)
               b == Len(u)
    <3>1. ~split /\ DeliveredWhole(b)
      BY <1>2, <2>1, <2>4
    <3>2. PICK m \in 1..Len(accepted) : \E k \in 0..accepted[m] :
            ring[available] = <<m, k>> /\ b + available = Start(accepted, m) + k
      BY <1>1, <1>3, <2>1, TapeWord
    <3>3. PICK k \in 0..accepted[m] :
            ring[available] = <<m, k>> /\ b + available = Start(accepted, m) + k
      BY <3>2
    <3>4. ~(k < accepted[m])
      <4>1. ~(ring[available][2] < accepted[ring[available][1]])
        BY <1>2, <2>4
      <4> QED BY <3>3, <4>1
    <3>5. accepted \in Seq(Nat) /\ b \in Nat /\ d \in Nat /\ Len(accepted) \in Nat /\ accepted[m] \in Nat
      BY <1>1, TapeTyped
    <3>6. k = accepted[m]
      BY <3>4, <3>5
    <3>7. Start(accepted, m + 1) = b + available + 1 /\ Start(accepted, m) \in Nat
      BY <3>3, <3>5, <3>6, StartStep
    <3>8. b + 1 = Start(accepted, d + 1) /\ d <= Len(accepted)
      BY <1>3, <3>1 DEF DeliveredWhole
    <3> HIDE DEF d, b
    <3>9. m >= d
      <4>1. SUFFICES ASSUME m + 1 <= d PROVE FALSE
        BY <3>5
      <4>2. d + 1 \in (m+1)..(Len(accepted) + 1)
        BY <3>5, <3>8, <4>1
      <4>3. Start(accepted, m) + accepted[m] + 1 <= Start(accepted, d + 1)
        BY <3>5, <4>2, StartMonotone
      <4> QED BY <1>3, <3>3, <3>5, <3>6, <3>7, <3>8, <4>3
    <3>10. m + 1 \in (d + 1)..(Len(accepted) + 1)
      BY <3>5, <3>9
    <3>11. b + Len(temp') + 1 = Start(accepted, m + 1)
      BY <1>2, <1>4, <3>7
    <3>12. aligned' /\ DeliveredIntact' /\ delivered' = delivered /\ accepted' = accepted
      BY <1>2, <3>1 DEF DeliveredWhole, DeliveredIntact, hook
    <3> QED BY <1>2, <3>8, <3>10, <3>11, <3>12 DEF DeliveredWhole, b, d
  <2>5. Stream' = u \o Tape' /\ (~split' => DeliveredWhole(Len(u))')
    BY <2>1, <2>2, <2>3, <2>4
  <2> QED BY <2>5 DEF TapeInv
<1> QED
  BY <1>7, <1>8, <1>9, <1>10 DEF QueueInv

(* While no message is split, pos is at the header of the next message, and
   the message lies in temp whole. *)
LEMMA AtMessage ==
  ASSUME QueueInv, poll = "parse", pos <= available, NEW u \in Seq(Words), Stream = u \o Tape,
         DeliveredWhole(Len(u)), NEW n, n = Len(delivered) + 1
  PROVE  /\ n \in 1..Len(accepted) /\ accepted[n] \in Nat
         /\ pos + accepted[n] <= Len(temp)
         /\ \A k \in 0..accepted[n] : temp[pos + k] = <<n, k>>
         /\ Len(u) + (pos + accepted[n] + 1) = Start(accepted, n + 1)
         /\ \E e \in (n + 1)..(Len(accepted) + 1) : Len(u) + Len(temp) + 1 = Start(accepted, e)
<1> DEFINE b == Len(u)
           d == Len(delivered)
<1>1. TypeOK /\ PollInv
  BY DEF QueueInv
<1>2. /\ accepted \in Seq(Nat) /\ d \in Nat /\ Len(accepted) \in Nat /\ b \in Nat
      /\ temp \in Seq(Words) /\ Len(temp) \in Nat
  BY <1>1, TapeTyped
<1>3. pos \in 1..Len(temp)
  BY <1>1, <1>2 DEF PollInv, TypeOK
<1>4. b + pos = Start(accepted, n) /\ n = d + 1 /\ d <= Len(accepted)
  BY DEF DeliveredWhole
<1>5. PICK e \in n..(Len(accepted) + 1) : b + Len(temp) + 1 = Start(accepted, e)
  BY DEF DeliveredWhole
<1> HIDE DEF b, d
<1>6. e # n
  <2>1. b + pos # b + Len(temp) + 1
    BY <1>2, <1>3
  <2> QED BY <1>4, <1>5, <2>1
<1>7. e \in (n+1)..(Len(accepted) + 1) /\ n \in 1..Len(accepted)
  BY <1>2, <1>4, <1>5, <1>6
<1>8. accepted[n] \in Nat /\ Start(accepted, n) + accepted[n] + 1 <= Start(accepted, e)
  BY <1>2, <1>7, StartMonotone
<1>9. pos + accepted[n] <= Len(temp)
  BY <1>2, <1>3, <1>4, <1>5, <1>8
<1>10. Start(accepted, n + 1) = Start(accepted, n) + accepted[n] + 1
  BY <1>2, <1>7, StartStep
<1>11. b + (pos + accepted[n] + 1) = Start(accepted, n + 1)
  BY <1>2, <1>3, <1>4, <1>8, <1>10
<1>12. ASSUME NEW k \in 0..accepted[n] PROVE temp[pos + k] = <<n, k>>
  <2>1. Laid(accepted)[Start(accepted, n) + k] = <<n, k>>
    BY <1>2, <1>7, StreamLaidOut DEF LaidOut
  <2>2. pos + k \in 1..Len(temp)
    BY <1>2, <1>3, <1>8, <1>9
  <2>3. Stream[b + (pos + k)] = temp[pos + k]
    <3>1. ring \o OwedWords \in Seq(Words)
      BY <1>1, TapeTyped
    <3>2. Stream = u \o (temp \o (ring \o OwedWords))
      BY DEF Tape
    <3> QED BY <1>2, <2>2, <3>1, <3>2, Middle DEF b
  <2>4. b + (pos + k) = Start(accepted, n) + k
    BY <1>2, <1>3, <1>4
  <2> QED BY <2>1, <2>3, <2>4, StreamIsLaid
<1> QED
  BY <1>5, <1>7, <1>8, <1>9, <1>11, <1>12 DEF b

(* One message is handed over; if no poll split one, the next one. *)
LEMMA Dispatching ==
  ASSUME QueueInv, Dispatch
  PROVE  QueueInv'
<1> DEFINE m == temp[pos][1]
           end == IF pos + accepted[m] <= available THEN pos + accepted[m] ELSE available
           payload == SubSeq(temp, pos + 1, end)
           got == IF payload = [k \in 1..accepted[m] |-> Word(m, k)] THEN m ELSE Torn
<1>1. TypeOK /\ OwnerHasTodo /\ PollInv /\ ReservedSpace /\ TapeInv
  BY DEF QueueInv
<1>2. /\ UNCHANGED <<hook, ring, poll, available, temp, aligned, split>>
      /\ poll = "parse" /\ pos <= available
      /\ delivered' = Append(delivered, got) /\ pos' = pos + accepted[m] + 1
  BY DEF Dispatch
<1>3. PICK u \in Seq(Words) : Stream = u \o Tape /\ (~split => DeliveredWhole(Len(u)))
  BY <1>1 DEF TapeInv
<1>4. pos \in 1..Len(temp) /\ temp \in Seq(Words) /\ accepted \in Seq(Nat) /\ Len(temp) \in Nat
  BY <1>1, <1>2, TapeTyped DEF PollInv, TypeOK
<1>5. m \in 1..Len(accepted) /\ accepted[m] \in Nat
  <2>1. PICK n \in 1..Len(accepted) : \E k \in 0..accepted[n] :
          temp[pos] = <<n, k>> /\ Len(u) + pos = Start(accepted, n) + k
    BY <1>1, <1>3, <1>4, TapeWord
  <2>2. m = n
    BY <2>1
  <2> QED BY <1>4, <2>2
<1>6. got \in Nat
  <2> HIDE DEF m
  <2> QED BY <1>5 DEF Torn
<1> HIDE DEF m, got
<1>7. pos' \in Nat \ {0}
  BY <1>2, <1>4, <1>5
<1>8. TypeOK'
  <2>1. delivered' \in Seq(Nat)
    BY <1>1, <1>2, <1>6 DEF TypeOK
  <2> QED BY <1>1, <1>2, <1>7, <2>1 DEF TypeOK, hook
<1>9. OwnerHasTodo' /\ PollInv' /\ ReservedSpace'
  BY <1>1, <1>2 DEF OwnerHasTodo, PollInv, ReservedSpace, Owed, Room, hook
<1>10. TapeInv'
  <2>1. Stream' = Stream /\ Tape' = Tape /\ split' = split
    BY <1>2, StreamIsLaid DEF Tape, OwedWords, hook
  <2>2. ASSUME ~split PROVE DeliveredWhole(Len(u))'
    <3> DEFINE d == Len(delivered)
               n == d + 1
    <3>1. DeliveredWhole(Len(u))
      BY <1>3, <2>2
    <3>2. /\ n \in 1..Len(accepted) /\ accepted[n] \in Nat
          /\ pos + accepted[n] <= Len(temp)
          /\ \A k \in 0..accepted[n] : temp[pos + k] = <<n, k>>
          /\ Len(u) + (pos + accepted[n] + 1) = Start(accepted, n + 1)
          /\ \E e \in (n + 1)..(Len(accepted) + 1) : Len(u) + Len(temp) + 1 = Start(accepted, e)
      BY <1>2, <1>3, <3>1, AtMessage
    <3>3. d \in Nat /\ delivered = [i \in 1..d |-> i] /\ delivered \in Seq(Nat) /\ available = Len(temp)
      <4>1. d \in Nat /\ delivered \in Seq(Nat)
        BY <1>1 DEF TypeOK
      <4>2. delivered = [i \in 1..d |-> i]
        BY <3>1 DEF DeliveredWhole, DeliveredIntact
      <4>3. available = Len(temp)
        BY <1>1, <1>2 DEF PollInv
      <4> QED BY <4>1, <4>2, <4>3
    <3> HIDE DEF d
    <3>4. temp[pos] = <<n, 0>>
      <4>1. 0 \in 0..accepted[n] /\ pos + 0 = pos
        BY <1>4, <3>2
      <4>2. temp[pos + 0] = <<n, 0>>
        BY <3>2, <4>1
      <4> QED BY <4>1, <4>2
    <3>5. m = n
      BY <3>4 DEF m
    <3>6. got = n
      <4>1. end = pos + accepted[n]
        BY <3>2, <3>3, <3>5
      <4>2. payload = SubSeq(temp, pos + 1, pos + accepted[n])
        BY <4>1
      <4>3. SubSeq(temp, pos + 1, pos + accepted[n]) = [k \in 1..accepted[n] |-> Word(n, k)]
        <5> DEFINE a == accepted[n]
                   f == SubSeq(temp, pos + 1, pos + a)
                   g == [k \in 1..a |-> Word(n, k)]
        <5>1. a \in Nat /\ pos + a <= Len(temp) /\ \A k \in 0..a : temp[pos + k] = <<n, k>>
          BY <3>2
        <5> HIDE DEF a, n
        <5>2. f \in Seq(Words) /\ Len(f) = a
          BY <1>4, <5>1
        <5>3. n \in Nat
          BY <3>2 DEF n
        <5>4. g \in Seq(Words) /\ Len(g) = a
          BY <5>1, <5>3 DEF Word, Words
        <5>5. ASSUME NEW k \in 1..a PROVE f[k] = g[k]
          <6>1. f[k] = temp[pos + 1 + k - 1] /\ pos + 1 + k - 1 = pos + k
            BY <1>4, <5>1
          <6>2. k \in 0..a
            BY <5>1
          <6> QED BY <5>1, <6>1, <6>2 DEF Word
        <5>6. f = g
          <6> HIDE DEF f, g
          <6> QED BY <5>2, <5>4, <5>5, SeqEqual
        <5> QED BY <5>6 DEF a, n
      <4> QED BY <3>5, <4>2, <4>3 DEF got
    <3>7. delivered' = [i \in 1..(d+1) |-> i] /\ Len(delivered') = d + 1
      <4>1. delivered' = Append([i \in 1..d |-> i], d + 1)
        BY <1>2, <3>3, <3>6
      <4>2. Append([i \in 1..d |-> i], d + 1) = [i \in 1..(d+1) |-> i]
        BY <3>3
      <4>3. Len([i \in 1..(d+1) |-> i]) = d + 1
        BY <3>3
      <4> QED BY <4>1, <4>2, <4>3
    <3>8. DeliveredIntact' /\ aligned' /\ accepted' = accepted /\ temp' = temp
      BY <1>2, <3>1, <3>7 DEF DeliveredIntact, DeliveredWhole, hook
    <3>9. Len(delivered') = n /\ n <= Len(accepted)
      BY <3>2, <3>7
    <3>10. Len(u) + pos' = Start(accepted, n + 1)
      BY <1>2, <3>2, <3>5
    <3> HIDE DEF n
    <3> QED BY <3>2, <3>8, <3>9, <3>10 DEF DeliveredWhole
  <2>3. Stream' = u \o Tape' /\ (~split' => DeliveredWhole(Len(u))')
    BY <1>3, <2>1, <2>2
  <2> QED BY <2>3 DEF TapeInv
<1> QED
  BY <1>8, <1>9, <1>10 DEF QueueInv

(* Bytes that are no header are met only after a poll split a message. *)
LEMMA DispatchingBogus ==
  ASSUME QueueInv, DispatchBogus
  PROVE  QueueInv'
<1>1. TypeOK /\ OwnerHasTodo /\ PollInv /\ ReservedSpace /\ TapeInv
  BY DEF QueueInv
<1>2. /\ UNCHANGED <<hook, ring, poll, available, temp, split>>
      /\ poll = "parse" /\ pos <= available /\ (~aligned \/ ~IsHeader(temp[pos]))
      /\ delivered' \in {delivered, Append(delivered, Torn)}
      /\ pos' \in (pos + 1)..(available + 1) /\ aligned' \in BOOLEAN
  BY DEF DispatchBogus
<1>3. PICK u \in Seq(Words) : Stream = u \o Tape /\ (~split => DeliveredWhole(Len(u)))
  BY <1>1 DEF TapeInv
<1>4. TypeOK'
  <2>1. delivered' \in Seq(Nat)
    <3>1. delivered \in Seq(Nat) /\ Torn \in Nat
      BY <1>1 DEF TypeOK, Torn
    <3> QED BY <1>2, <3>1
  <2>2. pos' \in Nat \ {0}
    BY <1>1, <1>2 DEF TypeOK
  <2> QED BY <1>1, <1>2, <2>1, <2>2 DEF TypeOK, hook
<1>5. OwnerHasTodo' /\ PollInv' /\ ReservedSpace'
  BY <1>1, <1>2 DEF OwnerHasTodo, PollInv, ReservedSpace, Owed, Room, hook
<1>6. split
  <2> SUFFICES ASSUME ~split PROVE FALSE
    OBVIOUS
  <2> DEFINE n == Len(delivered) + 1
  <2>1. aligned /\ DeliveredWhole(Len(u))
    BY <1>3 DEF DeliveredWhole
  <2>2. accepted[n] \in Nat /\ \A k \in 0..accepted[n] : temp[pos + k] = <<n, k>>
    BY <1>2, <1>3, <2>1, AtMessage
  <2>3. 0 \in 0..accepted[n] /\ pos + 0 = pos
    BY <1>1, <2>2 DEF TypeOK
  <2>4. temp[pos + 0] = <<n, 0>>
    BY <2>2, <2>3
  <2>5. IsHeader(temp[pos])
    BY <2>3, <2>4 DEF IsHeader
  <2> QED BY <1>2, <2>1, <2>5
<1>7. TapeInv'
  <2>1. Stream' = Stream /\ Tape' = Tape /\ split' = split
    BY <1>2, StreamIsLaid DEF Tape, OwedWords, hook
  <2>2. Stream' = u \o Tape' /\ (~split' => DeliveredWhole(Len(u))')
    BY <1>3, <1>6, <2>1
  <2> QED BY <2>2 DEF TapeInv
<1> QED
  BY <1>4, <1>5, <1>7 DEF QueueInv

(* A poll's end gives back what was read. *)
LEMMA Returning ==
  ASSUME QueueInv, PollReturn
  PROVE  QueueInv'
<1>1. TypeOK /\ OwnerHasTodo /\ PollInv /\ ReservedSpace /\ TapeInv
  BY DEF QueueInv
<1>2. /\ UNCHANGED <<hook, ring, delivered, split>>
      /\ poll = "parse" /\ pos > available
      /\ poll' = "idle" /\ available' = 0 /\ temp' = <<>> /\ pos' = 1 /\ aligned' = TRUE
  BY DEF PollReturn
<1>3. TypeOK'
  <2>1. 0 \in 0..Capacity /\ <<>> \in Seq(Nat \X Nat)
    BY CapacityAssumption
  <2> QED BY <1>1, <1>2, <2>1 DEF TypeOK, hook
<1>4. OwnerHasTodo' /\ PollInv' /\ ReservedSpace'
  BY <1>1, <1>2 DEF OwnerHasTodo, PollInv, ReservedSpace, Owed, Room, hook
<1>5. TapeInv'
  <2>1. PICK u \in Seq(Words) : Stream = u \o Tape /\ (~split => DeliveredWhole(Len(u)))
    BY <1>1 DEF TapeInv
  <2> DEFINE r == ring \o OwedWords
  <2>2. r \in Seq(Words) /\ temp \in Seq(Words) /\ Tape = temp \o r
    BY <1>1, TapeTyped DEF Tape
  <2>3. Tape' = r
    <3>1. Tape' = <<>> \o r
      BY <1>2 DEF Tape, OwedWords, hook
    <3> HIDE DEF r
    <3> QED BY <2>2, <3>1
  <2> HIDE DEF r
  <2>4. PICK v \in Seq(Words) : Len(v) = Len(u) + Len(temp) /\ u \o (temp \o r) = v \o r
    <3>1. r \in Seq(Words) /\ temp \in Seq(Words)
      BY <2>2
    <3>2. /\ u \o temp \in Seq(Words) /\ Len(u \o temp) = Len(u) + Len(temp)
          /\ u \o (temp \o r) = (u \o temp) \o r
      BY <3>1, Regroup
    <3> QED BY <3>2, Zenon
  <2>5. Stream' = v \o Tape'
    <3>1. Stream' = Stream
      BY <1>2, StreamIsLaid DEF hook
    <3> QED BY <2>1, <2>2, <2>3, <2>4, <3>1
  <2>6. ASSUME ~split PROVE DeliveredWhole(Len(v))'
    <3> DEFINE d == Len(delivered)
    <3>1. DeliveredWhole(Len(u))
      BY <2>1, <2>6
    <3>2. /\ accepted \in Seq(Nat) /\ d \in Nat /\ Len(accepted) \in Nat /\ Len(u) \in Nat
          /\ Len(temp) \in Nat /\ available = Len(temp) /\ pos \in Nat
      BY <1>1, <1>2, TapeTyped DEF PollInv, TypeOK
    <3>3. Len(u) + pos = Start(accepted, d + 1) /\ d <= Len(accepted)
      BY <3>1 DEF DeliveredWhole
    <3>4. PICK e \in (d + 1)..(Len(accepted) + 1) : Len(u) + Len(temp) + 1 = Start(accepted, e)
      BY <3>1 DEF DeliveredWhole
    <3> HIDE DEF d
    <3>5. e = d + 1
      <4>1. SUFFICES ASSUME e # d + 1 PROVE FALSE
        OBVIOUS
      <4>2. d + 1 \in 1..Len(accepted) /\ e \in (d + 1 + 1)..(Len(accepted) + 1)
        BY <3>2, <3>4, <4>1
      <4>3. Start(accepted, d + 1) + accepted[d+1] + 1 <= Start(accepted, e) /\ accepted[d+1] \in Nat
        BY <3>2, <4>2, StartMonotone
      <4> QED BY <1>2, <3>2, <3>3, <3>4, <4>3
    <3>6. Len(v) + 1 = Start(accepted, d + 1)
      BY <2>4, <3>4, <3>5
    <3>7. Len(v) + Len(<<>>) + 1 = Len(v) + 1 /\ d + 1 \in (d + 1)..(Len(accepted) + 1)
      BY <2>4, <3>2, <3>3
    <3>8. aligned' /\ DeliveredIntact' /\ delivered' = delivered /\ accepted' = accepted
      BY <1>2, <3>1 DEF DeliveredWhole, DeliveredIntact, hook
    <3>9. Len(delivered') = d /\ Len(accepted') = Len(accepted)
      BY <3>8 DEF d
    <3>10. \E f \in (d + 1)..(Len(accepted) + 1) : Len(v) + Len(<<>>) + 1 = Start(accepted, f)
      BY <3>6, <3>7
    <3> QED BY <1>2, <3>3, <3>6, <3>8, <3>9, <3>10 DEF DeliveredWhole
  <2>7. split' = split
    BY <1>2
  <2>8. Stream' = v \o Tape' /\ (~split' => DeliveredWhole(Len(v))')
    BY <2>5, <2>6, <2>7
  <2> QED BY <2>4, <2>8 DEF TapeInv
<1> QED
  BY <1>3, <1>4, <1>5 DEF QueueInv

-----------------------------------------------------------------------------
(* The theorems. *)

(* QueueInv is an invariant of every behaviour. *)
THEOREM QueueInvariance == Spec => []QueueInv
<1>1. Init => QueueInv
  <2> SUFFICES ASSUME Init PROVE QueueInv
    OBVIOUS
  <2>1. TypeOK
    <3>1. 0 \in 0..MaxMsgs /\ 0 \in 0..Capacity /\ 0 <= Capacity /\ Len(<<>>) = 0
      BY CapacityAssumption
    <3>2. \A W : <<>> \in Seq(W)
      OBVIOUS
    <3>3. todo \in [Threads -> Seq(Seq(Nat \X Nat))]
      BY <3>2 DEF Init
    <3>5. mutex \in Threads \cup {NoThread} /\ offered \in 0..MaxMsgs /\ available \in 0..Capacity
      BY <3>1 DEF Init
    <3>6. /\ accepted \in Seq(Nat) /\ Len(accepted) <= offered /\ delivered \in Seq(Nat)
          /\ ring \in Seq(Nat \X Nat) /\ Len(ring) <= Capacity /\ temp \in Seq(Nat \X Nat)
      BY <3>1, <3>2 DEF Init
    <3>7. poll \in {"idle", "read", "parse"} /\ pos \in Nat \ {0}
      BY DEF Init
    <3>8. aligned \in BOOLEAN /\ split \in BOOLEAN
      BY DEF Init
    <3> QED BY <3>3, <3>5, <3>6, <3>7, <3>8 DEF TypeOK
  <2>2. OwnerHasTodo /\ PollInv
    BY DEF Init, OwnerHasTodo, PollInv
  <2>3. OwedWords = <<>> /\ Owed = 0 /\ Tape = <<>>
    BY DEF Init, OwedWords, Owed, Tape
  <2>4. ReservedSpace
    BY <2>1, <2>3, TapeTyped DEF ReservedSpace
  <2>5. TapeInv
    <3>1. accepted = <<>> /\ <<>> \in Seq(Nat) /\ Len(<<>>) = 0 /\ <<>> \in Seq(Words)
      BY DEF Init
    <3>2. Start(<<>>, 1) = 1
      BY <3>1, StartStep
    <3>3. Stream = <<>>
      <4>1. Stream \in Seq(Words)
        BY <2>1, TapeTyped
      <4>2. Len(Stream) + 1 = Start(<<>>, 0 + 1)
        BY <3>1, StreamIsLaid, StreamLaidOut DEF LaidOut
      <4>3. Len(Stream) = 0
        BY <3>2, <4>1, <4>2
      <4> QED BY <4>1, <4>3
    <3>4. Stream = <<>> \o Tape
      BY <2>3, <3>3
    <3>5. DeliveredWhole(0)
      <4>1. delivered = <<>> /\ temp = <<>> /\ pos = 1 /\ aligned = TRUE
        BY DEF Init
      <4>2. DeliveredIntact
        BY <3>1, <4>1 DEF DeliveredIntact
      <4>3. 1 \in (0 + 1)..(0 + 1) /\ 0 + 1 = 1 /\ 0 + 0 + 1 = 1
        OBVIOUS
      <4> QED BY <3>1, <3>2, <4>1, <4>2, <4>3 DEF DeliveredWhole
    <3>6. Stream = <<>> \o Tape /\ (~split => DeliveredWhole(Len(<<>>)))
      BY <3>1, <3>4, <3>5
    <3> QED BY <3>1, <3>6 DEF TapeInv
  <2> QED BY <2>1, <2>2, <2>4, <2>5 DEF QueueInv
<1>2. QueueInv /\ [Next]_vars => QueueInv'
  <2> SUFFICES ASSUME QueueInv, [Next]_vars PROVE QueueInv'
    OBVIOUS
  <2>1. CASE UNCHANGED vars
    <3>1. UNCHANGED <<mutex, offered, accepted, todo, ring, poller, split>>
      BY <2>1 DEF vars, hook
    <3>2. Tape' = Tape
      BY <3>1 DEF Tape, OwedWords, poller
    <3>3. TypeOK' /\ OwnerHasTodo' /\ PollInv' /\ ReservedSpace'
      BY <3>1 DEF QueueInv, TypeOK, OwnerHasTodo, PollInv, ReservedSpace, Owed, Room, poller
    <3>4. TapeInv'
      BY <3>1, <3>2, TapeKept DEF QueueInv
    <3> QED BY <3>3, <3>4 DEF QueueInv
  <2>2. CASE Poll
    BY <2>2, AskingAvailable, Reading, Dispatching, DispatchingBogus, Returning DEF Poll
  <2>3. ASSUME NEW t \in Threads, Produce(t) PROVE QueueInv'
    BY <2>3, Locking, Writing, Dropping, Accepting DEF Produce
  <2> QED BY <2>1, <2>2, <2>3 DEF Next
<1> QED
  BY <1>1, <1>2, PTL DEF Spec

(* TypeOK: every variable keeps its type; a word of a message is never taken
   for one of a message that was not accepted. *)
THEOREM TypeCorrect == Spec => []TypeOK
<1>1. QueueInv => TypeOK
  BY DEF QueueInv
<1> QED
  BY <1>1, QueueInvariance, PTL

(* ReservedSpace: the one check at the start of a hook suffices for all its
   writes, whatever polls and senders run in between. *)
THEOREM NoPieceRefused == Spec => []ReservedSpace
<1>1. QueueInv => ReservedSpace
  BY DEF QueueInv
<1> QED
  BY <1>1, QueueInvariance, PTL

(* RingIsStream: the buffer holds a contiguous stretch of the messages laid
   end to end, up to what the hook in progress still owes. *)
THEOREM RingHoldsStretch == Spec => []RingIsStream
<1>1. QueueInv => RingIsStream
  <2> SUFFICES ASSUME QueueInv PROVE RingIsStream
    OBVIOUS
  <2> DEFINE o == OwedWords
             n == Len(ring)
             end == Len(Stream) - Owed
  <2>1. PICK u \in Seq(Words) : Stream = u \o Tape
    BY DEF QueueInv, TapeInv
  <2>2. temp \in Seq(Words) /\ ring \in Seq(Words) /\ o \in Seq(Words) /\ Owed = Len(o) /\ Stream \in Seq(Words)
    BY TapeTyped DEF QueueInv
  <2> DEFINE v == u \o temp
  <2>3. v \in Seq(Words) /\ Stream = v \o (ring \o o)
    <3>1. v \in Seq(Words) /\ ring \o o \in Seq(Words)
      BY <2>2
    <3>2. Stream = u \o (temp \o (ring \o o))
      BY <2>1 DEF Tape
    <3> HIDE DEF o
    <3>3. ring \o o \in Seq(Words)
      BY <2>2
    <3>4. u \o (temp \o (ring \o o)) = v \o (ring \o o)
      <4>1. temp \in Seq(Words)
        BY <2>2
      <4> QED BY <3>3, <4>1, Regroup
    <3> QED BY <3>1, <3>2, <3>4
  <2> HIDE DEF v, o
  <2>4. /\ Len(Stream) = Len(v) + n + Len(o)
        /\ \A i \in 1..n : Len(v) + i \in 1..Len(Stream) /\ Stream[Len(v) + i] = ring[i]
    BY <2>2, <2>3, Middle
  <2>5. Len(v) \in Nat /\ n \in Nat /\ Len(o) \in Nat /\ Len(Stream) \in Nat
    BY <2>2, <2>3
  <2>6. end = Len(v) + n /\ end >= n /\ end - n + 1 = Len(v) + 1
    BY <2>2, <2>4, <2>5
  <2>7. ring = SubSeq(Stream, Len(v) + 1, Len(v) + n)
    <3> DEFINE f == SubSeq(Stream, Len(v) + 1, Len(v) + n)
    <3>1. f \in Seq(Words) /\ Len(f) = n
      <4>1. Len(v) + n <= Len(Stream)
        BY <2>4, <2>5
      <4> QED BY <2>2, <2>5, <4>1
    <3>2. ASSUME NEW i \in 1..n PROVE f[i] = ring[i]
      <4>1. f[i] = Stream[Len(v) + 1 + i - 1] /\ Len(v) + 1 + i - 1 = Len(v) + i
        BY <2>5
      <4> QED BY <2>4, <4>1
    <3> HIDE DEF f
    <3>3. f = ring
      BY <2>2, <3>1, <3>2, SeqEqual
    <3> QED BY <3>3 DEF f
  <2> QED BY <2>6, <2>7 DEF RingIsStream
<1> QED
  BY <1>1, QueueInvariance, PTL

(* IntactUnlessSplit: as long as no poll falls between two writes of a hook,
   every message arrives whole and in order, and none is left behind. *)
THEOREM DeliveryIntact == Spec => []IntactUnlessSplit
<1>1. QueueInv => IntactUnlessSplit
  <2> SUFFICES ASSUME QueueInv, ~split PROVE DeliveredIntact /\
               (ring = <<>> /\ Owed = 0 /\ poll = "idle" => Len(delivered) = Len(accepted))
    BY DEF IntactUnlessSplit
  <2> DEFINE d == Len(delivered)
             a == Len(accepted)
  <2>1. TypeOK /\ PollInv
    BY DEF QueueInv
  <2>2. PICK u \in Seq(Words) : Stream = u \o Tape /\ DeliveredWhole(Len(u))
    BY DEF QueueInv, TapeInv
  <2>3. ASSUME ring = <<>>, Owed = 0, poll = "idle" PROVE d = a
    <3>1. temp = <<>> /\ pos = 1
      BY <2>1, <2>3 DEF PollInv
    <3>2. OwedWords = <<>>
      BY <2>1, <2>3, TapeTyped
    <3>3. Tape = <<>>
      BY <2>3, <3>1, <3>2 DEF Tape
    <3>4. Stream = u
      BY <2>2, <3>3
    <3>5. accepted \in Seq(Nat) /\ a \in Nat /\ d \in Nat
      BY <2>1, TapeTyped
    <3>6. Len(u) + 1 = Start(accepted, a + 1)
      BY <3>4, <3>5, StreamIsLaid, StreamLaidOut DEF LaidOut
    <3>7. Len(u) + 1 = Start(accepted, d + 1) /\ d <= a
      BY <2>2, <3>1 DEF DeliveredWhole
    <3> HIDE DEF d, a
    <3>8. SUFFICES ASSUME d < a PROVE FALSE
      BY <3>5, <3>7
    <3>9. d + 1 \in 1..Len(accepted) /\ a + 1 \in (d + 1 + 1)..(Len(accepted) + 1)
      BY <3>5, <3>8 DEF a
    <3>10. Start(accepted, d + 1) + accepted[d+1] + 1 <= Start(accepted, a + 1) /\ accepted[d+1] \in Nat
      BY <3>5, <3>9, StartMonotone
    <3>11. Len(u) \in Nat
      OBVIOUS
    <3> QED BY <3>6, <3>7, <3>10, <3>11
  <2> QED BY <2>2, <2>3 DEF DeliveredWhole
<1> QED
  BY <1>1, QueueInvariance, PTL

(* A message without payload is one write. *)
AllOneWord == \A m \in 1..Len(accepted) : accepted[m] = 0

(* Bangs, floats, symbols and MIDI messages are one write each; prints, and
   lists and typed messages with arguments, are more.  If only the former are
   sent, no poll can split one, and delivery is intact whatever the threads do. *)
THEOREM OneWordMessagesIntact ==
  ASSUME \A kind \in Kinds : Total(kind) = 0
  PROVE  Spec => [](~split /\ DeliveredIntact)
<1>1. Init => AllOneWord /\ ~split
  BY DEF Init, AllOneWord
<1>2. QueueInv /\ AllOneWord /\ ~split /\ [Next]_vars => AllOneWord' /\ ~split'
  <2> SUFFICES ASSUME QueueInv, AllOneWord, ~split, [Next]_vars
               PROVE  AllOneWord' /\ ~split'
    OBVIOUS
  <2>1. TypeOK /\ PollInv /\ TapeInv
    BY DEF QueueInv
  <2>2. CASE UNCHANGED <<accepted, split>>
    BY <2>2 DEF AllOneWord
  <2>3. ASSUME NEW t \in Threads, NEW kind \in Kinds, HookAccept(t, kind)
        PROVE  AllOneWord' /\ ~split'
    <3>1. accepted' = Append(accepted, 0) /\ split' = split
      BY <2>3 DEF HookAccept
    <3>2. accepted \in Seq(Nat)
      BY <2>1 DEF TypeOK
    <3> QED BY <3>1, <3>2 DEF AllOneWord
  <2>4. CASE PollRead
    <3> DEFINE last == ring[available]
    <3>1. available \in 1..Len(ring) /\ temp = <<>> /\ ring \in Seq(Words)
      BY <2>1, <2>4, TapeTyped DEF PollRead, PollInv
    <3>2. PICK u \in Seq(Words) : Stream = u \o Tape
      BY <2>1 DEF TapeInv
    <3>3. PICK m \in 1..Len(accepted) : \E k \in 0..accepted[m] : last = <<m, k>>
      BY <2>1, <3>1, <3>2, TapeWord
    <3>4. accepted[m] = 0
      BY <3>3 DEF AllOneWord
    <3>5. last = <<m, 0>>
      BY <3>3, <3>4
    <3>6. ~ (last[2] < accepted[last[1]])
      BY <3>4, <3>5
    <3>7. accepted' = accepted /\ split' = (split \/ last[2] < accepted[last[1]])
      BY <2>4 DEF PollRead, hook
    <3> QED BY <3>6, <3>7 DEF AllOneWord
  <2> QED
    BY <2>2, <2>3, <2>4 DEF Next, Produce, Poll, Lock, Unlock, HookWrite, HookDrop, PollAvailable,
       Dispatch, DispatchBogus, PollReturn, vars, hook
<1>3. QueueInv /\ ~split => DeliveredIntact
  BY DEF QueueInv, TapeInv, DeliveredWhole
<1> QED
  BY <1>1, <1>2, <1>3, QueueInvariance, PTL DEF Spec

-----------------------------------------------------------------------------
(* The abstract queue of whole messages. *)

Contract == INSTANCE MessageFifo WITH sent <- Len(accepted), received <- delivered

(* Until a poll splits a message, every step is one of the abstract queue. *)
ContractStep == split' \/ [Contract!Next]_(Contract!vars)

(* A hook with room accepts a message, a dispatch delivers the oldest one, and
   the abstract queue sees nothing of the other steps. *)
LEMMA StepsOfContract ==
  ASSUME QueueInv, QueueInv', [Next]_vars
  PROVE  ContractStep
<1> SUFFICES ASSUME ~split' PROVE [Contract!Next]_(Contract!vars)
  BY DEF ContractStep
<1>1. TypeOK /\ TypeOK'
  BY DEF QueueInv
<1>2. accepted \in Seq(Nat) /\ Len(accepted) \in Nat /\ delivered \in Seq(Nat) /\ Len(delivered) \in Nat
  BY <1>1 DEF TypeOK
<1>3. CASE UNCHANGED <<accepted, delivered>>
  BY <1>3 DEF Contract!vars
<1>4. ASSUME NEW t \in Threads, NEW kind \in Kinds, HookAccept(t, kind)
      PROVE  Contract!Accept
  <2>1. accepted' = Append(accepted, Total(kind)) /\ delivered' = delivered
    BY <1>4 DEF HookAccept, poller
  <2>2. Len(accepted') = Len(accepted) + 1
    BY <1>2, <2>1
  <2> QED BY <2>1, <2>2 DEF Contract!Accept
<1>5. ASSUME Dispatch \/ DispatchBogus
      PROVE  Contract!Deliver \/ UNCHANGED <<accepted, delivered>>
  <2>1. accepted' = accepted /\ (delivered' = delivered \/ Len(delivered') = Len(delivered) + 1)
    <3>1. accepted' = accepted
      BY <1>5 DEF Dispatch, DispatchBogus, hook
    <3>2. delivered' = delivered \/ \E m : delivered' = Append(delivered, m)
      BY <1>5 DEF Dispatch, DispatchBogus
    <3> QED BY <1>2, <3>1, <3>2
  <2>2. DeliveredIntact' /\ Len(delivered') <= Len(accepted') /\ DeliveredIntact
    <3>1. ~split
      BY <1>5 DEF Dispatch, DispatchBogus
    <3>2. \E b \in Nat : DeliveredWhole(b)
      <4>1. PICK u \in Seq(Words) : DeliveredWhole(Len(u))
        BY <3>1 DEF QueueInv, TapeInv
      <4>2. Len(u) \in Nat
        OBVIOUS
      <4> QED BY <4>1, <4>2
    <3>3. \E b \in Nat : DeliveredWhole(b)'
      <4>1. PICK u \in Seq(Words) : DeliveredWhole(Len(u))'
        BY DEF QueueInv, TapeInv
      <4>2. Len(u) \in Nat
        OBVIOUS
      <4> QED BY <4>1, <4>2
    <3> QED BY <3>2, <3>3 DEF DeliveredWhole
  <2>3. CASE Len(delivered') = Len(delivered) + 1
    <3> DEFINE d == Len(delivered)
    <3>1. delivered = [i \in 1..d |-> i] /\ delivered' = [i \in 1..(d+1) |-> i]
      BY <2>2, <2>3 DEF DeliveredIntact
    <3>2. [i \in 1..(d+1) |-> i] = Append([i \in 1..d |-> i], d + 1)
      <4> HIDE DEF d
      <4>1. d \in Nat
        BY <1>2 DEF d
      <4> QED BY <4>1
    <3>3. delivered' = Append(delivered, d + 1)
      BY <3>1, <3>2
    <3>4. d < Len(accepted) /\ Len(accepted') = Len(accepted)
      BY <1>2, <2>1, <2>2, <2>3
    <3> QED BY <3>3, <3>4 DEF Contract!Deliver
  <2> QED BY <2>1, <2>3
<1>6. UNCHANGED <<accepted, delivered>> \/ Dispatch \/ DispatchBogus
      \/ \E t \in Threads, kind \in Kinds : HookAccept(t, kind)
  BY DEF Next, Produce, Poll, Lock, Unlock, HookWrite, HookDrop, PollAvailable, PollRead, PollReturn,
     vars, hook, poller
<1> QED
  BY <1>3, <1>4, <1>5, <1>6 DEF Contract!Next, Contract!vars

(* The message queue implements the abstract one up to the first split. *)
THEOREM ContractUnlessSplit == Spec => Contract!Init /\ [][ContractStep]_vars
<1>1. Init => Contract!Init
  <2>1. Len(<<>>) = 0
    OBVIOUS
  <2> QED BY <2>1 DEF Init, Contract!Init
<1>2. QueueInv /\ QueueInv' /\ [Next]_vars => ContractStep
  BY StepsOfContract
<1> QED
  BY <1>1, <1>2, QueueInvariance, PTL DEF Spec

(* Without payloads it implements it for ever: bangs, floats, symbols and MIDI
   messages are never torn, lost, repeated or reordered. *)
THEOREM OneWordMessagesImplement ==
  ASSUME \A kind \in Kinds : Total(kind) = 0
  PROVE  Spec => Contract!Spec
<1>1. Init => Contract!Init
  <2>1. Len(<<>>) = 0
    OBVIOUS
  <2> QED BY <2>1 DEF Init, Contract!Init
<1>2. QueueInv /\ QueueInv' /\ [Next]_vars /\ (~split /\ DeliveredIntact)' => [Contract!Next]_(Contract!vars)
  BY StepsOfContract DEF ContractStep
<1> QED
  BY <1>1, <1>2, QueueInvariance, OneWordMessagesIntact, PTL DEF Spec, Contract!Spec
=============================================================================
