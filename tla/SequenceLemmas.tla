--------------------------- MODULE SequenceLemmas ---------------------------
(***************************************************************************)
(* What FlattenSeq and the sum FoldLeft(+, 0, _) of the community modules  *)
(* compute, for sequences of any length.  Both are recursive functions of  *)
(* that length.  Induction over it is done without the library's rule,     *)
(* whose parameter is an operator: a set of numbers that holds 0 and each  *)
(* number's successor holds them all, since < is well-founded.             *)
(***************************************************************************)
EXTENDS Integers, Sequences, SequencesExt, SequenceTheorems, WellFoundedInduction, TLAPS

(* Induction, over a set. *)
LEMMA NatSetInduction ==
  ASSUME NEW S, 0 \in S, \A n \in Nat : n \in S => n + 1 \in S
  PROVE  Nat \subseteq S
<1> DEFINE R == OpToRel(<, Nat)
           T == Nat \ S
<1>1. SUFFICES ASSUME T # {} PROVE FALSE
  OBVIOUS
<1>2. IsWellFoundedOn(R, Nat)
  BY NatLessThanWellFounded
<1>3. T \subseteq Nat
  OBVIOUS
<1>4. \A x, y \in Nat : <<y, x>> \in R <=> y < x
  BY DEF OpToRel
<1>5. PICK x \in T : \A y \in T : ~ (<<y, x>> \in R)
  <2> HIDE DEF R, T
  <2> QED BY <1>1, <1>2, <1>3, WFMin
<1>6. x # 0 /\ x - 1 \in Nat /\ x - 1 < x /\ x - 1 \notin S
  OBVIOUS
<1> QED
  BY <1>4, <1>5, <1>6

-----------------------------------------------------------------------------
(* Flattening. *)

(* f[i] is the concatenation of the first i sequences of s. *)
IsFlattening(f, s, n) == f = [i \in 1..n |-> IF i = 1 THEN s[i] ELSE f[i-1] \o s[i]]

(* The recursion that defines FlattenSeq has a solution. *)
LEMMA FlatteningExists ==
  ASSUME NEW s
  PROVE  \A n \in Nat : \E f : IsFlattening(f, s, n)
<1> DEFINE S == {n \in Nat : \E f : IsFlattening(f, s, n)}
<1>1. 0 \in S
  <2> DEFINE f == [i \in {} |-> 0]
  <2>1. IsFlattening(f, s, 0)
    BY DEF IsFlattening
  <2> QED BY <2>1
<1>2. ASSUME NEW n \in Nat, n \in S PROVE n + 1 \in S
  <2>1. PICK f : IsFlattening(f, s, n)
    BY <1>2
  <2> DEFINE last == IF n = 0 THEN s[1] ELSE f[n] \o s[n+1]
             g == [i \in 1..(n+1) |-> IF i = n + 1 THEN last ELSE f[i]]
             h == [i \in 1..(n+1) |-> IF i = 1 THEN s[i] ELSE g[i-1] \o s[i]]
  <2>2. ASSUME NEW i \in 1..(n+1) PROVE g[i] = h[i]
    <3>1. CASE i = n + 1
      <4>1. n # 0 => n \in 1..(n+1) /\ g[n] = f[n]
        OBVIOUS
      <4> QED BY <3>1, <4>1
    <3>2. CASE i # n + 1
      <4>1. i \in 1..n /\ g[i] = f[i]
        BY <3>2
      <4>2. f[i] = IF i = 1 THEN s[i] ELSE f[i-1] \o s[i]
        BY <2>1, <4>1 DEF IsFlattening
      <4>3. i # 1 => i - 1 \in 1..(n+1) /\ i - 1 # n + 1 /\ g[i-1] = f[i-1]
        OBVIOUS
      <4> QED BY <4>1, <4>2, <4>3
    <3> QED BY <3>1, <3>2
  <2>3. g = h
    BY <2>2
  <2>4. IsFlattening(g, s, n + 1)
    BY <2>3 DEF IsFlattening
  <2> QED BY <2>4
<1> QED
  <2> HIDE DEF S
  <2>1. Nat \subseteq S BY <1>1, <1>2, NatSetInduction
  <2> QED BY <2>1 DEF S

(* FlattenSeq is the last value of that solution. *)
LEMMA FlattenSeqValue ==
  ASSUME NEW W, NEW s \in Seq(W), s # <<>>
  PROVE  \E f : IsFlattening(f, s, Len(s)) /\ FlattenSeq(s) = f[Len(s)]
<1> DEFINE F == CHOOSE f : IsFlattening(f, s, Len(s))
<1>1. IsFlattening(F, s, Len(s))
  <2>1. Len(s) \in Nat OBVIOUS
  <2>2. \E f : IsFlattening(f, s, Len(s)) BY <2>1, FlatteningExists
  <2> QED BY <2>2
<1>2. FlattenSeq(s) = F[Len(s)]
  BY DEF FlattenSeq, IsFlattening
<1> QED BY <1>1, <1>2

(* One step of that recursion. *)
LEMMA FlatteningStep ==
  ASSUME NEW s, NEW f, NEW n \in Nat, IsFlattening(f, s, n), NEW i \in 1..n
  PROVE  f[i] = IF i = 1 THEN s[i] ELSE f[i-1] \o s[i]
  BY DEF IsFlattening

(* Two solutions agree as far as their sequences do, and their values are
   sequences over the same set. *)
LEMMA FlatteningsAgree ==
  ASSUME NEW W, NEW s \in Seq(Seq(W)), NEW t \in Seq(Seq(W)), NEW f, NEW g,
         NEW m \in Nat, m <= Len(s), m <= Len(t), \A i \in 1..m : s[i] = t[i],
         IsFlattening(f, s, Len(s)), IsFlattening(g, t, Len(t))
  PROVE  \A i \in 1..m : f[i] = g[i] /\ f[i] \in Seq(W)
<1> DEFINE S == {n \in Nat : \A i \in 1..m : i <= n => f[i] = g[i] /\ f[i] \in Seq(W)}
<1>1. 0 \in S
  OBVIOUS
<1>2. ASSUME NEW n \in Nat, n \in S PROVE n + 1 \in S
  <2> SUFFICES ASSUME n + 1 \in 1..m PROVE f[n+1] = g[n+1] /\ f[n+1] \in Seq(W)
    BY <1>2
  <2>1. /\ f[n+1] = IF n + 1 = 1 THEN s[n+1] ELSE f[n] \o s[n+1]
        /\ g[n+1] = IF n + 1 = 1 THEN t[n+1] ELSE g[n] \o t[n+1]
    <3>1. Len(s) \in Nat /\ Len(t) \in Nat /\ n + 1 \in 1..Len(s) /\ n + 1 \in 1..Len(t)
      OBVIOUS
    <3>2. f[n+1] = IF n + 1 = 1 THEN s[n+1] ELSE f[n+1-1] \o s[n+1]
      BY <3>1, FlatteningStep
    <3>3. g[n+1] = IF n + 1 = 1 THEN t[n+1] ELSE g[n+1-1] \o t[n+1]
      BY <3>1, FlatteningStep
    <3>4. n + 1 - 1 = n
      OBVIOUS
    <3> QED BY <3>2, <3>3, <3>4
  <2>2. s[n+1] = t[n+1] /\ s[n+1] \in Seq(W)
    OBVIOUS
  <2>3. n # 0 => f[n] = g[n] /\ f[n] \in Seq(W)
    BY <1>2
  <2> QED BY <2>1, <2>2, <2>3
<1> QED
  <2> HIDE DEF S
  <2>1. Nat \subseteq S BY <1>1, <1>2, NatSetInduction
  <2>2. \A i \in 1..m : i \in S BY <2>1
  <2>3. \A i \in 1..m : i \in S => f[i] = g[i] /\ f[i] \in Seq(W) BY DEF S
  <2> QED BY <2>2, <2>3

(* No sequences: nothing. *)
LEMMA FlattenEmpty == FlattenSeq(<<>>) = <<>>
  BY DEF FlattenSeq

(* Flattening sequences over a set gives a sequence over it. *)
LEMMA FlattenType ==
  ASSUME NEW W, NEW s \in Seq(Seq(W))
  PROVE  FlattenSeq(s) \in Seq(W)
<1>1. CASE s = <<>>
  <2>1. FlattenSeq(s) = <<>> BY <1>1, FlattenEmpty
  <2>2. <<>> \in Seq(W) OBVIOUS
  <2> QED BY <2>1, <2>2
<1>2. CASE s # <<>>
  <2>1. PICK f : IsFlattening(f, s, Len(s)) /\ FlattenSeq(s) = f[Len(s)]
    BY <1>2, FlattenSeqValue
  <2>2. Len(s) \in Nat /\ Len(s) \in 1..Len(s)
    BY <1>2
  <2>3. f[Len(s)] \in Seq(W)
    <3>1. \A i \in 1..Len(s) : f[i] = f[i] /\ f[i] \in Seq(W)
      BY <2>1, <2>2, FlatteningsAgree
    <3> QED BY <2>2, <3>1
  <2> QED BY <2>1, <2>3
<1> QED BY <1>1, <1>2

(* One sequence: itself. *)
LEMMA FlattenSingle ==
  ASSUME NEW W, NEW x \in Seq(W)
  PROVE  FlattenSeq(<<x>>) = x
<1>1. <<x>> \in Seq(Seq(W)) /\ <<x>> # <<>> /\ Len(<<x>>) = 1
  OBVIOUS
<1>2. PICK f : IsFlattening(f, <<x>>, 1) /\ FlattenSeq(<<x>>) = f[1]
  BY <1>1, FlattenSeqValue
<1>3. f[1] = x
  BY <1>2 DEF IsFlattening
<1> QED BY <1>2, <1>3

(* One more sequence at the end. *)
LEMMA FlattenAppend ==
  ASSUME NEW W, NEW s \in Seq(Seq(W)), NEW x \in Seq(W)
  PROVE  FlattenSeq(Append(s, x)) = FlattenSeq(s) \o x
<1>1. CASE s = <<>>
  <2>1. Append(s, x) = <<x>>
    BY <1>1
  <2> QED BY <1>1, <2>1, FlattenEmpty, FlattenSingle
<1>2. CASE s # <<>>
  <2> DEFINE t == Append(s, x)
  <2>1. t \in Seq(Seq(W)) /\ t # <<>> /\ Len(t) = Len(s) + 1 /\ t[Len(t)] = x
    <3>1. t \in Seq(Seq(W)) /\ Len(t) = Len(s) + 1 /\ Len(s) + 1 > 0
      OBVIOUS
    <3>2. t[Len(s) + 1] = x
      OBVIOUS
    <3>3. t # <<>>
      BY <3>1
    <3> QED BY <3>1, <3>2, <3>3
  <2>2. Len(s) \in Nat /\ Len(s) >= 1 /\ \A i \in 1..Len(s) : s[i] = t[i]
    BY <1>2
  <2>3. PICK f : IsFlattening(f, s, Len(s)) /\ FlattenSeq(s) = f[Len(s)]
    BY <1>2, FlattenSeqValue
  <2>4. PICK g : IsFlattening(g, t, Len(t)) /\ FlattenSeq(t) = g[Len(t)]
    <3> HIDE DEF t
    <3> QED BY <2>1, FlattenSeqValue
  <2>5. g[Len(t)] = g[Len(s)] \o x
    <3> HIDE DEF t
    <3>1. Len(t) \in 1..Len(t) /\ Len(t) # 1 /\ Len(t) - 1 = Len(s)
      BY <2>1, <2>2
    <3> QED BY <2>1, <2>4, <3>1 DEF IsFlattening
  <2>6. f[Len(s)] = g[Len(s)]
    <3> HIDE DEF t
    <3>1. Len(s) <= Len(s) /\ Len(s) <= Len(t) /\ Len(s) \in 1..Len(s)
      BY <2>1, <2>2
    <3>2. \A i \in 1..Len(s) : f[i] = g[i] /\ f[i] \in Seq(W)
      BY <2>1, <2>2, <2>3, <2>4, <3>1, FlatteningsAgree
    <3> QED BY <3>1, <3>2
  <2> QED BY <2>3, <2>4, <2>5, <2>6
<1> QED BY <1>1, <1>2
(* A sequence is what its last element is appended to. *)
LEMMA SeqSplitLast ==
  ASSUME NEW T, NEW s \in Seq(T), NEW n \in Nat, Len(s) = n + 1
  PROVE  /\ SubSeq(s, 1, n) \in Seq(T) /\ Len(SubSeq(s, 1, n)) = n
         /\ s[n+1] \in T
         /\ s = Append(SubSeq(s, 1, n), s[n+1])
<1> DEFINE u == SubSeq(s, 1, n)
<1>1. u \in Seq(T) /\ Len(u) = n /\ \A i \in 1..n : u[i] = s[i]
  OBVIOUS
<1>2. s[n+1] \in T
  OBVIOUS
<1>3. Append(u, s[n+1]) \in Seq(T) /\ Len(Append(u, s[n+1])) = n + 1
  <2> HIDE DEF u
  <2> QED BY <1>1, <1>2
<1>4. \A i \in 1..(n+1) : Append(u, s[n+1])[i] = s[i]
  <2> HIDE DEF u
  <2> QED BY <1>1, <1>2
<1>5. s = Append(u, s[n+1])
  <2> HIDE DEF u
  <2> QED BY <1>3, <1>4, SeqEqual
<1> QED BY <1>1, <1>2, <1>5

(* Flattening one list of sequences after another. *)
LEMMA FlattenConcat ==
  ASSUME NEW W, NEW s \in Seq(Seq(W)), NEW t \in Seq(Seq(W))
  PROVE  FlattenSeq(s \o t) = FlattenSeq(s) \o FlattenSeq(t)
<1> DEFINE Holds(u) == FlattenSeq(s \o u) = FlattenSeq(s) \o FlattenSeq(u)
           S == {n \in Nat : \A u \in Seq(Seq(W)) : Len(u) = n => Holds(u)}
<1>1. 0 \in S
  <2> SUFFICES ASSUME NEW u \in Seq(Seq(W)), Len(u) = 0 PROVE Holds(u)
    OBVIOUS
  <2>1. u = <<>> /\ s \o u = s
    OBVIOUS
  <2>2. FlattenSeq(s) \in Seq(W) /\ FlattenSeq(u) = <<>>
    BY <2>1, FlattenType, FlattenEmpty
  <2>3. FlattenSeq(s) \o <<>> = FlattenSeq(s)
    BY <2>2
  <2> QED BY <2>1, <2>2, <2>3
<1>2. ASSUME NEW n \in Nat, n \in S PROVE n + 1 \in S
  <2> SUFFICES ASSUME NEW u \in Seq(Seq(W)), Len(u) = n + 1 PROVE Holds(u)
    OBVIOUS
  <2>1. PICK v \in Seq(Seq(W)), y \in Seq(W) : Len(v) = n /\ u = Append(v, y)
    <3>1. /\ SubSeq(u, 1, n) \in Seq(Seq(W)) /\ Len(SubSeq(u, 1, n)) = n /\ u[n+1] \in Seq(W)
          /\ u = Append(SubSeq(u, 1, n), u[n+1])
      BY SeqSplitLast
    <3> QED BY <3>1
  <2>2. Holds(v)
    BY <1>2, <2>1
  <2>3. s \o u = Append(s \o v, y) /\ s \o v \in Seq(Seq(W))
    <3>1. v \in Seq(Seq(W)) /\ <<y>> \in Seq(Seq(W)) /\ u = v \o <<y>>
      BY <2>1
    <3>2. s \o u = (s \o v) \o <<y>>
      BY <3>1, ConcatAssociative, SMTT(60)
    <3>3. s \o v \in Seq(Seq(W))
      BY <3>1
    <3>4. (s \o v) \o <<y>> = Append(s \o v, y)
      BY <3>3
    <3> QED BY <3>2, <3>3, <3>4
  <2>4. /\ FlattenSeq(s \o u) = FlattenSeq(s \o v) \o y
        /\ FlattenSeq(u) = FlattenSeq(v) \o y
    BY <2>1, <2>3, FlattenAppend
  <2>5. FlattenSeq(s) \in Seq(W) /\ FlattenSeq(v) \in Seq(W)
    BY FlattenType
  <2>6. (FlattenSeq(s) \o FlattenSeq(v)) \o y = FlattenSeq(s) \o (FlattenSeq(v) \o y)
    <3> DEFINE a == FlattenSeq(s)
               b == FlattenSeq(v)
    <3>1. a \in Seq(W) /\ b \in Seq(W)
      BY <2>5
    <3> HIDE DEF a, b
    <3>2. (a \o b) \o y = a \o (b \o y)
      BY <3>1, ConcatAssociative, SMTT(60)
    <3> QED BY <3>2 DEF a, b
  <2> QED BY <2>2, <2>4, <2>6
<1> QED
  <2> HIDE DEF S, Holds
  <2>1. Nat \subseteq S BY <1>1, <1>2, NatSetInduction
  <2>2. Len(t) \in S BY <2>1
  <2>3. Holds(t) BY <2>2 DEF S
  <2> QED BY <2>3 DEF Holds

(* Taking the first sequence off. *)
LEMMA FlattenTail ==
  ASSUME NEW W, NEW s \in Seq(Seq(W)), s # <<>>
  PROVE  /\ Head(s) \in Seq(W) /\ Tail(s) \in Seq(Seq(W))
         /\ FlattenSeq(s) = Head(s) \o FlattenSeq(Tail(s))
<1>1. Head(s) \in Seq(W) /\ Tail(s) \in Seq(Seq(W))
  OBVIOUS
<1>2. <<Head(s)>> \in Seq(Seq(W)) /\ s = <<Head(s)>> \o Tail(s)
  BY <1>1
<1>3. FlattenSeq(s) = FlattenSeq(<<Head(s)>>) \o FlattenSeq(Tail(s))
  BY <1>1, <1>2, FlattenConcat
<1>4. FlattenSeq(<<Head(s)>>) = Head(s)
  BY <1>1, FlattenSingle
<1> QED
  BY <1>1, <1>3, <1>4

-----------------------------------------------------------------------------
(* Sums. *)

(* it[S] is the sum of the elements of s at the positions in S. *)
IsSummation(it, s, n) ==
  it = [S \in SUBSET (1..n) |-> IF S = {} THEN 0 ELSE LET x == Max(S) IN it[S \ {x}] + s[x]]

(* The recursion that defines the sum has a solution. *)
LEMMA SummationExists ==
  ASSUME NEW s
  PROVE  \A n \in Nat : \E it : IsSummation(it, s, n)
<1> DEFINE N == {n \in Nat : \E it : IsSummation(it, s, n)}
<1>1. 0 \in N
  <2> DEFINE it == [S \in SUBSET (1..0) |-> 0]
             jt == [S \in SUBSET (1..0) |-> IF S = {} THEN 0 ELSE LET x == Max(S) IN it[S \ {x}] + s[x]]
  <2>1. 1..0 = {}
    OBVIOUS
  <2>2. it = jt
    BY <2>1
  <2>3. IsSummation(it, s, 0)
    BY <2>2 DEF IsSummation
  <2> QED BY <2>3
<1>2. ASSUME NEW n \in Nat, n \in N PROVE n + 1 \in N
  <2>1. PICK it : IsSummation(it, s, n)
    BY <1>2
  <2> DEFINE jt == [S \in SUBSET (1..(n+1)) |-> IF n + 1 \in S THEN it[S \ {n+1}] + s[n+1] ELSE it[S]]
             kt == [S \in SUBSET (1..(n+1)) |->
                      IF S = {} THEN 0 ELSE LET x == Max(S) IN jt[S \ {x}] + s[x]]
  <2>2. ASSUME NEW S \in SUBSET (1..(n+1)) PROVE jt[S] = kt[S]
    <3>1. CASE n + 1 \in S
      <4>1. Max(S) = n + 1
        <5>1. \A y \in S : n + 1 >= y
          OBVIOUS
        <5>2. \A x \in S : (\A y \in S : x >= y) => x = n + 1
          BY <3>1
        <5> QED BY <3>1, <5>1, <5>2 DEF Max
      <4>2. jt[S \ {n+1}] = it[S \ {n+1}]
        OBVIOUS
      <4> QED BY <3>1, <4>1, <4>2
    <3>2. CASE n + 1 \notin S
      <4>1. S \in SUBSET (1..n)
        BY <3>2
      <4>2. it[S] = IF S = {} THEN 0 ELSE it[S \ {Max(S)}] + s[Max(S)]
        BY <2>1, <4>1 DEF IsSummation
      <4>3. jt[S] = it[S] /\ jt[S \ {Max(S)}] = it[S \ {Max(S)}]
        BY <3>2
      <4>4. kt[S] = IF S = {} THEN 0 ELSE jt[S \ {Max(S)}] + s[Max(S)]
        OBVIOUS
      <4> QED BY <4>2, <4>3, <4>4
    <3> QED BY <3>1, <3>2
  <2>3. jt = kt
    BY <2>2
  <2>4. IsSummation(jt, s, n + 1)
    BY <2>3 DEF IsSummation
  <2> QED BY <2>4
<1> QED
  <2> HIDE DEF N
  <2>1. Nat \subseteq N BY <1>1, <1>2, NatSetInduction
  <2> QED BY <2>1 DEF N

SumOf(s) == FoldLeft(+, 0, s)

(* SumOf(s) is the value of that solution at all positions. *)
LEMMA SumValue ==
  ASSUME NEW T, NEW s \in Seq(T)
  PROVE  \E it : IsSummation(it, s, Len(s)) /\ SumOf(s) = it[1..Len(s)]
<1> DEFINE I == CHOOSE it : IsSummation(it, s, Len(s))
<1>1. IsSummation(I, s, Len(s))
  <2>1. Len(s) \in Nat OBVIOUS
  <2>2. \E it : IsSummation(it, s, Len(s)) BY <2>1, SummationExists
  <2> QED BY <2>2
<1>2. DOMAIN s = 1..Len(s)
  OBVIOUS
<1>3. SumOf(s) = I[1..Len(s)]
  BY <1>2 DEF SumOf, FoldLeft, MapThenFoldSet, IsSummation
<1> QED BY <1>1, <1>3

(* What the solution says of the first i + 1 positions. *)
LEMMA SummationStep ==
  ASSUME NEW s, NEW it, NEW n \in Nat, IsSummation(it, s, n), NEW i \in Nat, i < n
  PROVE  it[1..(i+1)] = it[1..i] + s[i+1]
<1> DEFINE k == i + 1
<1>1. 1..k \in SUBSET (1..n) /\ 1..k # {}
  OBVIOUS
<1>2. Max(1..k) = k
  <2>1. \A y \in 1..k : k >= y
    OBVIOUS
  <2>2. \A x \in 1..k : (\A y \in 1..k : x >= y) => x = k
    OBVIOUS
  <2> QED BY <2>1, <2>2 DEF Max
<1>3. (1..k) \ {k} = 1..i
  OBVIOUS
<1>4. it[1..k] = LET x == Max(1..k) IN it[(1..k) \ {x}] + s[x]
  BY <1>1 DEF IsSummation
<1> QED
  BY <1>2, <1>3, <1>4

(* ... and of no position. *)
LEMMA SummationEmpty ==
  ASSUME NEW s, NEW it, NEW n \in Nat, IsSummation(it, s, n)
  PROVE  it[1..0] = 0
<1>1. 1..0 = {} /\ 1..0 \in SUBSET (1..n)
  OBVIOUS
<1> QED
  BY <1>1 DEF IsSummation

(* Two solutions agree as far as their sequences do, and on natural numbers
   their values are natural numbers. *)
LEMMA SummationsAgree ==
  ASSUME NEW s \in Seq(Nat), NEW t \in Seq(Nat), NEW it, NEW jt,
         NEW m \in Nat, m <= Len(s), m <= Len(t), \A i \in 1..m : s[i] = t[i],
         IsSummation(it, s, Len(s)), IsSummation(jt, t, Len(t))
  PROVE  it[1..m] = jt[1..m] /\ it[1..m] \in Nat
<1> DEFINE N == {n \in Nat : n <= m => it[1..n] = jt[1..n] /\ it[1..n] \in Nat}
<1>0. Len(s) \in Nat /\ Len(t) \in Nat
  OBVIOUS
<1>1. 0 \in N
  <2>1. it[1..0] = 0 /\ jt[1..0] = 0
    BY <1>0, SummationEmpty
  <2> QED BY <2>1
<1>2. ASSUME NEW n \in Nat, n \in N PROVE n + 1 \in N
  <2> SUFFICES ASSUME n + 1 <= m PROVE it[1..(n+1)] = jt[1..(n+1)] /\ it[1..(n+1)] \in Nat
    OBVIOUS
  <2>1. n < Len(s) /\ n < Len(t) /\ n + 1 \in 1..Len(s) /\ n + 1 \in 1..m
    BY <1>0
  <2>2. it[1..(n+1)] = it[1..n] + s[n+1]
    BY <1>0, <2>1, SummationStep
  <2>5. jt[1..(n+1)] = jt[1..n] + t[n+1]
    BY <1>0, <2>1, SummationStep
  <2>3. s[n+1] = t[n+1] /\ s[n+1] \in Nat
    BY <2>1
  <2>4. it[1..n] = jt[1..n] /\ it[1..n] \in Nat
    BY <1>2
  <2>6. it[1..(n+1)] = jt[1..(n+1)]
    BY <2>2, <2>3, <2>4, <2>5
  <2>7. it[1..n] + s[n+1] \in Nat
    BY <2>3, <2>4
  <2> QED BY <2>2, <2>6, <2>7
<1> QED
  <2> HIDE DEF N
  <2>1. m \in N BY <1>1, <1>2, NatSetInduction
  <2> QED BY <2>1 DEF N

(* The sum of no number. *)
LEMMA SumEmpty == SumOf(<<>>) = 0
<1>1. <<>> \in Seq(Nat) /\ Len(<<>>) = 0
  OBVIOUS
<1>2. PICK it : IsSummation(it, <<>>, 0) /\ SumOf(<<>>) = it[1..0]
  BY <1>1, SumValue
<1> QED
  BY <1>2, SummationEmpty

(* The sum of natural numbers is one. *)
LEMMA SumType ==
  ASSUME NEW s \in Seq(Nat)
  PROVE  SumOf(s) \in Nat
<1>1. PICK it : IsSummation(it, s, Len(s)) /\ SumOf(s) = it[1..Len(s)]
  BY SumValue
<1>2. Len(s) \in Nat /\ Len(s) <= Len(s)
  OBVIOUS
<1> QED
  BY <1>1, <1>2, SummationsAgree

(* One more number at the end. *)
LEMMA SumStep ==
  ASSUME NEW s \in Seq(Nat), NEW t \in Seq(Nat), NEW n \in Nat,
         Len(s) = n, Len(t) = n + 1, \A i \in 1..n : s[i] = t[i]
  PROVE  SumOf(t) = SumOf(s) + t[n+1]
<1>1. PICK it : IsSummation(it, s, Len(s)) /\ SumOf(s) = it[1..Len(s)]
  BY SumValue
<1>2. PICK jt : IsSummation(jt, t, Len(t)) /\ SumOf(t) = jt[1..Len(t)]
  BY SumValue
<1>3. jt[1..(n+1)] = jt[1..n] + t[n+1]
  <2>1. n < Len(t) /\ Len(t) \in Nat
    OBVIOUS
  <2> QED BY <1>2, <2>1, SummationStep
<1>4. it[1..n] = jt[1..n]
  <2>1. n <= Len(s) /\ n <= Len(t)
    OBVIOUS
  <2> QED BY <1>1, <1>2, <2>1, SummationsAgree, SMTT(60)
<1>5. SumOf(s) = it[1..n] /\ SumOf(t) = jt[1..(n+1)]
  BY <1>1, <1>2
<1> QED
  BY <1>3, <1>4, <1>5

(* ... as Append puts it there. *)
LEMMA SumAppend ==
  ASSUME NEW s \in Seq(Nat), NEW x \in Nat
  PROVE  SumOf(Append(s, x)) = SumOf(s) + x
<1>1. /\ Append(s, x) \in Seq(Nat) /\ Len(Append(s, x)) = Len(s) + 1 /\ Len(s) \in Nat
      /\ Append(s, x)[Len(s) + 1] = x /\ \A i \in 1..Len(s) : s[i] = Append(s, x)[i]
  OBVIOUS
<1> QED
  BY <1>1, SumStep

(* The sum of the first n + 1 numbers. *)
LEMMA SumPrefix ==
  ASSUME NEW s \in Seq(Nat), NEW n \in Nat, n < Len(s)
  PROVE  SumOf(SubSeq(s, 1, n+1)) = SumOf(SubSeq(s, 1, n)) + s[n+1]
<1> DEFINE u == SubSeq(s, 1, n+1)
<1>1. u \in Seq(Nat) /\ Len(u) = n + 1 /\ u[n+1] = s[n+1]
  OBVIOUS
<1>2. SubSeq(u, 1, n) = SubSeq(s, 1, n)
  OBVIOUS
<1> HIDE DEF u
<1>3. /\ SubSeq(u, 1, n) \in Seq(Nat) /\ u[n+1] \in Nat
      /\ u = Append(SubSeq(u, 1, n), u[n+1])
  BY <1>1, SeqSplitLast
<1>4. SumOf(u) = SumOf(SubSeq(u, 1, n)) + u[n+1]
  BY <1>3, SumAppend
<1> QED
  BY <1>1, <1>2, <1>4 DEF u
=============================================================================
