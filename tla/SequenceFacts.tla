----------------------------- MODULE SequenceFacts -----------------------------
(***************************************************************************)
(* What the proofs about several components need to know of sequences, and *)
(* the library's theorems do not say.                                      *)
(***************************************************************************)
EXTENDS Integers, Sequences, SequencesExt, TLAPS, WellFoundedInduction,
        FiniteSetTheorems, SequenceTheorems

-----------------------------------------------------------------------------
(* Flattening: FlattenSeq is a recursive function, so what it returns is   *)
(* found with the least position at which it could fail.                   *)

LEMMA LeastElement ==
  ASSUME NEW T \in SUBSET Nat, T # {}
  PROVE  \E m \in T : \A n \in T : m <= n
<1>1. PICK m \in T : \A n \in T : <<n, m>> \notin OpToRel(<, Nat)
  BY WFMin, NatLessThanWellFounded, Zenon
<1>2. \A n \in T : ~(n < m)
  BY <1>1 DEF OpToRel
<1> QED
  BY <1>2

\* The sequences that join the first 1, 2, ... members of ss.
Joins(f, ss, n) == f = [i \in 1..n |-> IF i = 1 THEN ss[i] ELSE f[i - 1] \o ss[i]]

LEMMA JoinsExist ==
  ASSUME NEW ss, NEW n \in Nat
  PROVE  \E f : Joins(f, ss, n)
<1> DEFINE T == {k \in Nat : ~\E f : Joins(f, ss, k)}
<1>1. SUFFICES ASSUME T # {} PROVE FALSE
  OBVIOUS
<1>2. PICK m \in T : \A k \in T : m <= k
  BY <1>1, LeastElement
<1>3. CASE m = 0
  <2>1. Joins([i \in 1..0 |-> ss], ss, 0)
    BY DEF Joins
  <2> QED
    BY <2>1, <1>2, <1>3
<1>4. CASE m # 0
  <2>1. m - 1 \in Nat /\ m - 1 \notin T
    BY <1>2, <1>4
  <2>2. PICK g : Joins(g, ss, m - 1)
    BY <2>1
  <2> DEFINE f == [i \in 1..m |-> IF i < m THEN g[i]
                                  ELSE IF m = 1 THEN ss[1] ELSE g[m - 1] \o ss[m]]
  <2>3. \A i \in 1..(m - 1) : g[i] = IF i = 1 THEN ss[i] ELSE g[i - 1] \o ss[i]
    BY <2>2 DEF Joins
  <2>4. \A i \in 1..m : f[i] = IF i = 1 THEN ss[i] ELSE f[i - 1] \o ss[i]
    BY <2>1, <2>3
  <2>5. Joins(f, ss, m)
    BY <2>4 DEF Joins
  <2> QED
    BY <2>5, <1>2
<1> QED
  BY <1>3, <1>4

LEMMA FlattenJoins ==
  ASSUME NEW M, NEW ss \in Seq(Seq(M)), Len(ss) # 0
  PROVE  \E f : Joins(f, ss, Len(ss)) /\ FlattenSeq(ss) = f[Len(ss)]
<1> DEFINE f == CHOOSE g : g = [i \in 1..Len(ss) |-> IF i = 1 THEN ss[i]
                                                    ELSE g[i - 1] \o ss[i]]
<1>1. \E g : Joins(g, ss, Len(ss))
  <2>1. Len(ss) \in Nat
    OBVIOUS
  <2> QED
    BY <2>1, JoinsExist
<1>2. Joins(f, ss, Len(ss))
  BY <1>1 DEF Joins
<1>3. FlattenSeq(ss) = f[Len(ss)]
  BY DEF FlattenSeq
<1> QED
  BY <1>2, <1>3

LEMMA FlattenType ==
  ASSUME NEW M, NEW ss \in Seq(Seq(M))
  PROVE  FlattenSeq(ss) \in Seq(M)
<1>1. CASE Len(ss) = 0
  <2>1. FlattenSeq(ss) = ss /\ ss = <<>>
    BY <1>1, EmptySeq DEF FlattenSeq
  <2> QED
    BY <2>1
<1>2. CASE Len(ss) # 0
  <2>1. PICK f : Joins(f, ss, Len(ss)) /\ FlattenSeq(ss) = f[Len(ss)]
    BY <1>2, FlattenJoins
  <2> DEFINE n == Len(ss)
             T == {i \in 1..n : f[i] \notin Seq(M)}
  <2>2. n \in Nat \ {0} /\ \A i \in 1..n : ss[i] \in Seq(M)
    BY <1>2, ElementOfSeq
  <2>3. \A i \in 1..n : f[i] = IF i = 1 THEN ss[i] ELSE f[i - 1] \o ss[i]
    BY <2>1 DEF Joins
  <2>4. SUFFICES ASSUME T # {} PROVE FALSE
    BY <2>1, <2>2
  <2>5. PICK m \in T : \A k \in T : m <= k
    <3>1. T \in SUBSET Nat
      BY <2>2
    <3> HIDE DEF T
    <3> QED
      BY <2>4, <3>1, LeastElement
  <2>6. CASE m = 1
    BY <2>6, <2>2, <2>3, <2>5
  <2>7. CASE m # 1
    <3>1. m - 1 \in 1..n /\ m - 1 \notin T
      BY <2>7, <2>5, <2>2
    <3>2. f[m - 1] \in Seq(M) /\ ss[m] \in Seq(M)
      BY <3>1, <2>2
    <3>3. f[m - 1] \o ss[m] \in Seq(M)
      BY <3>2, ConcatProperties
    <3> QED
      BY <3>3, <2>3, <2>7, <2>5
  <2> QED
    BY <2>6, <2>7
<1> QED
  BY <1>1, <1>2

\* flat holds the members of the first n of the short sequences ss, in their
\* order: src tells where each comes from.
Comes(src, flat, ss, n) ==
  /\ src \in [1..Len(flat) -> 1..n]
  /\ \A i, j \in 1..Len(flat) : i < j => src[i] < src[j]
  /\ \A k \in 1..Len(flat) : ss[src[k]] = <<flat[k]>>
  /\ \A i \in 1..n : ss[i] # <<>> => \E k \in 1..Len(flat) : src[k] = i

LEMMA ShortComes ==
  ASSUME NEW M, NEW s \in Seq(M), Len(s) <= 1
  PROVE  s = <<>> \/ (s = <<s[1]>> /\ s[1] \in M)
<1>1. Len(s) \in Nat
  OBVIOUS
<1>2. CASE Len(s) = 0
  BY <1>2
<1>3. CASE Len(s) = 1
  <2>1. s[1] \in M
    BY <1>3
  <2>2. s = <<s[1]>>
    BY <1>3, <2>1, SeqEqual
  <2> QED
    BY <2>1, <2>2
<1>4. \A n \in Nat : n <= 1 => n = 0 \/ n = 1
  OBVIOUS
<1> QED
  BY <1>1, <1>2, <1>3, <1>4, Zenon

LEMMA PutOneMore ==
  ASSUME NEW M, NEW flat \in Seq(M), NEW x \in M
  PROVE  /\ Len(flat \o <<x>>) = Len(flat) + 1
         /\ (flat \o <<x>>)[Len(flat) + 1] = x
         /\ \A k \in 1..Len(flat) : (flat \o <<x>>)[k] = flat[k]
OBVIOUS

\* One more short sequence.
LEMMA ComesOn ==
  ASSUME NEW M, NEW ss \in Seq(Seq(M)), NEW n \in Nat, n + 1 \in 1..Len(ss),
         Len(ss[n + 1]) <= 1, NEW flat \in Seq(M), NEW src, Comes(src, flat, ss, n)
  PROVE  \E src2 : Comes(src2, flat \o ss[n + 1], ss, n + 1)
<1> DEFINE s == ss[n + 1]
           L == Len(flat)
           new == flat \o s
<1>1. s \in Seq(M) /\ L \in Nat
  BY ElementOfSeq
<1>2. CASE s = <<>>
  <2>1. new = flat
    BY <1>1, <1>2
  <2>2. 1..n \subseteq 1..(n + 1) /\ \A i \in 1..(n + 1) : i = n + 1 \/ i \in 1..n
    OBVIOUS
  <2>3. src \in [1..L -> 1..(n + 1)]
    BY <2>2 DEF Comes
  <2>4. Comes(src, flat, ss, n + 1)
    BY <1>2, <2>2, <2>3 DEF Comes
  <2> QED
    BY <2>1, <2>4
<1>3. CASE s # <<>>
  <2>1. s = <<s[1]>> /\ s[1] \in M
    BY <1>1, <1>3, ShortComes
  <2>2. Len(new) = L + 1 /\ new[L + 1] = s[1] /\ \A k \in 1..L : new[k] = flat[k]
    BY <2>1, <1>1, PutOneMore
  <2> DEFINE src2 == [k \in 1..(L + 1) |-> IF k = L + 1 THEN n + 1 ELSE src[k]]
  <2>3. src2 \in [1..Len(new) -> 1..(n + 1)]
    BY <1>1, <2>2 DEF Comes
  <2>4. \A i, j \in 1..Len(new) : i < j => src2[i] < src2[j]
    <3>1. TAKE i, j \in 1..Len(new)
    <3>2. HAVE i < j
    <3> HIDE DEF new, L, s
    <3>3. i \in 1..L /\ j \in 1..(L + 1) /\ i \in 1..(L + 1) /\ i # L + 1
      BY <1>1, <2>2, <3>2
    <3>4. src[i] \in 1..n /\ src2[i] = src[i]
      BY <3>3 DEF Comes, L
    <3>5. CASE j = L + 1
      BY <3>3, <3>4, <3>5
    <3>6. CASE j # L + 1
      <4>1. j \in 1..L /\ src2[j] = src[j]
        BY <3>3, <3>6, <1>1
      <4> QED
        BY <3>2, <3>3, <3>4, <4>1 DEF Comes, L
    <3> QED
      BY <3>5, <3>6
  <2>5. \A k \in 1..Len(new) : ss[src2[k]] = <<new[k]>>
    BY <1>1, <2>1, <2>2 DEF Comes
  <2>6. \A i \in 1..(n + 1) : ss[i] # <<>> => \E k \in 1..Len(new) : src2[k] = i
    <3>1. TAKE i \in 1..(n + 1)
    <3>2. CASE i = n + 1
      <4>1. L + 1 \in 1..Len(new) /\ src2[L + 1] = n + 1
        BY <1>1, <2>2
      <4> QED
        BY <4>1, <3>2
    <3>3. CASE i # n + 1
      BY <1>1, <2>2, <3>3 DEF Comes
    <3> QED
      BY <3>2, <3>3
  <2>7. Comes(src2, new, ss, n + 1)
    BY <2>3, <2>4, <2>5, <2>6 DEF Comes
  <2> QED
    BY <2>7
<1> QED
  BY <1>2, <1>3

LEMMA FlattenComes ==
  ASSUME NEW M, NEW ss \in Seq(Seq(M)), \A i \in 1..Len(ss) : Len(ss[i]) <= 1
  PROVE  \E src : Comes(src, FlattenSeq(ss), ss, Len(ss))
<1>1. CASE Len(ss) = 0
  <2>1. FlattenSeq(ss) = ss /\ ss = <<>>
    BY <1>1, EmptySeq DEF FlattenSeq
  <2>2. Comes(<<>>, <<>>, <<>>, 0)
    BY DEF Comes
  <2> QED
    BY <2>1, <2>2, <1>1
<1>2. CASE Len(ss) # 0
  <2>1. PICK f : Joins(f, ss, Len(ss)) /\ FlattenSeq(ss) = f[Len(ss)]
    BY <1>2, FlattenJoins
  <2> DEFINE n == Len(ss)
             Fine(i) == f[i] \in Seq(M) /\ \E src : Comes(src, f[i], ss, i)
             T == {i \in 1..n : ~Fine(i)}
  <2>2. n \in Nat \ {0} /\ \A i \in 1..n : ss[i] \in Seq(M)
    BY <1>2, ElementOfSeq
  <2>3. \A i \in 1..n : f[i] = IF i = 1 THEN ss[i] ELSE f[i - 1] \o ss[i]
    BY <2>1 DEF Joins
  <2>4. SUFFICES ASSUME T # {} PROVE FALSE
    BY <2>1, <2>2
  <2>5. PICK m \in T : \A k \in T : m <= k
    <3>1. T \in SUBSET Nat
      BY <2>2
    <3> HIDE DEF T
    <3> QED
      BY <2>4, <3>1, LeastElement
  <2>6. CASE m = 1
    <3>1. f[1] = ss[1] /\ ss[1] \in Seq(M) /\ 1 \in 1..n
      BY <2>2, <2>3
    <3>2. Comes(<<>>, <<>>, ss, 0) /\ <<>> \in Seq(M)
      BY DEF Comes
    <3>3. \E src : Comes(src, <<>> \o ss[0 + 1], ss, 0 + 1)
      <4>1. 0 + 1 \in 1..Len(ss) /\ 0 \in Nat /\ Len(ss[0 + 1]) <= 1
        BY <3>1
      <4> QED
        BY <3>2, <4>1, ComesOn
    <3>4. <<>> \o ss[1] = ss[1]
      BY <3>1
    <3>5. Fine(1)
      BY <3>1, <3>3, <3>4
    <3> QED
      BY <3>5, <2>6, <2>5
  <2>7. CASE m # 1
    <3>1. m - 1 \in 1..n /\ m \in 1..n /\ m \in Nat /\ m - 1 \in Nat /\ (m - 1) + 1 = m
      BY <2>7, <2>2
    <3>2. Fine(m - 1)
      <4>1. m - 1 \notin T
        <5> HIDE DEF T
        <5> QED
          BY <2>5, <3>1
      <4> QED
        BY <4>1, <3>1
    <3>3. PICK src : Comes(src, f[m - 1], ss, m - 1)
      BY <3>2
    <3>4. \E src2 : Comes(src2, f[m - 1] \o ss[(m - 1) + 1], ss, (m - 1) + 1)
      <4>1. (m - 1) + 1 \in 1..Len(ss) /\ Len(ss[(m - 1) + 1]) <= 1
        BY <3>1
      <4>2. f[m - 1] \in Seq(M)
        BY <3>2
      <4> QED
        BY <3>1, <3>3, <4>1, <4>2, ComesOn
    <3>5. f[m] = f[m - 1] \o ss[m]
      BY <2>3, <2>7, <3>1
    <3>6. f[m] \in Seq(M)
      BY <3>5, <3>2, <2>2, <3>1, ConcatProperties
    <3>7. Fine(m)
      BY <3>1, <3>4, <3>5, <3>6
    <3> QED
      BY <3>7, <2>5
  <2> QED
    BY <2>6, <2>7
<1> QED
  BY <1>1, <1>2

=============================================================================
