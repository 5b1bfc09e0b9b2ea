--------------------------- MODULE ByteSequences ---------------------------
(***************************************************************************)
(* What the proofs about the programs that read and write streams have in  *)
(* common: induction, and sequences of bytes cut and put together.         *)
(***************************************************************************)
EXTENDS Integers, Sequences, SequenceTheorems, WellFoundedInduction, TLAPS

-----------------------------------------------------------------------------
(* Induction over the natural numbers, with a set in place of a predicate. *)

\* A set of numbers that is not empty has a least one.
LEMMA LeastElement ==
  ASSUME NEW T \in SUBSET Nat, T # {}
  PROVE  \E m \in T : \A k \in T : m <= k
<1>1. PICK m \in T : \A k \in T : <<k, m>> \notin OpToRel(<, Nat)
  BY NatLessThanWellFounded, WFMin, Zenon
<1>2. \A k \in T : ~(k < m)
  BY <1>1 DEF OpToRel
<1> QED
  BY <1>2

\* A set that holds 0 and the successor of each of its numbers holds them all.
LEMMA Induction ==
  ASSUME NEW S, 0 \in S, \A n \in Nat : n \in S => n + 1 \in S
  PROVE  \A n \in Nat : n \in S
<1> DEFINE T == {n \in Nat : n \notin S}
<1> SUFFICES ASSUME T # {} PROVE FALSE
  OBVIOUS
<1>1. PICK m \in T : \A k \in T : m <= k
  BY LeastElement
<1>2. m - 1 \in Nat /\ m - 1 \notin T
  BY <1>1
<1> QED
  BY <1>1, <1>2

-----------------------------------------------------------------------------
(* Sequences of bytes                                                      *)

\* One byte.
LEMMA Bytes == ASSUME NEW e \in Nat PROVE <<e>> \in Seq(Nat) /\ Len(<<e>>) = 1
OBVIOUS

\* No bytes.
LEMMA Empty == <<>> \in Seq(Nat) /\ Len(<<>>) = 0
OBVIOUS

\* A stream is its first k bytes and the rest.
LEMMA Split ==
  ASSUME NEW s \in Seq(Nat), NEW k \in 0 .. Len(s)
  PROVE  /\ SubSeq(s, 1, k) \in Seq(Nat)
         /\ Len(SubSeq(s, 1, k)) = k
         /\ \A i \in 1 .. k : SubSeq(s, 1, k)[i] = s[i]
         /\ SubSeq(s, k + 1, Len(s)) \in Seq(Nat)
         /\ SubSeq(s, 1, k) \o SubSeq(s, k + 1, Len(s)) = s
<1>1. Len(s) \in Nat /\ k \in Int /\ k + 1 \in Int
  OBVIOUS
<1>2. SubSeq(s, 1, k) \in Seq(Nat) /\ Len(SubSeq(s, 1, k)) = k
  BY <1>1
<1>3. \A i \in 1 .. k : SubSeq(s, 1, k)[i] = s[i]
  BY <1>1
<1>4. SubSeq(s, k + 1, Len(s)) \in Seq(Nat)
  BY <1>1
<1>5. SubSeq(s, 1, k) \o SubSeq(s, k + 1, Len(s)) = SubSeq(s, 1, Len(s))
  <2>1. 1 \in 1 .. Len(s) + 1 /\ k \in (1 - 1) .. Len(s) /\ Len(s) \in k .. Len(s)
    BY <1>1
  <2> QED
    BY <2>1, ConcatAdjacentSubSeq, Zenon
<1>6. SubSeq(s, 1, Len(s)) = s
  BY SubSeqFull, Zenon
<1> QED
  BY <1>2, <1>3, <1>4, <1>5, <1>6

\* A stream is its first byte and the rest.
LEMMA HeadOff ==
  ASSUME NEW p \in Seq(Nat), p # <<>>
  PROVE  /\ p[1] \in Nat
         /\ Tail(p) \in Seq(Nat)
         /\ Len(Tail(p)) = Len(p) - 1
         /\ p = <<p[1]>> \o Tail(p)
<1>1. Len(p) \in Nat /\ Len(p) >= 1
  OBVIOUS
<1>2. p[1] \in Nat
  BY <1>1
<1>3. Tail(p) \in Seq(Nat) /\ Len(Tail(p)) = Len(p) - 1
  BY <1>1
<1>4. p = <<p[1]>> \o Tail(p)
  BY <1>1, <1>2, <1>3
<1> QED
  BY <1>2, <1>3, <1>4

\* Two streams one after the other.
LEMMA Concat ==
  ASSUME NEW s \in Seq(Nat), NEW t \in Seq(Nat)
  PROVE  /\ s \o t \in Seq(Nat)
         /\ Len(s \o t) = Len(s) + Len(t)
         /\ \A i \in 1 .. Len(s) : (s \o t)[i] = s[i]
         /\ \A i \in Len(s) + 1 .. Len(s) + Len(t) : (s \o t)[i] = t[i - Len(s)]
OBVIOUS

\* Nothing adds nothing.
LEMMA Unit == ASSUME NEW s \in Seq(Nat) PROVE s \o <<>> = s /\ <<>> \o s = s
OBVIOUS

\* How three streams are grouped does not matter.
LEMMA Assoc ==
  ASSUME NEW s \in Seq(Nat), NEW t \in Seq(Nat), NEW u \in Seq(Nat)
  PROVE  (s \o t) \o u = s \o (t \o u)
BY ConcatAssociative, SMTT(30)

\* s and t, put together, are u.
Joins(s, t, u) == s \o t = u

\* The same, without nested concatenations.
LEMMA Regroup ==
  ASSUME NEW s \in Seq(Nat), NEW t \in Seq(Nat), NEW u \in Seq(Nat), NEW v, NEW a, NEW w,
         Joins(s, t, a), Joins(t, u, v), Joins(s, v, w)
  PROVE  Joins(a, u, w)
BY Assoc DEF Joins

\* What follows the same start is the same.
LEMMA Cancel ==
  ASSUME NEW s \in Seq(Nat), NEW t \in Seq(Nat), NEW u \in Seq(Nat), s \o t = s \o u
  PROVE  t = u
<1>1. /\ Len(s) \in Nat /\ Len(t) \in Nat /\ Len(u) \in Nat
      /\ Len(s) + Len(t) = Len(s) + Len(u)
  BY Concat
<1>2. Len(t) = Len(u)
  BY <1>1
<1>3. ASSUME NEW i \in 1 .. Len(t) PROVE t[i] = u[i]
  <2> DEFINE j == i + Len(s)
  <2>1. j \in Len(s) + 1 .. Len(s) + Len(t) /\ j \in Len(s) + 1 .. Len(s) + Len(u) /\ j - Len(s) = i
    BY <1>1, <1>2
  <2> HIDE DEF j
  <2>2. (s \o t)[j] = t[j - Len(s)] /\ (s \o u)[j] = u[j - Len(s)]
    BY <2>1, Concat, Zenon
  <2> QED
    BY <2>1, <2>2
<1> QED
  BY <1>2, <1>3, SeqEqual, Zenon

\* What follows a single element does not change it.
LEMMA FirstOf ==
  ASSUME NEW s \in Seq(Nat), NEW t \in Seq(Nat), Len(s) = 1
  PROVE  (s \o t)[1] = s[1]
<1>1. 1 \in 1 .. Len(s)
  OBVIOUS
<1>2. \A i \in 1 .. Len(s) : (s \o t)[i] = s[i]
  BY Concat
<1> QED
  BY <1>1, <1>2, Zenon

\* A start p of a stream, without the first byte: r still follows it.
LEMMA TailOfPrefix ==
  ASSUME NEW e \in Nat, NEW u \in Seq(Nat), NEW p \in Seq(Nat), p # <<>>, NEW r \in Seq(Nat),
         p \o r = <<e>> \o u
  PROVE  Joins(Tail(p), r, u)
<1> DEFINE t == Tail(p)
           one == <<p[1]>>
           two == <<e>>
<1>1. p[1] \in Nat /\ t \in Seq(Nat) /\ p = one \o t
  BY HeadOff, Zenon
<1>2. one \in Seq(Nat) /\ two \in Seq(Nat) /\ Len(one) = 1 /\ Len(two) = 1 /\ one[1] = p[1] /\ two[1] = e
  BY <1>1
<1>3. t \o r \in Seq(Nat)
  BY <1>1, Concat, Zenon
<1> HIDE DEF t, one, two
<1>4. p \o r = two \o u
  BY DEF two
<1> DEFINE v == t \o r
<1>5. v \in Seq(Nat) /\ Joins(one, t, p) /\ Joins(t, r, v)
  BY <1>1, <1>3, Zenon DEF Joins
<1> HIDE DEF v
<1>6. v \in Seq(Nat) /\ one \o v = two \o u
  <2>1. Joins(one, v, one \o v)
    BY DEF Joins
  <2>2. Joins(p, r, one \o v)
    BY <1>1, <1>2, <1>5, <2>1, Regroup
  <2> QED
    BY <1>4, <1>5, <2>2, Zenon DEF Joins
<1>7. (one \o v)[1] = one[1] /\ (two \o u)[1] = two[1]
  BY <1>2, <1>6, FirstOf, Zenon
<1>8. one = two
  <2>1. p[1] = e
    BY <1>2, <1>6, <1>7, Zenon
  <2> QED
    BY <2>1 DEF one, two
<1>9. v = u
  BY <1>2, <1>6, <1>8, Cancel
<1> QED
  BY <1>9 DEF v, t, Joins

=============================================================================
