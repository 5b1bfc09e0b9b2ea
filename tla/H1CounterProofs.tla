-------------------------- MODULE H1CounterProofs --------------------------
(***************************************************************************)
(* Theorems about H1Counter, for every page, every tag, every size of the  *)
(* buffer and every way in which TCP cuts the page.                        *)
(***************************************************************************)
EXTENDS H1Counter, FiniteSetTheorems, ByteSequences

-----------------------------------------------------------------------------
(* Slices of a page                                                        *)

LEMMA NeedleLen == needle \in Seq(Nat) /\ Len(needle) \in Nat \ {0}
BY H1Assumption

\* The bytes i + 1 to j of a text.
Slice(text, i, j) == SubSeq(text, i + 1, j)

LEMMA SliceType ==
  ASSUME NEW u \in Seq(Nat), NEW j \in 0 .. Len(u), NEW i \in 0 .. j
  PROVE  /\ Slice(u, i, j) \in Seq(Nat)
         /\ Len(Slice(u, i, j)) = j - i
         /\ \A k \in 1 .. j - i : Slice(u, i, j)[k] = u[i + k]
<1>1. /\ i \in Int /\ j \in Int /\ i + 1 \in Int /\ 1 <= i + 1 /\ i <= j /\ j <= Len(u) /\ 0 <= i
      /\ Len(u) \in Nat
  OBVIOUS
<1>2. \A k \in i + 1 .. j : u[k] \in Nat
  BY <1>1
<1>3. SubSeq(u, i + 1, j) \in Seq(Nat) /\ Len(SubSeq(u, i + 1, j)) = j - i
  BY <1>1, <1>2
<1>4. \A k \in 1 .. j - i : SubSeq(u, i + 1, j)[k] = u[i + k]
  BY <1>1
<1> QED
  BY <1>3, <1>4 DEF Slice

\* Two slices, one after the other.
LEMMA SliceJoin ==
  ASSUME NEW u \in Seq(Nat), NEW k \in 0 .. Len(u), NEW j \in 0 .. k, NEW i \in 0 .. j
  PROVE  Slice(u, i, j) \o Slice(u, j, k) = Slice(u, i, k)
<1> DEFINE a == Slice(u, i, j)
           b == Slice(u, j, k)
           c == Slice(u, i, k)
<1>0. Len(u) \in Nat /\ i \in Nat /\ j \in Nat /\ k \in Nat /\ i <= j /\ j <= k /\ k <= Len(u)
  OBVIOUS
<1>1. /\ j \in 0 .. Len(u) /\ i \in 0 .. k /\ j \in 0 .. k
  BY <1>0
<1>2. /\ a \in Seq(Nat) /\ Len(a) = j - i /\ \A l \in 1 .. j - i : a[l] = u[i + l]
      /\ b \in Seq(Nat) /\ Len(b) = k - j /\ \A l \in 1 .. k - j : b[l] = u[j + l]
      /\ c \in Seq(Nat) /\ Len(c) = k - i /\ \A l \in 1 .. k - i : c[l] = u[i + l]
  BY <1>1, SliceType, Zenon
<1> HIDE DEF a, b, c
<1>3. a \o b \in Seq(Nat) /\ Len(a \o b) = (j - i) + (k - j)
  BY <1>2, Concat, ZenonT(60)
<1>4. Len(a \o b) = Len(c)
  BY <1>0, <1>2, <1>3
<1>5. ASSUME NEW l \in 1 .. Len(c) PROVE (a \o b)[l] = c[l]
  <2>1. l \in Nat /\ l \in 1 .. k - i
    BY <1>0, <1>2
  <2>2. c[l] = u[i + l]
    BY <1>2, <2>1, Zenon
  <2>3. CASE l <= j - i
    <3>1. l \in 1 .. Len(a) /\ l \in 1 .. j - i
      BY <1>0, <1>2, <2>1, <2>3
    <3> QED
      BY <1>2, <2>2, <3>1, Concat, SMTT(30)
  <2>4. CASE ~(l <= j - i)
    <3>1. /\ l \in Len(a) + 1 .. Len(a) + Len(b) /\ l - Len(a) \in 1 .. k - j
          /\ j + (l - Len(a)) = i + l
      BY <1>0, <1>2, <2>1, <2>4
    <3>2. (a \o b)[l] = b[l - Len(a)]
      BY <1>2, <3>1, Concat, Zenon
    <3>3. b[l - Len(a)] = u[j + (l - Len(a))]
      BY <1>2, <3>1, Zenon
    <3> QED
      BY <2>2, <3>1, <3>2, <3>3, Zenon
  <2> QED
    BY <2>3, <2>4
<1>6. a \o b = c
  BY <1>2, <1>3, <1>4, <1>5, SeqEqual, Zenon
<1> QED
  BY <1>6 DEF a, b, c

\* A slice of a slice is a slice.
LEMMA SliceSlice ==
  ASSUME NEW u \in Seq(Nat), NEW j \in 0 .. Len(u), NEW i \in 0 .. j,
         NEW q \in 0 .. j - i, NEW p \in 0 .. q
  PROVE  Slice(Slice(u, i, j), p, q) = Slice(u, i + p, i + q)
<1> DEFINE a == Slice(u, i, j)
           b == Slice(a, p, q)
           c == Slice(u, i + p, i + q)
<1>0. Len(u) \in Nat /\ i \in Nat /\ j \in Nat /\ p \in Nat /\ q \in Nat
      /\ i <= j /\ j <= Len(u) /\ p <= q /\ q <= j - i
  OBVIOUS
<1>1. i + q \in 0 .. Len(u) /\ i + p \in 0 .. i + q
  BY <1>0
<1>2. a \in Seq(Nat) /\ Len(a) = j - i /\ \A l \in 1 .. j - i : a[l] = u[i + l]
  BY SliceType, Zenon
<1> HIDE DEF a
<1>3. q \in 0 .. Len(a) /\ p \in 0 .. q
  BY <1>2
<1>4. b \in Seq(Nat) /\ Len(b) = q - p /\ \A l \in 1 .. q - p : b[l] = a[p + l]
  BY <1>2, <1>3, SliceType, Zenon
<1>5. /\ c \in Seq(Nat) /\ Len(c) = (i + q) - (i + p)
      /\ \A l \in 1 .. (i + q) - (i + p) : c[l] = u[(i + p) + l]
  BY <1>1, SliceType, Zenon
<1> HIDE DEF b, c
<1>6. (i + q) - (i + p) = q - p
  BY <1>0
<1>7. ASSUME NEW l \in 1 .. Len(b) PROVE b[l] = c[l]
  <2>1. /\ l \in 1 .. q - p /\ l \in 1 .. (i + q) - (i + p) /\ p + l \in 1 .. j - i
        /\ i + (p + l) = (i + p) + l
    BY <1>0, <1>4
  <2> QED
    BY <1>2, <1>4, <1>5, <2>1, Zenon
<1>8. b = c
  BY <1>4, <1>5, <1>6, <1>7, SeqEqual, Zenon
<1> QED
  BY <1>8 DEF a, b, c

LEMMA SliceFull == ASSUME NEW u \in Seq(Nat) PROVE Slice(u, 0, Len(u)) = u
<1>1. 0 + 1 = 1
  OBVIOUS
<1> QED
  BY <1>1, SubSeqFull, Zenon DEF Slice

LEMMA SliceEmpty == ASSUME NEW u \in Seq(Nat), NEW i \in 0 .. Len(u) PROVE Slice(u, i, i) = <<>>
<1>1. i \in 0 .. i /\ i - i = 0
  OBVIOUS
<1>2. Slice(u, i, i) \in Seq(Nat) /\ Len(Slice(u, i, i)) = 0
  BY <1>1, SliceType
<1> QED
  BY <1>2, EmptySeq, Zenon

-----------------------------------------------------------------------------
(* count_occurances                                                        *)

\* The inner loop stops at one place.
Stops(haystack, i, m) ==
  /\ i + m - 1 <= Len(haystack)
  /\ \A k \in 1 .. m : haystack[i + k - 1] = needle[k]
  /\ m < Len(needle) /\ i + m <= Len(haystack) => haystack[i + m] # needle[m + 1]

LEMMA CheckReadStops ==
  ASSUME NEW h \in Seq(Nat), NEW i \in 1 .. Len(h)
  PROVE  CheckRead(h, i) \in 0 .. Len(needle) /\ Stops(h, i, CheckRead(h, i))
<1> DEFINE L == Len(needle)
           M(m) == i + m - 1 <= Len(h) /\ \A k \in 1 .. m : h[i + k - 1] = needle[k]
           T == {d \in 0 .. L : M(L - d)}
<1>0. L \in Nat /\ Len(h) \in Nat /\ i \in Nat /\ 1 <= i /\ i <= Len(h)
  BY NeedleLen
<1> HIDE DEF L
<1>1. L \in T
  BY <1>0
<1>2. T \in SUBSET Nat
  BY <1>0
<1>3. PICK d \in T : \A e \in T : d <= e
  BY <1>1, <1>2, LeastElement
<1> DEFINE m == L - d
<1>4. m \in 0 .. L /\ M(m)
  BY <1>0, <1>3
<1>5. ASSUME m < L, i + m <= Len(h), h[i + m] = needle[m + 1] PROVE FALSE
  <2>1. d - 1 \in 0 .. L /\ L - (d - 1) = m + 1 /\ d - 1 < d
    BY <1>0, <1>3, <1>5
  <2>2. M(m + 1)
    <3>1. i + (m + 1) - 1 <= Len(h)
      BY <1>0, <1>4, <1>5
    <3>2. ASSUME NEW k \in 1 .. m + 1 PROVE h[i + k - 1] = needle[k]
      <4>1. CASE k \in 1 .. m
        BY <1>4, <4>1
      <4>2. CASE k = m + 1
        <5>1. i + k - 1 = i + m
          BY <1>0, <1>4, <4>2
        <5> QED
          BY <1>5, <4>2, <5>1, Zenon
      <4> QED
        BY <1>4, <4>1, <4>2, <3>2
    <3> QED
      BY <3>1, <3>2
  <2>3. d - 1 \in T
    BY <2>1, <2>2
  <2> QED
    BY <1>3, <2>1, <2>3
<1>6. Stops(h, i, m)
  BY <1>4, <1>5 DEF Stops, L
<1>7. \E n \in 0 .. Len(needle) : Stops(h, i, n)
  BY <1>4, <1>6 DEF L
<1> QED
  BY <1>7, Zenon DEF CheckRead, Stops

\* The counts of the tags from each index on; the last index is Top.
Top(h) == Len(h) + Len(needle) + 1

Count(h, f, i) ==
  IF i > Len(h) THEN 0
  ELSE IF h[i] # needle[1] THEN f[i + 1]
  ELSE LET m == CheckRead(h, i)
       IN  (IF m = Len(needle) THEN 1 ELSE 0) + f[i + m + 1]

CountsFrom(h, f, lo) == f = [i \in lo .. Top(h) |-> Count(h, f, i)]

\* A count depends on the counts further on.
LEMMA CountIsLocal ==
  ASSUME NEW h \in Seq(Nat), NEW i \in 1 .. Top(h), NEW f, NEW g,
         \A k \in i + 1 .. Top(h) : f[k] = g[k]
  PROVE  Count(h, f, i) = Count(h, g, i)
<1>0. Len(h) \in Nat /\ Len(needle) \in Nat \ {0} /\ i \in Nat /\ 1 <= i
  BY NeedleLen DEF Top
<1>1. CASE i > Len(h)
  BY <1>1 DEF Count
<1>2. CASE ~(i > Len(h)) /\ h[i] # needle[1]
  <2>1. i + 1 \in i + 1 .. Top(h)
    BY <1>0, <1>2 DEF Top
  <2> QED
    BY <1>2, <2>1, Zenon DEF Count
<1>3. CASE ~(i > Len(h)) /\ ~(h[i] # needle[1])
  <2> DEFINE m == CheckRead(h, i)
  <2>1. i \in 1 .. Len(h)
    BY <1>0, <1>3
  <2>2. m \in 0 .. Len(needle)
    BY <2>1, CheckReadStops, Zenon
  <2> HIDE DEF m
  <2>3. i + m + 1 \in i + 1 .. Top(h)
    BY <1>0, <2>1, <2>2 DEF Top
  <2>4. f[i + m + 1] = g[i + m + 1]
    BY <2>3, Zenon
  <2> QED
    BY <1>3, <2>4, Zenon DEF Count, m
<1> QED
  BY <1>1, <1>2, <1>3, Zenon

LEMMA CountsExist == ASSUME NEW h \in Seq(Nat) PROVE \E f : CountsFrom(h, f, 1)
<1> DEFINE t == Top(h)
           S == {d \in Nat : d < t => \E f : CountsFrom(h, f, t - d)}
<1>0. Len(h) \in Nat /\ Len(needle) \in Nat \ {0} /\ t \in Nat /\ t > Len(h) /\ t >= 1
  BY NeedleLen DEF Top
<1>1. 0 \in S
  <2> DEFINE f == [i \in t .. t |-> 0]
  <2>1. \A i \in t .. t : i > Len(h)
    BY <1>0
  <2>2. \A i \in t .. t : Count(h, f, i) = 0
    BY <2>1, Zenon DEF Count
  <2>3. CountsFrom(h, f, t)
    BY <2>2, Zenon DEF CountsFrom
  <2>4. t - 0 = t
    BY <1>0
  <2> QED
    BY <2>3, <2>4
<1>2. ASSUME NEW d \in Nat, d \in S, d + 1 < t PROVE \E f : CountsFrom(h, f, t - (d + 1))
  <2> HIDE DEF t
  <2>0. d < t /\ t - d \in Int /\ t - (d + 1) \in 1 .. t /\ t - (d + 1) + 1 = t - d
    BY <1>0, <1>2
  <2>1. PICK f : CountsFrom(h, f, t - d)
    BY <1>2, <2>0
  <2> DEFINE lo == t - (d + 1)
             g == [i \in lo .. t |-> IF i = lo THEN Count(h, f, lo) ELSE f[i]]
  <2>2. lo \in Int /\ 1 <= lo /\ lo <= t /\ lo + 1 = t - d
    BY <1>0, <2>0
  <2> HIDE DEF lo
  <2>3. \A k \in lo + 1 .. t : f[k] = g[k]
    BY <1>0, <2>2
  <2>4. ASSUME NEW i \in lo .. t PROVE g[i] = Count(h, g, i)
    <3>1. i \in 1 .. Top(h) /\ \A k \in i + 1 .. Top(h) : f[k] = g[k]
      <4>1. i \in 1 .. t /\ i + 1 .. t \subseteq lo + 1 .. t
        BY <1>0, <2>2
      <4> QED
        BY <2>3, <4>1, Zenon DEF t
    <3>2. Count(h, f, i) = Count(h, g, i)
      BY <3>1, CountIsLocal, Zenon
    <3>3. CASE i = lo
      BY <3>2, <3>3
    <3>4. CASE i # lo
      <4>1. i \in lo + 1 .. t
        BY <1>0, <2>2, <3>4
      <4>2. f[i] = Count(h, f, i)
        BY <2>1, <2>2, <4>1, Zenon DEF CountsFrom, t
      <4> QED
        BY <2>3, <3>2, <4>1, <4>2, Zenon
    <3> QED
      BY <3>3, <3>4
  <2>5. g = [i \in lo .. t |-> Count(h, g, i)]
    BY <2>4
  <2>6. CountsFrom(h, g, lo)
    BY <2>5, Zenon DEF CountsFrom, t
  <2> QED
    BY <2>6 DEF lo
<1> HIDE DEF t
<1>3. \A d \in Nat : d \in S => d + 1 \in S
  BY <1>2
<1>4. t - 1 \in S
  <2> HIDE DEF S
  <2>1. \A n \in Nat : n \in S
    BY <1>1, <1>3, Induction, Zenon
  <2> QED
    BY <1>0, <2>1
<1>5. t - 1 < t /\ t - (t - 1) = 1
  BY <1>0
<1> QED
  BY <1>4, <1>5

LEMMA CountIs ==
  ASSUME NEW h \in Seq(Nat)
  PROVE  \E f : CountsFrom(h, f, 1) /\ count_occurances(h) = f[1]
<1> DEFINE from[i \in 1 .. Len(h) + Len(needle) + 1] ==
             IF i > Len(h) THEN 0
             ELSE IF h[i] # needle[1] THEN from[i + 1]
             ELSE LET m == CheckRead(h, i)
                  IN  (IF m = Len(needle) THEN 1 ELSE 0) + from[i + m + 1]
<1>1. count_occurances(h) = from[1]
  BY DEF count_occurances
<1>2. CountsFrom(h, from, 1)
  BY CountsExist DEF CountsFrom, Count, Top
<1> HIDE DEF from
<1> QED
  BY <1>1, <1>2

-----------------------------------------------------------------------------
(* No tag is counted that is not there                                     *)

\* The places at which the tag occurs in the bytes i + 1 to j.
Tags(u, i, j) ==
  {p \in i + 1 .. j - Len(needle) + 1 : \A k \in 1 .. Len(needle) : u[p + k - 1] = needle[k]}

\* Those of them that are at byte i + q or after it.
TagsFrom(u, i, j, q) == {p \in Tags(u, i, j) : p >= i + q}

LEMMA TagsFinite ==
  ASSUME NEW u \in Seq(Nat), NEW j \in 0 .. Len(u), NEW i \in 0 .. j
  PROVE  /\ IsFiniteSet(Tags(u, i, j)) /\ Cardinality(Tags(u, i, j)) \in Nat
         /\ \A q \in Nat : /\ IsFiniteSet(TagsFrom(u, i, j, q))
                           /\ Cardinality(TagsFrom(u, i, j, q)) \in Nat
                           /\ Cardinality(TagsFrom(u, i, j, q)) <= Cardinality(Tags(u, i, j))
<1>1. Len(u) \in Nat /\ i + 1 \in Int /\ j - Len(needle) + 1 \in Int
  BY NeedleLen
<1>2. IsFiniteSet(i + 1 .. j - Len(needle) + 1)
  BY <1>1, FS_Interval
<1>3. IsFiniteSet(Tags(u, i, j))
  <2>1. Tags(u, i, j) \in SUBSET (i + 1 .. j - Len(needle) + 1)
    BY Zenon DEF Tags
  <2> QED
    BY <1>2, <2>1, FS_Subset, Zenon
<1>4. ASSUME NEW q \in Nat
      PROVE  /\ IsFiniteSet(TagsFrom(u, i, j, q))
             /\ Cardinality(TagsFrom(u, i, j, q)) <= Cardinality(Tags(u, i, j))
  <2>1. TagsFrom(u, i, j, q) \in SUBSET Tags(u, i, j)
    BY Zenon DEF TagsFrom
  <2> QED
    BY <1>3, <2>1, FS_Subset, Zenon
<1> QED
  BY <1>3, <1>4, FS_CardinalityType, Zenon

\* From index q of a slice on, no more tags are counted than there are.
Honest(u, i, j, f, q) == f[q] \in Nat /\ f[q] <= Cardinality(TagsFrom(u, i, j, q))

LEMMA CountStep ==
  ASSUME NEW u \in Seq(Nat), NEW j \in 0 .. Len(u), NEW i \in 0 .. j, NEW f,
         CountsFrom(Slice(u, i, j), f, 1), NEW q \in 1 .. Top(Slice(u, i, j)),
         \A k \in q + 1 .. Top(Slice(u, i, j)) : Honest(u, i, j, f, k)
  PROVE  Honest(u, i, j, f, q)
<1> DEFINE h == Slice(u, i, j)
           L == Len(needle)
           C(k) == Cardinality(TagsFrom(u, i, j, k))
<1>1. h \in Seq(Nat) /\ Len(h) = j - i /\ \A k \in 1 .. j - i : h[k] = u[i + k]
  BY SliceType, Zenon
<1>2. f[q] = Count(h, f, q)
  BY Zenon DEF CountsFrom
<1>3. \A k \in Nat : IsFiniteSet(TagsFrom(u, i, j, k)) /\ C(k) \in Nat
  BY TagsFinite, Zenon
<1>4. \A k \in q + 1 .. Top(h) : f[k] \in Nat /\ f[k] <= C(k)
  BY Zenon DEF Honest
<1>5. q \in 1 .. Top(h)
  OBVIOUS
<1>6. SUFFICES f[q] \in Nat /\ f[q] <= C(q)
  BY DEF Honest
<1> HIDE DEF h
<1>0. /\ L \in Nat \ {0} /\ q \in Nat /\ 1 <= q /\ i \in Nat /\ j \in Nat /\ i <= j /\ Len(h) \in Nat
      /\ Top(h) = Len(h) + L + 1
  BY <1>1, <1>5, NeedleLen DEF Top
<1> HIDE DEF L
<1>7. ASSUME NEW k \in Nat, q < k PROVE TagsFrom(u, i, j, k) \subseteq TagsFrom(u, i, j, q)
  <2>1. \A p \in Tags(u, i, j) : p \in Int
    BY <1>0 DEF Tags, L
  <2> QED
    BY <1>0, <1>7, <2>1 DEF TagsFrom
<1>8. ASSUME NEW k \in Nat, q < k PROVE C(k) <= C(q)
  <2>1. TagsFrom(u, i, j, k) \in SUBSET TagsFrom(u, i, j, q)
    BY <1>7, <1>8, Zenon
  <2> QED
    BY <1>0, <1>3, <2>1, FS_Subset, Zenon
<1>9. CASE q > Len(h)
  <2>1. f[q] = 0
    BY <1>2, <1>9 DEF Count
  <2>2. C(q) \in Nat
    BY <1>0, <1>3, Zenon
  <2> HIDE DEF C
  <2> QED
    BY <2>1, <2>2
<1>10. CASE ~(q > Len(h)) /\ h[q] # needle[1]
  <2>1. f[q] = f[q + 1]
    BY <1>2, <1>10, Zenon DEF Count
  <2>2. q + 1 \in q + 1 .. Top(h) /\ q + 1 \in Nat /\ q < q + 1
    BY <1>0, <1>10
  <2>3. f[q + 1] \in Nat /\ f[q + 1] <= C(q + 1) /\ C(q + 1) <= C(q)
        /\ C(q) \in Nat /\ C(q + 1) \in Nat
    BY <1>0, <1>3, <1>4, <1>8, <2>2, Zenon
  <2> HIDE DEF C
  <2> QED
    BY <2>1, <2>3
<1>11. CASE ~(q > Len(h)) /\ ~(h[q] # needle[1])
  <2> DEFINE m == CheckRead(h, q)
             k == q + m + 1
  <2>1. q \in 1 .. Len(h)
    BY <1>0, <1>11
  <2>2. m \in 0 .. L /\ Stops(h, q, m)
    BY <1>1, <2>1, CheckReadStops, Zenon DEF L
  <2>3. f[q] = (IF m = L THEN 1 ELSE 0) + f[k]
    BY <1>2, <1>11, Zenon DEF Count, L
  <2> HIDE DEF m
  <2>4. k \in q + 1 .. Top(h) /\ k \in Nat /\ q < k
    BY <1>0, <2>1, <2>2
  <2>5. f[k] \in Nat /\ f[k] <= C(k) /\ C(k) <= C(q) /\ C(q) \in Nat /\ C(k) \in Nat
    BY <1>0, <1>3, <1>4, <1>8, <2>4, Zenon
  <2>6. CASE m # L
    <3>1. f[q] = 0 + f[k]
      BY <2>3, <2>6, Zenon
    <3> HIDE DEF C, k
    <3> QED
      BY <2>5, <3>1
  <2>7. CASE m = L
    <3> DEFINE p == i + q
    <3>1. q + L - 1 <= Len(h) /\ \A l \in 1 .. L : h[q + l - 1] = needle[l]
      BY <2>2, <2>7 DEF Stops
    <3>2. p \in i + 1 .. j - L + 1
      BY <1>0, <1>1, <3>1
    <3>3. ASSUME NEW l \in 1 .. L PROVE u[p + l - 1] = needle[l]
      <4>1. q + l - 1 \in 1 .. j - i /\ p + l - 1 = i + (q + l - 1)
        BY <1>0, <1>1, <3>1
      <4>2. h[q + l - 1] = u[i + (q + l - 1)]
        BY <1>1, <4>1, Zenon
      <4> QED
        BY <3>1, <4>1, <4>2, Zenon
    <3>4. p \in Tags(u, i, j)
      BY <3>2, <3>3, Zenon DEF Tags, L
    <3>5. p \in TagsFrom(u, i, j, q)
      <4>1. p >= i + q
        BY <1>0
      <4> QED
        BY <3>4, <4>1, Zenon DEF TagsFrom
    <3>6. p \notin TagsFrom(u, i, j, k)
      <4>1. ~(p >= i + k)
        BY <1>0, <2>4
      <4> QED
        BY <4>1, Zenon DEF TagsFrom
    <3> DEFINE Q == TagsFrom(u, i, j, k)
    <3>7. Q \cup {p} \in SUBSET TagsFrom(u, i, j, q)
      BY <1>7, <2>4, <3>5, Zenon
    <3>8. IsFiniteSet(Q) /\ p \notin Q
      BY <1>3, <2>4, <3>6, Zenon
    <3>9. Cardinality(Q \cup {p}) = Cardinality(Q) + 1
      <4> HIDE DEF Q, p
      <4> QED
        BY <3>8, FS_AddElement
    <3>10. Cardinality(Q \cup {p}) <= C(q)
      BY <1>0, <1>3, <3>7, FS_Subset, Zenon
    <3>11. C(k) + 1 <= C(q)
      BY <3>9, <3>10, Zenon
    <3>12. f[q] = 1 + f[k]
      BY <2>3, <2>7, Zenon
    <3> HIDE DEF C, k
    <3> QED
      BY <2>5, <3>11, <3>12
  <2> QED
    BY <2>6, <2>7, Zenon
<1> QED
  BY <1>9, <1>10, <1>11, Zenon

\* What count_occurances returns for a slice of the page.
LEMMA CountBound ==
  ASSUME NEW u \in Seq(Nat), NEW j \in 0 .. Len(u), NEW i \in 0 .. j
  PROVE  /\ count_occurances(Slice(u, i, j)) \in Nat
         /\ count_occurances(Slice(u, i, j)) <= Cardinality(Tags(u, i, j))
<1> DEFINE h == Slice(u, i, j)
           t == Top(h)
<1>1. h \in Seq(Nat) /\ Len(h) \in Nat
  BY SliceType, LenProperties, Zenon
<1>2. PICK f : CountsFrom(h, f, 1) /\ count_occurances(h) = f[1]
  BY <1>1, CountIs, Zenon
<1> DEFINE S == {d \in Nat : \A q \in 1 .. t : q >= t - d => Honest(u, i, j, f, q)}
<1>3. t \in Nat /\ t >= 1
  <2> HIDE DEF h
  <2> QED
    BY <1>1, NeedleLen DEF Top
<1>4. ASSUME NEW q \in 1 .. t, \A k \in q + 1 .. t : Honest(u, i, j, f, k)
      PROVE  Honest(u, i, j, f, q)
  BY <1>2, <1>4, CountStep, Zenon
<1> HIDE DEF h, t
<1>5. 0 \in S
  <2>1. ASSUME NEW q \in 1 .. t, q >= t - 0 PROVE Honest(u, i, j, f, q)
    <3>1. \A k \in q + 1 .. t : FALSE
      BY <1>3, <2>1
    <3> QED
      BY <1>4, <3>1, Zenon
  <2> QED
    BY <2>1
<1>6. ASSUME NEW d \in Nat, d \in S PROVE d + 1 \in S
  <2>1. ASSUME NEW q \in 1 .. t, q >= t - (d + 1) PROVE Honest(u, i, j, f, q)
    <3>1. \A k \in q + 1 .. t : k \in 1 .. t /\ k >= t - d
      BY <1>3, <2>1
    <3>2. \A k \in q + 1 .. t : Honest(u, i, j, f, k)
      BY <1>6, <3>1, Zenon
    <3> QED
      BY <1>4, <3>2, Zenon
  <2> QED
    BY <2>1
<1>7. t \in S
  <2> HIDE DEF S
  <2> QED
    BY <1>3, <1>5, <1>6, Induction, Zenon
<1>8. Honest(u, i, j, f, 1)
  <2>1. 1 \in 1 .. t /\ 1 >= t - t
    BY <1>3
  <2> QED
    BY <1>7, <2>1, Zenon
<1>9. f[1] \in Nat /\ f[1] <= Cardinality(TagsFrom(u, i, j, 1))
  BY <1>8 DEF Honest
<1>10. /\ Cardinality(TagsFrom(u, i, j, 1)) \in Nat /\ Cardinality(Tags(u, i, j)) \in Nat
       /\ Cardinality(TagsFrom(u, i, j, 1)) <= Cardinality(Tags(u, i, j))
  <2>1. 1 \in Nat
    OBVIOUS
  <2> QED
    BY <2>1, TagsFinite, Zenon
<1>11. f[1] <= Cardinality(Tags(u, i, j))
  BY <1>9, <1>10
<1> QED
  BY <1>2, <1>9, <1>11, Zenon DEF h

\* A tag lies in one of two parts of the page, or across both.
LEMMA TagsOfParts ==
  ASSUME NEW u \in Seq(Nat), NEW k \in 0 .. Len(u), NEW j \in 0 .. k
  PROVE  Cardinality(Tags(u, 0, j)) + Cardinality(Tags(u, j, k)) <= Cardinality(Tags(u, 0, k))
<1> DEFINE A == Tags(u, 0, j)
           B == Tags(u, j, k)
           C == Tags(u, 0, k)
<1>0. Len(u) \in Nat /\ Len(needle) \in Nat \ {0} /\ j \in Nat /\ k \in Nat /\ j <= k /\ k <= Len(u)
  BY NeedleLen
<1>1. j \in 0 .. Len(u) /\ 0 \in 0 .. j /\ 0 \in 0 .. k
  BY <1>0
<1>2. /\ IsFiniteSet(A) /\ IsFiniteSet(B) /\ IsFiniteSet(C)
      /\ Cardinality(A) \in Nat /\ Cardinality(B) \in Nat /\ Cardinality(C) \in Nat
  BY <1>1, TagsFinite, Zenon
<1>3. A \cup B \in SUBSET C
  <2>1. /\ 0 + 1 .. j - Len(needle) + 1 \subseteq 0 + 1 .. k - Len(needle) + 1
        /\ j + 1 .. k - Len(needle) + 1 \subseteq 0 + 1 .. k - Len(needle) + 1
    BY <1>0
  <2> QED
    BY <2>1, Zenon DEF Tags
<1>4. A \cap B = {}
  <2>1. \A p \in j + 1 .. k - Len(needle) + 1 : p \notin 0 + 1 .. j - Len(needle) + 1
    BY <1>0
  <2> QED
    BY <2>1, Zenon DEF Tags
<1> HIDE DEF A, B, C
<1>5. Cardinality(A \cup B) = Cardinality(A) + Cardinality(B) - Cardinality(A \cap B)
  BY <1>2, FS_Union, Zenon
<1>6. Cardinality(A \cap B) = 0
  BY <1>4, FS_EmptySet, Zenon
<1>7. Cardinality(A \cup B) <= Cardinality(C)
  BY <1>2, <1>3, FS_Subset, Zenon
<1>8. Cardinality(A) + Cardinality(B) <= Cardinality(C)
  BY <1>2, <1>5, <1>6, <1>7
<1> QED
  BY <1>8 DEF A, B, C

LEMMA OccurrencesAreTags ==
  ASSUME NEW u \in Seq(Nat), NEW j \in 0 .. Len(u)
  PROVE  Occurrences(Slice(u, 0, j)) = Tags(u, 0, j)
<1> DEFINE h == Slice(u, 0, j)
           L == Len(needle)
<1>0. Len(u) \in Nat /\ L \in Nat \ {0} /\ j \in Nat /\ j <= Len(u) /\ 0 \in 0 .. j /\ needle \in Seq(Nat)
  BY NeedleLen
<1>1. h \in Seq(Nat) /\ Len(h) = j
  <2>1. h \in Seq(Nat) /\ Len(h) = j - 0
    BY <1>0, SliceType, Zenon
  <2> QED
    BY <1>0, <2>1
<1> HIDE DEF L
<1>2. ASSUME NEW p \in 1 .. j - L + 1
      PROVE  SubSeq(h, p, p + L - 1) = needle <=> \A k \in 1 .. L : u[p + k - 1] = needle[k]
  <2> DEFINE s == Slice(u, p - 1, p + L - 1)
  <2>1. /\ p - 1 \in 0 .. p + L - 1 /\ p + L - 1 \in 0 .. Len(u) /\ p + L - 1 \in 0 .. j - 0
        /\ (p - 1) + 1 = p /\ 0 + (p - 1) = p - 1 /\ 0 + (p + L - 1) = p + L - 1
        /\ (p + L - 1) - (p - 1) = L
        /\ \A k \in 1 .. L : (p - 1) + k = p + k - 1
    BY <1>0
  <2>2. SubSeq(h, p, p + L - 1) = Slice(h, p - 1, p + L - 1)
    BY <2>1, Zenon DEF Slice
  <2>3. Slice(h, p - 1, p + L - 1) = s
    <3>1. \A q \in 0 .. j - 0 : \A r \in 0 .. q : Slice(h, r, q) = Slice(u, 0 + r, 0 + q)
      BY <1>0, SliceSlice, Zenon
    <3>2. Slice(h, p - 1, p + L - 1) = Slice(u, 0 + (p - 1), 0 + (p + L - 1))
      BY <2>1, <3>1, Zenon
    <3> QED
      BY <2>1, <3>2, Zenon
  <2>4. s \in Seq(Nat) /\ Len(s) = L /\ \A k \in 1 .. L : s[k] = u[(p - 1) + k]
    BY <2>1, SliceType, ZenonT(60)
  <2> HIDE DEF s
  <2>5. s = needle <=> \A k \in 1 .. L : s[k] = needle[k]
    <3>1. Len(needle) = L
      BY DEF L
    <3>2. ASSUME \A k \in 1 .. L : s[k] = needle[k] PROVE s = needle
      BY <1>0, <2>4, <3>1, <3>2, SeqEqual, Zenon
    <3> QED
      BY <3>2, Zenon
  <2>6. \A k \in 1 .. L : s[k] = u[p + k - 1]
    BY <2>1, <2>4, Zenon
  <2> QED
    BY <2>2, <2>3, <2>5, <2>6, Zenon
<1>3. Occurrences(h) = {p \in 1 .. j - L + 1 : SubSeq(h, p, p + L - 1) = needle}
  BY <1>1, Zenon DEF Occurrences, L
<1>4. Tags(u, 0, j) = {p \in 1 .. j - L + 1 : \A k \in 1 .. L : u[p + k - 1] = needle[k]}
  <2>1. 0 + 1 = 1
    OBVIOUS
  <2> QED
    BY <2>1, Zenon DEF Tags, L
<1> QED
  BY <1>2, <1>3, <1>4, Zenon DEF h

\* An empty buffer holds no tag.
LEMMA CountOfNothing == count_occurances(<<>>) = 0
<1> DEFINE h == <<>>
<1>0. h \in Seq(Nat) /\ Len(h) = 0
  OBVIOUS
<1> HIDE DEF h
<1>1. PICK f : CountsFrom(h, f, 1) /\ count_occurances(h) = f[1]
  BY <1>0, CountIs, Zenon
<1>2. 1 \in 1 .. Top(h) /\ 1 > Len(h)
  BY <1>0, NeedleLen DEF Top
<1>3. f[1] = Count(h, f, 1)
  BY <1>1, <1>2, Zenon DEF CountsFrom
<1>4. f[1] = 0
  BY <1>2, <1>3, Zenon DEF Count
<1> QED
  BY <1>1, <1>4 DEF h

-----------------------------------------------------------------------------
(* The count of the pieces                                                 *)

LEMMA Times ==
  ASSUME NEW a \in Nat, NEW b \in Nat, NEW n \in Nat \ {0}, a <= b
  PROVE  /\ a * n \in Nat /\ b * n \in Nat /\ a * n <= b * n /\ a <= a * n
         /\ (a + 1) * n = a * n + n
<1>1. a * n \in Nat /\ b * n \in Nat /\ (a + 1) * n = a * n + n
  OBVIOUS
<1>2. b * n = a * n + (b - a) * n /\ (b - a) * n >= 0
  OBVIOUS
<1>3. a * n = a + a * (n - 1) /\ a * (n - 1) >= 0
  OBVIOUS
<1> QED
  BY <1>1, <1>2, <1>3

Piece(u, n, k) == SubSeq(u, (k - 1) * n + 1, IF k * n < Len(u) THEN k * n ELSE Len(u))

SumAt(u, n, f, k) ==
  IF k = 0 \/ (k - 1) * n >= Len(u) THEN (IF k = 0 THEN 0 ELSE f[k - 1])
  ELSE f[k - 1] + count_occurances(Piece(u, n, k))

Sums(u, n, f, top) == f = [k \in 0 .. top |-> SumAt(u, n, f, k)]

LEMMA SumStep ==
  ASSUME NEW u, NEW n, NEW f, NEW k, k # 0
  PROVE  /\ (k - 1) * n >= Len(u) => SumAt(u, n, f, k) = f[k - 1]
         /\ ~((k - 1) * n >= Len(u)) =>
              SumAt(u, n, f, k) = f[k - 1] + count_occurances(Piece(u, n, k))
BY Zenon DEF SumAt

LEMMA SumsExist == ASSUME NEW u \in Seq(Nat), NEW n PROVE \E f : Sums(u, n, f, Len(u))
<1> DEFINE S == {t \in Nat : \E f : Sums(u, n, f, t)}
<1>1. 0 \in S
  <2> DEFINE f == [k \in 0 .. 0 |-> 0]
  <2>1. \A k \in 0 .. 0 : k = 0
    OBVIOUS
  <2>2. \A k \in 0 .. 0 : SumAt(u, n, f, k) = 0
    BY <2>1, Zenon DEF SumAt
  <2>3. Sums(u, n, f, 0)
    BY <2>2, Zenon DEF Sums
  <2> QED
    BY <2>3
<1>2. ASSUME NEW t \in Nat, t \in S PROVE t + 1 \in S
  <2>1. PICK f : Sums(u, n, f, t)
    BY <1>2
  <2> DEFINE g == [k \in 0 .. t + 1 |-> IF k = t + 1 THEN SumAt(u, n, f, t + 1) ELSE f[k]]
  <2>2. \A k \in 0 .. t : g[k] = f[k]
    OBVIOUS
  <2>3. ASSUME NEW k \in 0 .. t + 1 PROVE SumAt(u, n, f, k) = SumAt(u, n, g, k)
    <3>1. CASE k = 0
      BY <3>1, Zenon DEF SumAt
    <3>2. CASE k # 0
      <4>1. k - 1 \in 0 .. t
        BY <3>2
      <4>2. g[k - 1] = f[k - 1]
        BY <2>2, <4>1, Zenon
      <4> HIDE DEF g
      <4> QED
        BY <4>2, Zenon DEF SumAt
    <3> QED
      BY <3>1, <3>2
  <2>4. ASSUME NEW k \in 0 .. t + 1 PROVE g[k] = SumAt(u, n, g, k)
    <3>1. CASE k = t + 1
      BY <2>3, <3>1
    <3>2. CASE k # t + 1
      <4>1. k \in 0 .. t
        BY <3>2
      <4>2. f[k] = SumAt(u, n, f, k)
        BY <2>1, <4>1, Zenon DEF Sums
      <4> QED
        BY <2>2, <2>3, <4>1, <4>2, Zenon
    <3> QED
      BY <3>1, <3>2
  <2>5. g = [k \in 0 .. t + 1 |-> SumAt(u, n, g, k)]
    BY <2>4
  <2>6. Sums(u, n, g, t + 1)
    BY <2>5, Zenon DEF Sums
  <2> HIDE DEF g
  <2> QED
    BY <2>6
<1> HIDE DEF S
<1>3. Len(u) \in S
  BY <1>1, <1>2, LenProperties, Induction, Zenon
<1> QED
  BY <1>3 DEF S

LEMMA InPiecesIs ==
  ASSUME NEW u \in Seq(Nat), NEW n
  PROVE  \E f : Sums(u, n, f, Len(u)) /\ InPieces(u, n) = f[Len(u)]
<1> DEFINE piece(k) == SubSeq(u, (k - 1) * n + 1, IF k * n < Len(u) THEN k * n ELSE Len(u))
           sum[k \in 0 .. Len(u)] ==
             IF k = 0 \/ (k - 1) * n >= Len(u) THEN (IF k = 0 THEN 0 ELSE sum[k - 1])
             ELSE sum[k - 1] + count_occurances(piece(k))
<1>1. InPieces(u, n) = sum[Len(u)]
  BY DEF InPieces
<1>2. Sums(u, n, sum, Len(u))
  BY SumsExist DEF Sums, SumAt, Piece
<1> HIDE DEF sum
<1> QED
  BY <1>1, <1>2

\* Nothing is added after the last piece.
LEMMA SumSteady ==
  ASSUME NEW u \in Seq(Nat), NEW n \in Nat \ {0}, NEW f, Sums(u, n, f, Len(u)),
         NEW q \in 0 .. Len(u), q * n >= Len(u)
  PROVE  f[Len(u)] = f[q]
<1> DEFINE S == {d \in Nat : q + d <= Len(u) => f[q + d] = f[q]}
<1>0. Len(u) \in Nat /\ q \in Nat
  OBVIOUS
<1>1. 0 \in S
  BY <1>0
<1>2. ASSUME NEW d \in Nat, d \in S, q + (d + 1) <= Len(u) PROVE f[q + (d + 1)] = f[q]
  <2> DEFINE k == q + (d + 1)
  <2>1. /\ k \in 0 .. Len(u) /\ k # 0 /\ k - 1 = q + d
        /\ q + d <= Len(u) /\ q + d \in Nat /\ q <= q + d
    BY <1>0, <1>2
  <2> HIDE DEF k
  <2>2. (k - 1) * n >= Len(u)
    <3>1. q * n <= (q + d) * n /\ q * n \in Nat /\ (q + d) * n \in Nat
      BY <1>0, <2>1, Times, Zenon
    <3>2. (q + d) * n >= Len(u)
      BY <1>0, <3>1
    <3> QED
      BY <2>1, <3>2, Zenon
  <2>3. f[k] = SumAt(u, n, f, k)
    BY <2>1, Zenon DEF Sums
  <2>4. f[k] = f[k - 1]
    <3>1. k # 0
      BY <2>1
    <3>2. (k - 1) * n >= Len(u) => SumAt(u, n, f, k) = f[k - 1]
      BY <3>1, SumStep, SMTT(30)
    <3> QED
      BY <2>2, <2>3, <3>2, Zenon
  <2>5. f[q + d] = f[q]
    BY <1>2, <2>1, Zenon
  <2> QED
    BY <2>1, <2>4, <2>5, Zenon DEF k
<1>3. \A d \in Nat : d \in S => d + 1 \in S
  BY <1>2
<1>4. Len(u) - q \in Nat /\ q + (Len(u) - q) = Len(u) /\ Len(u) <= Len(u)
  BY <1>0
<1>5. Len(u) - q \in S
  <2> HIDE DEF S
  <2> QED
    BY <1>1, <1>3, <1>4, Induction, Zenon
<1> QED
  BY <1>4, <1>5, Zenon

\* The pieces of a start of the page are slices of the page.
LEMMA PieceIsSlice ==
  ASSUME NEW u \in Seq(Nat), NEW y \in 0 .. Len(u), NEW n \in Nat \ {0}, NEW k \in Nat \ {0},
         (k - 1) * n <= y
  PROVE  Piece(Slice(u, 0, y), n, k) = Slice(u, (k - 1) * n, IF k * n < y THEN k * n ELSE y)
<1> DEFINE h == Slice(u, 0, y)
           a == (k - 1) * n
           c == k * n
           e == IF c < y THEN c ELSE y
<1>0. y \in Nat /\ y <= Len(u) /\ Len(u) \in Nat /\ 0 \in 0 .. y
  OBVIOUS
<1>1. h \in Seq(Nat) /\ Len(h) = y
  <2>1. h \in Seq(Nat) /\ Len(h) = y - 0
    BY <1>0, SliceType, Zenon
  <2> QED
    BY <1>0, <2>1
<1>2. a \in Nat /\ c \in Nat /\ a <= c /\ a <= y
  <2>1. k - 1 \in Nat /\ k \in Nat /\ k - 1 <= k
    OBVIOUS
  <2> QED
    BY <2>1, Times, Zenon
<1>3. Piece(h, n, k) = Slice(h, a, e)
  BY <1>1, Zenon DEF Piece, Slice
<1> HIDE DEF a, c
<1>4. e \in 0 .. y - 0 /\ a \in 0 .. e /\ 0 + a = a /\ 0 + e = e
  BY <1>0, <1>2
<1> HIDE DEF e
<1>5. \A q \in 0 .. y - 0 : \A r \in 0 .. q : Slice(h, r, q) = Slice(u, 0 + r, 0 + q)
  BY <1>0, SliceSlice, Zenon
<1>6. Slice(h, a, e) = Slice(u, 0 + a, 0 + e)
  BY <1>4, <1>5, Zenon
<1>7. Piece(h, n, k) = Slice(u, a, e)
  BY <1>3, <1>4, <1>6, Zenon
<1> QED
  BY <1>7, Zenon DEF h, a, c, e

\* The first m pieces do not depend on what follows them.
LEMMA SumsAgree ==
  ASSUME NEW u \in Seq(Nat), NEW n \in Nat \ {0}, NEW m \in Nat, NEW x \in 0 .. Len(u),
         NEW y \in 0 .. Len(u), m * n <= x, m * n <= y, NEW f, NEW g,
         Sums(Slice(u, 0, x), n, f, x), Sums(Slice(u, 0, y), n, g, y)
  PROVE  f[m] = g[m]
<1> DEFINE S == {k \in Nat : k <= m => f[k] = g[k]}
<1>0. /\ x \in Nat /\ y \in Nat /\ Len(u) \in Nat /\ x <= Len(u) /\ y <= Len(u)
      /\ m * n \in Nat /\ m <= m * n /\ 0 \in 0 .. x /\ 0 \in 0 .. y
  <2>1. m * n \in Nat /\ m <= m * n
    BY Times
  <2> QED
    BY <2>1
<1>1. ASSUME NEW z \in 0 .. Len(u), m * n <= z, NEW s, Sums(Slice(u, 0, z), n, s, z)
      PROVE  /\ s[0] = 0
             /\ \A k \in Nat : k + 1 <= m =>
                  s[k + 1] = s[k] + count_occurances(Slice(u, k * n, (k + 1) * n))
  <2> DEFINE h == Slice(u, 0, z)
  <2>0. z \in Nat /\ 0 \in 0 .. z /\ z <= Len(u)
    BY <1>0
  <2>1. Len(h) = z
    <3>1. Len(h) = z - 0
      BY <2>0, SliceType, Zenon
    <3> QED
      BY <2>0, <3>1
  <2>2. s[0] = 0
    BY <1>1, <2>0, Zenon DEF Sums, SumAt
  <2>3. ASSUME NEW k \in Nat, k + 1 <= m
        PROVE  s[k + 1] = s[k] + count_occurances(Slice(u, k * n, (k + 1) * n))
    <3>1. /\ k * n \in Nat /\ (k + 1) * n \in Nat /\ (k + 1) * n = k * n + n
          /\ (k + 1) * n <= m * n
      <4>1. k <= k /\ k + 1 \in Nat
        OBVIOUS
      <4> QED
        BY <2>3, <4>1, Times, Zenon
    <3>2. k + 1 \in 0 .. z /\ k + 1 \in Nat \ {0} /\ (k + 1) - 1 = k /\ k + 1 # 0
      <4> DEFINE w == m * n
      <4>1. w <= z
        BY <1>1
      <4>2. m <= w /\ w \in Nat
        BY <1>0
      <4> HIDE DEF w
      <4> QED
        BY <2>0, <2>3, <4>1, <4>2
    <3>3. ~(k * n >= z) /\ k * n <= z
      BY <1>0, <1>1, <2>0, <3>1, SMTT(60)
    <3>4. s[k + 1] = SumAt(h, n, s, k + 1)
      BY <1>1, <3>2, Zenon DEF Sums
    <3>5. s[k + 1] = s[k] + count_occurances(Piece(h, n, k + 1))
      <4>1. ~(((k + 1) - 1) * n >= Len(h))
        BY <2>1, <3>2, <3>3, Zenon
      <4>2. SumAt(h, n, s, k + 1) = s[(k + 1) - 1] + count_occurances(Piece(h, n, k + 1))
        BY <3>2, <4>1, SumStep, ZenonT(60)
      <4> QED
        BY <3>2, <3>4, <4>2, Zenon
    <3>6. (IF (k + 1) * n < z THEN (k + 1) * n ELSE z) = (k + 1) * n
      BY <1>0, <1>1, <2>0, <3>1
    <3>7. Piece(h, n, k + 1) = Slice(u, k * n, (k + 1) * n)
      <4>1. ((k + 1) - 1) * n <= z
        BY <3>2, <3>3, Zenon
      <4>2. Piece(h, n, k + 1) = Slice(u, ((k + 1) - 1) * n, IF (k + 1) * n < z THEN (k + 1) * n ELSE z)
        BY <3>2, <4>1, PieceIsSlice, Zenon
      <4> QED
        BY <3>2, <3>6, <4>2, Zenon
    <3> QED
      BY <3>5, <3>7, Zenon
  <2> QED
    BY <2>2, <2>3
<1>2. /\ f[0] = 0 /\ g[0] = 0
      /\ \A k \in Nat : k + 1 <= m =>
           /\ f[k + 1] = f[k] + count_occurances(Slice(u, k * n, (k + 1) * n))
           /\ g[k + 1] = g[k] + count_occurances(Slice(u, k * n, (k + 1) * n))
  BY <1>1, Zenon
<1>3. 0 \in S
  BY <1>2
<1>4. ASSUME NEW k \in Nat, k \in S PROVE k + 1 \in S
  <2>1. ASSUME k + 1 <= m PROVE f[k + 1] = g[k + 1]
    <3>1. k <= m
      BY <2>1
    <3>2. f[k] = g[k]
      BY <1>4, <3>1, Zenon
    <3> QED
      BY <1>2, <2>1, <3>2, Zenon
  <2> QED
    BY <2>1
<1>5. m \in S
  <2> HIDE DEF S
  <2> QED
    BY <1>3, <1>4, Induction, Zenon
<1>6. m <= m
  OBVIOUS
<1> QED
  BY <1>5, <1>6, Zenon

\* One more piece, of b bytes.
LEMMA OneMorePiece ==
  ASSUME NEW u \in Seq(Nat), NEW n \in Nat \ {0}, NEW m \in Nat, NEW b \in 1 .. n,
         m * n + b <= Len(u)
  PROVE  InPieces(Slice(u, 0, m * n + b), n)
         = InPieces(Slice(u, 0, m * n), n) + count_occurances(Slice(u, m * n, m * n + b))
<1> DEFINE x == m * n
           y == m * n + b
           p == Slice(u, 0, x)
           r == Slice(u, 0, y)
<1>0. x \in Nat /\ m <= x /\ (m + 1) * n = x + n
  BY Times
<1>1. /\ y \in Nat /\ Len(u) \in Nat /\ x \in 0 .. Len(u) /\ y \in 0 .. Len(u)
      /\ 0 \in 0 .. x /\ 0 \in 0 .. y /\ x < y /\ y <= x + n /\ x <= y /\ x <= x
  BY <1>0
<1>2. p \in Seq(Nat) /\ Len(p) = x /\ r \in Seq(Nat) /\ Len(r) = y
  <2>1. p \in Seq(Nat) /\ Len(p) = x - 0 /\ r \in Seq(Nat) /\ Len(r) = y - 0
    BY <1>1, SliceType, Zenon
  <2>2. x - 0 = x /\ y - 0 = y
    BY <1>0, <1>1
  <2> QED
    BY <2>1, <2>2, Zenon
<1>3. PICK f : Sums(p, n, f, x) /\ InPieces(p, n) = f[x]
  BY <1>2, InPiecesIs, Zenon
<1>4. PICK g : Sums(r, n, g, y) /\ InPieces(r, n) = g[y]
  BY <1>2, InPiecesIs, Zenon
<1> HIDE DEF x
<1>6. x = m * n /\ y = x + b
  BY DEF x
<1> HIDE DEF y
<1>5. f[m] = g[m]
  <2>1. m * n <= x /\ m * n <= y
    BY <1>1, <1>6, Zenon
  <2> QED
    BY <1>1, <1>3, <1>4, <2>1, SumsAgree
<1> HIDE DEF p, r
<1>7. f[x] = f[m]
  <2>1. m \in 0 .. x /\ m * n >= x
    BY <1>0, <1>6
  <2> QED
    BY <1>2, <1>3, <2>1, SumSteady, SMTT(30)
<1>8. g[y] = g[m + 1]
  <2>1. m + 1 \in 0 .. y /\ (m + 1) * n >= y
    BY <1>0, <1>1
  <2> QED
    BY <1>2, <1>4, <2>1, SumSteady, ZenonT(60)
<1>9. g[m + 1] = g[m] + count_occurances(Slice(u, x, y))
  <2>1. /\ m + 1 \in 0 .. y /\ m + 1 # 0 /\ (m + 1) - 1 = m /\ m + 1 \in Nat \ {0}
        /\ ~(x >= y) /\ (IF x + n < y THEN x + n ELSE y) = y
    BY <1>0, <1>1
  <2>2. ((m + 1) - 1) * n = x
    BY <1>6, <2>1, Zenon
  <2>3. g[m + 1] = SumAt(r, n, g, m + 1)
    BY <1>4, <2>1, Zenon DEF Sums
  <2>4. ~(((m + 1) - 1) * n >= Len(r))
    BY <1>2, <2>1, <2>2, Zenon
  <2>5. SumAt(r, n, g, m + 1) = g[(m + 1) - 1] + count_occurances(Piece(r, n, m + 1))
    BY <2>1, <2>4, SumStep, ZenonT(60)
  <2>6. Piece(r, n, m + 1) = Slice(u, ((m + 1) - 1) * n, IF (m + 1) * n < y THEN (m + 1) * n ELSE y)
    <3>1. ((m + 1) - 1) * n <= y
      BY <1>1, <2>2, Zenon
    <3> QED
      BY <1>1, <2>1, <3>1, PieceIsSlice, Zenon DEF r
  <2>7. Piece(r, n, m + 1) = Slice(u, x, y)
    BY <1>0, <2>1, <2>2, <2>6, Zenon
  <2> QED
    BY <2>1, <2>3, <2>5, <2>7, Zenon
<1>10. InPieces(r, n) = InPieces(p, n) + count_occurances(Slice(u, x, y))
  BY <1>3, <1>4, <1>5, <1>7, <1>8, <1>9, Zenon
<1> QED
  BY <1>10, Zenon DEF r, p, y, x

\* There is no piece of nothing.
LEMMA NoPieces == ASSUME NEW n PROVE InPieces(<<>>, n) = 0
<1> DEFINE h == <<>>
<1>1. h \in Seq(Nat) /\ Len(h) = 0
  OBVIOUS
<1> HIDE DEF h
<1>2. PICK f : Sums(h, n, f, 0) /\ InPieces(h, n) = f[0]
  BY <1>1, InPiecesIs, Zenon
<1>3. 0 \in 0 .. 0
  OBVIOUS
<1>4. f[0] = SumAt(h, n, f, 0)
  BY <1>2, <1>3, Zenon DEF Sums
<1>5. f[0] = 0
  BY <1>4, Zenon DEF SumAt
<1> QED
  BY <1>2, <1>5 DEF h

-----------------------------------------------------------------------------
(* The inductive invariant                                                 *)

\* The bytes that have been searched are those before the buffer.
Searched == total_read - Len(buffer)

\* What is received, buffered and not yet received are slices of the page.
BytesInv ==
  /\ pc \in {"start", "read", "done", "failed"}
  /\ page \in Pages
  /\ buffer_len \in BufferSizes
  /\ fill_buffer \in BOOLEAN
  /\ total_read \in 0 .. Len(page)
  /\ rest = Slice(page, total_read, Len(page))
  /\ Len(buffer) \in 0 .. total_read
  /\ Len(buffer) <= buffer_len
  /\ buffer = Slice(page, Searched, total_read)
  /\ pc # "read" \/ ~fill_buffer => buffer = <<>>
  /\ fill_buffer /\ buffer_len = 0 => pc # "done"

\* A buffer that is filled starts at a multiple of its size.
Aligned ==
  fill_buffer /\ buffer_len > 0 /\ pc \in {"start", "read"} =>
    /\ Len(buffer) < buffer_len
    /\ \E m \in Nat : Searched = m * buffer_len

CountInv ==
  /\ needle_count \in Nat
  /\ needle_count <= Cardinality(Tags(page, 0, Searched))
  /\ fill_buffer /\ buffer_len > 0 /\ pc # "failed" =>
       needle_count = InPieces(Slice(page, 0, Searched), buffer_len)

H1Inv == BytesInv /\ Aligned /\ CountInv

LEMMA PageType ==
  ASSUME BytesInv
  PROVE  /\ page \in Seq(Nat) /\ Len(page) \in Nat /\ buffer_len \in Nat
         /\ total_read \in Nat /\ Len(buffer) \in Nat /\ Searched \in 0 .. total_read
         /\ total_read <= Len(page) /\ Searched \in 0 .. Len(page)
         /\ Searched + Len(buffer) = total_read
<1>1. page \in Seq(Nat) /\ buffer_len \in Nat
  BY H1Assumption, Zenon DEF BytesInv
<1>2. Len(page) \in Nat
  BY <1>1, LenProperties, Zenon
<1>3. total_read \in 0 .. Len(page) /\ Len(buffer) \in 0 .. total_read
  BY DEF BytesInv
<1>4. total_read \in Nat /\ total_read <= Len(page)
  BY <1>2, <1>3
<1>5. Len(buffer) \in Nat /\ Len(buffer) <= total_read
  BY <1>3, <1>4
<1> QED
  BY <1>1, <1>2, <1>4, <1>5 DEF Searched

LEMMA InitInv == ASSUME Init PROVE H1Inv
<1>0. page \in Seq(Nat) /\ Len(page) \in Nat /\ buffer_len \in Nat
  BY H1Assumption DEF Init
<1>1. buffer = <<>> /\ total_read = 0 /\ Len(buffer) = 0 /\ needle_count = 0 /\ pc = "start"
  BY DEF Init
<1>2. Searched = 0
  <2>1. total_read = 0 /\ Len(buffer) = 0 /\ 0 - 0 = 0
    BY <1>1
  <2> QED
    BY <2>1, Zenon DEF Searched
<1>3. Slice(page, 0, Len(page)) = page
  BY <1>0, SliceFull
<1>4. Slice(page, 0, 0) = <<>>
  <2>1. 0 \in 0 .. Len(page)
    BY <1>0
  <2> QED
    BY <1>0, <2>1, SliceEmpty, Zenon
<1>5. BytesInv
  <2>1. total_read \in 0 .. Len(page) /\ Len(buffer) \in 0 .. total_read /\ Len(buffer) <= buffer_len
    BY <1>0, <1>1
  <2>2. rest = Slice(page, total_read, Len(page)) /\ buffer = Slice(page, Searched, total_read)
    BY <1>1, <1>2, <1>3, <1>4, Zenon DEF Init
  <2> QED
    BY <1>1, <2>1, <2>2 DEF BytesInv, Init
<1>6. Aligned
  <2>1. 0 = 0 * buffer_len
    BY <1>0
  <2>2. \E m \in Nat : 0 = m * buffer_len
    BY <2>1
  <2> QED
    BY <1>0, <1>1, <1>2, <2>2 DEF Aligned
<1>7. CountInv
  <2>1. Cardinality(Tags(page, 0, 0)) \in Nat
    <3>1. 0 \in 0 .. Len(page) /\ 0 \in 0 .. 0
      BY <1>0
    <3> QED
      BY <1>0, <3>1, TagsFinite, Zenon
  <2>2. 0 <= Cardinality(Tags(page, 0, 0))
    BY <2>1
  <2>3. InPieces(Slice(page, 0, 0), buffer_len) = 0
    BY <1>4, NoPieces, Zenon
  <2> QED
    BY <1>1, <1>2, <2>2, <2>3 DEF CountInv
<1> QED
  BY <1>5, <1>6, <1>7 DEF H1Inv

LEMMA SendRequestInv == ASSUME H1Inv, SendRequest PROVE H1Inv'
<1>1. /\ pc = "start" /\ pc' \in {"read", "failed"}
      /\ page' = page /\ buffer_len' = buffer_len /\ fill_buffer' = fill_buffer
      /\ rest' = rest /\ buffer' = buffer /\ needle_count' = needle_count /\ total_read' = total_read
  BY DEF SendRequest, options
<1>2. Searched' = Searched
  BY <1>1 DEF Searched
<1>3. BytesInv'
  BY <1>1, <1>2 DEF H1Inv, BytesInv
<1>4. Aligned'
  BY <1>1, <1>2 DEF H1Inv, Aligned
<1>5. CountInv'
  BY <1>1, <1>2 DEF H1Inv, CountInv
<1> QED
  BY <1>3, <1>4, <1>5 DEF H1Inv

\* The slice that is searched adds its tags to those before it.
LEMMA CountsAdd ==
  ASSUME NEW u \in Seq(Nat), NEW j \in 0 .. Len(u), NEW i \in 0 .. j, NEW c \in Nat,
         c <= Cardinality(Tags(u, 0, i))
  PROVE  /\ c + count_occurances(Slice(u, i, j)) \in Nat
         /\ c + count_occurances(Slice(u, i, j)) <= Cardinality(Tags(u, 0, j))
<1> DEFINE d == count_occurances(Slice(u, i, j))
           x == Cardinality(Tags(u, 0, i))
           y == Cardinality(Tags(u, i, j))
           z == Cardinality(Tags(u, 0, j))
<1>0. i \in 0 .. Len(u) /\ 0 \in 0 .. i /\ 0 \in 0 .. j
  OBVIOUS
<1>1. d \in Nat /\ d <= y
  BY CountBound, Zenon
<1>2. x \in Nat /\ y \in Nat /\ z \in Nat
  BY <1>0, TagsFinite, Zenon
<1>3. x + y <= z
  BY TagsOfParts, Zenon
<1>4. c <= x
  OBVIOUS
<1> HIDE DEF d, x, y, z
<1>5. c + d \in Nat /\ c + d <= z
  BY <1>1, <1>2, <1>3, <1>4
<1> QED
  BY <1>5, Zenon DEF d, z

LEMMA FinishInv ==
  ASSUME H1Inv, pc = "read", ~(fill_buffer /\ buffer_len = 0), Finish
  PROVE  H1Inv'
<1>0. BytesInv /\ Aligned /\ CountInv
  BY DEF H1Inv
<1>1. /\ pc' = "done" /\ buffer' = <<>> /\ page' = page /\ buffer_len' = buffer_len
      /\ fill_buffer' = fill_buffer /\ rest' = rest /\ total_read' = total_read
      /\ needle_count' = needle_count + (IF fill_buffer THEN count_occurances(buffer) ELSE 0)
  BY DEF Finish, options
<1>2. /\ page \in Seq(Nat) /\ Len(page) \in Nat /\ buffer_len \in Nat
      /\ total_read \in Nat /\ Len(buffer) \in Nat /\ Searched \in 0 .. total_read
      /\ total_read <= Len(page) /\ Searched \in 0 .. Len(page)
      /\ Searched + Len(buffer) = total_read
  BY <1>0, PageType, Zenon
<1>3. Len(buffer') = 0 /\ total_read \in 0 .. Len(page)
  BY <1>0, <1>1 DEF BytesInv
<1>4. Searched' = total_read
  BY <1>1, <1>2, <1>3 DEF Searched
<1>5. Slice(page, total_read, total_read) = <<>>
  BY <1>2, <1>3, SliceEmpty, Zenon
<1>6. BytesInv'
  <2>1. Len(buffer') \in 0 .. total_read /\ Len(buffer') <= buffer_len
    BY <1>2, <1>3
  <2> QED
    BY <1>0, <1>1, <1>4, <1>5, <2>1 DEF BytesInv
<1>7. Aligned'
  BY <1>1 DEF Aligned
<1>8. needle_count \in Nat /\ needle_count <= Cardinality(Tags(page, 0, Searched))
  BY <1>0 DEF CountInv
<1>9. needle_count' = needle_count + count_occurances(buffer)
  <2>1. CASE fill_buffer
    BY <1>1, <2>1
  <2>2. CASE ~fill_buffer
    <3>1. buffer = <<>>
      BY <1>0, <2>2 DEF BytesInv
    <3>2. count_occurances(buffer) = 0
      BY <3>1, CountOfNothing
    <3> QED
      BY <1>1, <2>2, <3>2
  <2> QED
    BY <2>1, <2>2
<1>10. buffer = Slice(page, Searched, total_read)
  BY <1>0 DEF BytesInv
<1>11. needle_count' \in Nat /\ needle_count' <= Cardinality(Tags(page, 0, total_read))
  BY <1>2, <1>3, <1>8, <1>9, <1>10, CountsAdd, Zenon
<1>12. ASSUME fill_buffer, buffer_len > 0
       PROVE  needle_count' = InPieces(Slice(page, 0, total_read), buffer_len)
  <2>1. needle_count = InPieces(Slice(page, 0, Searched), buffer_len)
    BY <1>0, <1>12 DEF CountInv
  <2>2. Len(buffer) < buffer_len /\ \E m \in Nat : Searched = m * buffer_len
    BY <1>0, <1>12 DEF Aligned
  <2>3. CASE Len(buffer) = 0
    <3>1. Searched = total_read
      BY <1>2, <2>3
    <3>2. buffer = <<>>
      BY <1>2, <1>3, <1>5, <1>10, <3>1, Zenon
    <3>3. count_occurances(buffer) = 0
      BY <3>2, CountOfNothing
    <3>4. needle_count' = needle_count
      BY <1>8, <1>9, <3>3
    <3> QED
      BY <2>1, <3>1, <3>4, Zenon
  <2>4. CASE Len(buffer) # 0
    <3>1. PICK m \in Nat : Searched = m * buffer_len
      BY <2>2
    <3> DEFINE b == Len(buffer)
               n == buffer_len
    <3>2. n \in Nat \ {0} /\ b \in 1 .. n
      BY <1>2, <2>2, <2>4
    <3>3. total_read = m * n + b /\ m * n + b <= Len(page)
      BY <1>2, <3>1
    <3>4. InPieces(Slice(page, 0, m * n + b), n)
          = InPieces(Slice(page, 0, m * n), n) + count_occurances(Slice(page, m * n, m * n + b))
      BY <1>2, <3>2, <3>3, OneMorePiece, ZenonT(60)
    <3> HIDE DEF b, n
    <3>5. Searched = m * n
      BY <3>1 DEF n
    <3>6. InPieces(Slice(page, 0, total_read), n)
          = InPieces(Slice(page, 0, Searched), n) + count_occurances(buffer)
      BY <1>10, <3>3, <3>4, <3>5, Zenon
    <3> QED
      BY <1>9, <2>1, <3>6, Zenon DEF n
  <2> QED
    BY <2>3, <2>4
<1>13. CountInv'
  BY <1>1, <1>4, <1>11, <1>12 DEF CountInv
<1> QED
  BY <1>6, <1>7, <1>13 DEF H1Inv

LEMMA RecvInv == ASSUME H1Inv, Recv PROVE H1Inv'
<1>0. BytesInv /\ Aligned /\ CountInv
  BY DEF H1Inv
<1>1. /\ page \in Seq(Nat) /\ Len(page) \in Nat /\ buffer_len \in Nat
      /\ total_read \in Nat /\ Len(buffer) \in Nat /\ Searched \in 0 .. total_read
      /\ total_read <= Len(page) /\ Searched \in 0 .. Len(page)
      /\ Searched + Len(buffer) = total_read
  BY <1>0, PageType, Zenon
<1>2. PICK k \in 1 .. Len(rest) :
        LET filled == buffer \o SubSeq(rest, 1, k)
        IN  /\ Len(filled) <= buffer_len
            /\ rest' = SubSeq(rest, k + 1, Len(rest))
            /\ total_read' = total_read + k
            /\ IF fill_buffer /\ Len(filled) < buffer_len
                 THEN buffer' = filled /\ UNCHANGED needle_count
                 ELSE /\ buffer' = <<>>
                      /\ needle_count' = needle_count + count_occurances(filled)
  BY DEF Recv
<1>3. /\ pc = "read" /\ pc' = pc /\ page' = page /\ buffer_len' = buffer_len
      /\ fill_buffer' = fill_buffer
  BY DEF Recv, options
<1> DEFINE s == Searched
           t == total_read
           e == total_read + k
           filled == Slice(page, s, e)
<1>4. /\ rest = Slice(page, t, Len(page)) /\ buffer = Slice(page, s, t)
      /\ t \in 0 .. Len(page) /\ s \in 0 .. t
  BY <1>0, <1>1 DEF BytesInv
<1>5. Len(rest) = Len(page) - t
  <2>1. Len(page) \in 0 .. Len(page) /\ t \in 0 .. Len(page)
    BY <1>1
  <2> QED
    BY <1>1, <1>4, <2>1, SliceType, Zenon
<1>6. /\ k \in Nat /\ 1 <= k /\ e \in 0 .. Len(page) /\ t \in 0 .. e /\ s \in 0 .. e
      /\ e \in Nat /\ s \in Nat /\ k \in 0 .. Len(page) - t /\ 0 \in 0 .. k
      /\ Len(page) - t \in 0 .. Len(page) - t /\ k \in 0 .. Len(page) - t
      /\ t + 0 = t /\ t + (Len(page) - t) = Len(page) /\ Len(page) \in 0 .. Len(page)
      /\ 0 + 1 = 1
  <2>1. k \in 1 .. Len(page) - t
    BY <1>2, <1>5, Zenon
  <2> QED
    BY <1>1, <2>1
<1>7. SubSeq(rest, 1, k) = Slice(page, t, e) /\ SubSeq(rest, k + 1, Len(rest)) = Slice(page, e, Len(page))
  <2>1. \A q \in 0 .. Len(page) - t : \A p \in 0 .. q :
          Slice(Slice(page, t, Len(page)), p, q) = Slice(page, t + p, t + q)
    BY <1>1, <1>4, <1>6, SliceSlice, Zenon
  <2>2. Slice(rest, 0, k) = Slice(page, t + 0, t + k)
    BY <1>4, <1>6, <2>1, Zenon
  <2>3. Slice(rest, k, Len(page) - t) = Slice(page, t + k, t + (Len(page) - t))
    BY <1>4, <1>6, <2>1, Zenon
  <2>4. Slice(rest, 0, k) = SubSeq(rest, 1, k)
    BY <1>6, Zenon DEF Slice
  <2>5. Slice(rest, k, Len(page) - t) = SubSeq(rest, k + 1, Len(rest))
    BY <1>5, Zenon DEF Slice
  <2> QED
    BY <1>6, <2>2, <2>3, <2>4, <2>5, Zenon
<1>8. buffer \o SubSeq(rest, 1, k) = filled
  <2>1. Slice(page, s, t) \o Slice(page, t, e) = Slice(page, s, e)
    BY <1>1, <1>4, <1>6, SliceJoin, Zenon
  <2> QED
    BY <1>4, <1>7, <2>1, Zenon
<1>9. filled \in Seq(Nat) /\ Len(filled) = e - s
  BY <1>1, <1>6, SliceType, Zenon
<1>10. /\ Len(filled) <= buffer_len /\ rest' = Slice(page, e, Len(page)) /\ total_read' = e
       /\ fill_buffer /\ Len(filled) < buffer_len => buffer' = filled /\ needle_count' = needle_count
       /\ ~(fill_buffer /\ Len(filled) < buffer_len) =>
            buffer' = <<>> /\ needle_count' = needle_count + count_occurances(filled)
  BY <1>2, <1>7, <1>8, Zenon
<1> HIDE DEF filled, e, s, t
<1>11. s = Searched /\ t = total_read /\ filled = Slice(page, s, e) /\ e = t + k
  BY DEF filled, e, s, t
<1>12. needle_count \in Nat /\ needle_count <= Cardinality(Tags(page, 0, s))
  BY <1>0, <1>11, Zenon DEF CountInv
<1>13. CASE fill_buffer /\ Len(filled) < buffer_len
  <2>1. buffer' = filled /\ needle_count' = needle_count
    BY <1>10, <1>13
  <2>2. Searched' = s
    <3>1. e - (e - s) = s
      BY <1>6
    <3> QED
      BY <1>9, <1>10, <2>1, <3>1, Zenon DEF Searched
  <2>3. Len(buffer') = e - s /\ e - s \in 0 .. e
    BY <1>6, <1>9, <2>1
  <2>4. BytesInv'
    <3>1. Len(buffer') \in 0 .. total_read' /\ Len(buffer') <= buffer_len' /\ total_read' \in 0 .. Len(page')
      BY <1>3, <1>6, <1>9, <1>10, <2>1, <2>3, Zenon
    <3>2. buffer' = Slice(page', Searched', total_read') /\ rest' = Slice(page', total_read', Len(page'))
      BY <1>3, <1>10, <1>11, <2>1, <2>2, Zenon
    <3> QED
      BY <1>0, <1>3, <1>13, <3>1, <3>2, Zenon DEF BytesInv
  <2>5. Aligned'
    <3>1. buffer_len > 0 => \E m \in Nat : Searched = m * buffer_len
      BY <1>0, <1>3, <1>13, Zenon DEF Aligned
    <3>2. Len(buffer') < buffer_len
      BY <1>13, <2>1, Zenon
    <3> QED
      BY <1>3, <1>11, <2>2, <3>1, <3>2, Zenon DEF Aligned
  <2>6. CountInv'
    <3>1. buffer_len > 0 => needle_count = InPieces(Slice(page, 0, s), buffer_len)
      <4>1. pc # "failed"
        BY <1>3
      <4> QED
        BY <1>0, <1>11, <1>13, <4>1, Zenon DEF CountInv
    <3> QED
      BY <1>3, <1>12, <2>1, <2>2, <3>1, Zenon DEF CountInv
  <2> QED
    BY <2>4, <2>5, <2>6 DEF H1Inv
<1>14. CASE ~(fill_buffer /\ Len(filled) < buffer_len)
  <2>1. buffer' = <<>> /\ needle_count' = needle_count + count_occurances(filled)
    BY <1>10, <1>14
  <2>2. Len(buffer') = 0
    BY <2>1
  <2>3. Searched' = e
    <3>1. e - 0 = e
      BY <1>6
    <3> QED
      BY <1>10, <2>2, <3>1, Zenon DEF Searched
  <2>4. Slice(page, e, e) = <<>>
    BY <1>1, <1>6, SliceEmpty, Zenon
  <2>5. BytesInv'
    <3>1. 0 \in 0 .. e /\ 0 <= buffer_len
      BY <1>1, <1>6
    <3>2. Len(buffer') \in 0 .. total_read' /\ Len(buffer') <= buffer_len' /\ total_read' \in 0 .. Len(page')
      BY <1>3, <1>6, <1>10, <2>2, <3>1, Zenon
    <3>3. buffer' = Slice(page', Searched', total_read') /\ rest' = Slice(page', total_read', Len(page'))
      BY <1>3, <1>10, <2>1, <2>3, <2>4, Zenon
    <3> QED
      BY <1>0, <1>3, <2>1, <3>2, <3>3, Zenon DEF BytesInv
  <2>6. needle_count' \in Nat /\ needle_count' <= Cardinality(Tags(page, 0, e))
    BY <1>1, <1>6, <1>11, <1>12, <2>1, CountsAdd, Zenon
  <2>7. ASSUME fill_buffer, buffer_len > 0
        PROVE  /\ needle_count' = InPieces(Slice(page, 0, e), buffer_len)
               /\ \E m \in Nat : e = m * buffer_len
    <3>1. PICK m \in Nat : Searched = m * buffer_len
      BY <1>0, <1>3, <2>7 DEF Aligned
    <3> DEFINE n == buffer_len
    <3>2. e - s = n
      <4>1. ~(Len(filled) < n)
        BY <1>14, <2>7
      <4>2. e - s \in Int /\ n \in Int
        BY <1>1, <1>6
      <4>3. ~(e - s < n) /\ e - s <= n
        BY <1>9, <1>10, <4>1, Zenon
      <4> QED
        BY <4>2, <4>3
    <3>3. n \in Nat \ {0} /\ n \in 1 .. n
      BY <1>1, <2>7
    <3> HIDE DEF n
    <3>4. s = m * n
      BY <1>11, <3>1 DEF n
    <3>5. e = s + n /\ s + n <= Len(page)
      BY <1>6, <3>2, <3>3
    <3>6. e = m * n + n /\ m * n + n <= Len(page)
      BY <3>4, <3>5, Zenon
    <3>7. InPieces(Slice(page, 0, m * n + n), n)
          = InPieces(Slice(page, 0, m * n), n) + count_occurances(Slice(page, m * n, m * n + n))
      BY <1>1, <3>3, <3>6, OneMorePiece, Zenon
    <3>8. InPieces(Slice(page, 0, e), n) = InPieces(Slice(page, 0, s), n) + count_occurances(filled)
      BY <1>11, <3>4, <3>6, <3>7, Zenon
    <3>9. needle_count = InPieces(Slice(page, 0, s), n)
      <4>1. pc # "failed"
        BY <1>3
      <4> QED
        BY <1>0, <1>11, <2>7, <4>1, Zenon DEF CountInv, n
    <3>10. e = (m + 1) * n /\ m + 1 \in Nat
      <4>1. (m + 1) * n = m * n + n
        BY <3>3, Times
      <4>2. m + 1 \in Nat
        OBVIOUS
      <4> QED
        BY <3>6, <4>1, <4>2, Zenon
    <3> QED
      BY <2>1, <3>8, <3>9, <3>10, Zenon DEF n
  <2>8. Aligned'
    <3>1. buffer_len > 0 => 0 < buffer_len
      BY <1>1
    <3> QED
      BY <1>3, <2>2, <2>3, <2>7, <3>1, Zenon DEF Aligned
  <2>9. CountInv'
    BY <1>3, <2>3, <2>6, <2>7, Zenon DEF CountInv
  <2> QED
    BY <2>5, <2>8, <2>9 DEF H1Inv
<1> QED
  BY <1>13, <1>14

-----------------------------------------------------------------------------
(* The theorems                                                            *)

\* The inductive invariant: what is received, buffered and not yet received
\* are slices of the page, a buffer that is filled starts at a multiple of its
\* size, and the count is that of the bytes before the buffer.
THEOREM CounterConsistent == Spec => []H1Inv
<1>1. Init => H1Inv
  BY InitInv
<1>2. H1Inv /\ [Next]_vars => H1Inv'
  <2> SUFFICES ASSUME H1Inv, [Next]_vars PROVE H1Inv'
    OBVIOUS
  <2>1. CASE SendRequest
    BY <2>1, SendRequestInv
  <2>2. CASE Recv
    BY <2>2, RecvInv
  <2>3. CASE RecvEnd
    BY <2>3, FinishInv DEF RecvEnd
  <2>4. CASE RecvError
    BY <2>4, FinishInv DEF RecvError
  <2>5. CASE UNCHANGED vars
    BY <2>5 DEF vars, H1Inv, BytesInv, Aligned, CountInv, Searched
  <2> QED
    BY <2>1, <2>2, <2>3, <2>4, <2>5 DEF Next, Spin, Finished
<1> QED
  BY <1>1, <1>2, PTL DEF Spec

LEMMA ReceivedIs == ASSUME BytesInv PROVE Received = Slice(page, 0, total_read) /\ Len(Received) = total_read
<1>1. page \in Seq(Nat) /\ Len(page) \in Nat /\ total_read \in Nat /\ total_read <= Len(page)
  BY PageType, Zenon
<1>2. /\ total_read \in 0 .. Len(page) /\ Len(page) \in 0 .. Len(page) /\ 0 \in 0 .. total_read
      /\ 0 + 1 = 1 /\ Len(page) - (Len(page) - total_read) = total_read /\ total_read - 0 = total_read
  BY <1>1
<1>3. Len(rest) = Len(page) - total_read
  BY <1>1, <1>2, SliceType, Zenon DEF BytesInv
<1>4. Received = Slice(page, 0, total_read)
  BY <1>2, <1>3, Zenon DEF Received, Slice
<1>5. Len(Slice(page, 0, total_read)) = total_read - 0
  BY <1>1, <1>2, SliceType, Zenon
<1> QED
  BY <1>2, <1>4, <1>5, Zenon

\* The remainder of a division.
LEMMA Remainder ==
  ASSUME NEW m \in Nat, NEW n \in Nat \ {0}, NEW b \in Nat, b < n
  PROVE  (m * n + b) % n = b
<1> DEFINE a == m * n + b
           q == a \div n
           r == a % n
<1>1. a \in Nat /\ q \in Nat /\ r \in Nat /\ r < n /\ a = q * n + r
  OBVIOUS
<1> HIDE DEF q, r
<1>2. m * n + b = q * n + r
  BY <1>1
<1>3. CASE m < q
  <2>1. (m + 1) * n <= q * n /\ (m + 1) * n = m * n + n
    <3>1. m + 1 \in Nat /\ m + 1 <= q /\ m <= m
      BY <1>1, <1>3
    <3> QED
      BY <1>1, <3>1, Times, Zenon
  <2>2. m * n \in Nat /\ q * n \in Nat
    BY <1>1
  <2> QED
    BY <1>1, <1>2, <2>1, <2>2
<1>4. CASE q < m
  <2>1. (q + 1) * n <= m * n /\ (q + 1) * n = q * n + n
    <3>1. q + 1 \in Nat /\ q + 1 <= m /\ q <= q
      BY <1>1, <1>4
    <3> QED
      BY <1>1, <3>1, Times, Zenon
  <2>2. m * n \in Nat /\ q * n \in Nat
    BY <1>1
  <2> QED
    BY <1>1, <1>2, <2>1, <2>2
<1>5. CASE m = q
  <2>1. q * n \in Nat
    BY <1>1
  <2>2. r = b
    BY <1>1, <1>2, <1>5, <2>1
  <2> QED
    BY <2>2, Zenon DEF r, a
<1> QED
  BY <1>1, <1>3, <1>4, <1>5

\* h1-counter.c, main: the bytes reported are the bytes received, the buffer
\* never overflows, and it holds the bytes since the last multiple of its size.
THEOREM EveryByteIsAccounted == Spec => []BytesAreAccounted
<1>1. H1Inv => BytesAreAccounted
  <2> SUFFICES ASSUME H1Inv PROVE BytesAreAccounted
    OBVIOUS
  <2>0. BytesInv /\ Aligned
    BY DEF H1Inv
  <2>1. Received = Slice(page, 0, total_read) /\ Len(Received) = total_read
    BY <2>0, ReceivedIs
  <2>2. /\ page \in Seq(Nat) /\ Len(page) \in Nat /\ buffer_len \in Nat
        /\ total_read \in Nat /\ Len(buffer) \in Nat /\ Searched \in 0 .. total_read
        /\ total_read <= Len(page) /\ Searched \in 0 .. Len(page)
        /\ Searched + Len(buffer) = total_read
    BY <2>0, PageType, Zenon
  <2>3. Len(buffer) <= buffer_len /\ buffer = Slice(page, Searched, total_read)
    BY <2>0 DEF BytesInv
  <2>4. ASSUME fill_buffer, pc = "read", buffer_len > 0
        PROVE  buffer = SubSeq(Received, total_read - (total_read % buffer_len) + 1, total_read)
    <3>1. Len(buffer) < buffer_len /\ \E m \in Nat : Searched = m * buffer_len
      BY <2>0, <2>4 DEF Aligned
    <3>2. PICK m \in Nat : Searched = m * buffer_len
      BY <3>1
    <3>3. total_read % buffer_len = Len(buffer)
      <4>1. buffer_len \in Nat \ {0}
        BY <2>2, <2>4
      <4>2. (m * buffer_len + Len(buffer)) % buffer_len = Len(buffer)
        BY <2>2, <3>1, <4>1, Remainder, Zenon
      <4> QED
        BY <2>2, <3>2, <4>2, Zenon
    <3>4. total_read - Len(buffer) = Searched
      BY DEF Searched
    <3>5. /\ total_read \in 0 .. Len(page) /\ 0 \in 0 .. total_read
          /\ total_read \in 0 .. total_read - 0
          /\ 0 + Searched = Searched /\ 0 + total_read = total_read
      BY <2>2
    <3>6. \A q \in 0 .. total_read - 0 : \A p \in 0 .. q :
            Slice(Slice(page, 0, total_read), p, q) = Slice(page, 0 + p, 0 + q)
      BY <2>2, <3>5, SliceSlice, Zenon
    <3>7. Slice(Slice(page, 0, total_read), Searched, total_read) = Slice(page, 0 + Searched, 0 + total_read)
      BY <2>2, <3>5, <3>6, Zenon
    <3>8. buffer = Slice(Received, Searched, total_read)
      BY <2>1, <2>3, <3>5, <3>7, Zenon
    <3> QED
      BY <3>3, <3>4, <3>8, Zenon DEF Slice
  <2> QED
    BY <2>1, <2>3, <2>4, Zenon DEF BytesAreAccounted
<1> QED
  BY <1>1, CounterConsistent, PTL

\* h1-counter.c, count_occurances and main: no tag is counted twice or where
\* there is none, however the page is cut into segments and buffers.
THEOREM CountIsALowerBound == Spec => []NeverOvercounts
<1>1. H1Inv => NeverOvercounts
  <2> SUFFICES ASSUME H1Inv PROVE NeverOvercounts
    OBVIOUS
  <2>0. BytesInv /\ CountInv
    BY DEF H1Inv
  <2>1. Received = Slice(page, 0, total_read)
    BY <2>0, ReceivedIs
  <2>2. /\ page \in Seq(Nat) /\ Len(page) \in Nat /\ total_read \in Nat
        /\ Searched \in 0 .. total_read /\ total_read <= Len(page)
    BY <2>0, PageType, Zenon
  <2> DEFINE x == Cardinality(Tags(page, 0, Searched))
             y == Cardinality(Tags(page, Searched, total_read))
             z == Cardinality(Tags(page, 0, total_read))
  <2>3. /\ total_read \in 0 .. Len(page) /\ Searched \in 0 .. Len(page)
        /\ 0 \in 0 .. Searched /\ 0 \in 0 .. total_read
    BY <2>2
  <2>4. x \in Nat /\ y \in Nat /\ z \in Nat
    BY <2>2, <2>3, TagsFinite, Zenon
  <2>5. x + y <= z
    BY <2>2, <2>3, TagsOfParts, Zenon
  <2>6. needle_count \in Nat /\ needle_count <= x
    BY <2>0 DEF CountInv
  <2>7. Cardinality(Occurrences(Received)) = z
    BY <2>1, <2>2, <2>3, OccurrencesAreTags, Zenon
  <2> HIDE DEF x, y, z
  <2>8. needle_count <= z
    BY <2>4, <2>5, <2>6
  <2> QED
    BY <2>7, <2>8, Zenon DEF NeverOvercounts
<1> QED
  BY <1>1, CounterConsistent, PTL

\* h1-counter.c, main: when buffers are filled, the count at the end is that of
\* the pieces of buffer_len bytes, whatever each recv returned.
THEOREM SegmentsDoNotMatter == Spec => []FillingIsDeterministic
<1>1. H1Inv => FillingIsDeterministic
  <2> SUFFICES ASSUME H1Inv, pc = "done", fill_buffer
               PROVE  needle_count = InPieces(Received, buffer_len)
    BY DEF FillingIsDeterministic
  <2>0. BytesInv /\ CountInv
    BY DEF H1Inv
  <2>1. Received = Slice(page, 0, total_read)
    BY <2>0, ReceivedIs
  <2>2. total_read \in Nat /\ buffer_len \in Nat
    BY <2>0, PageType, Zenon
  <2>3. buffer = <<>> /\ buffer_len # 0
    BY <2>0 DEF BytesInv
  <2>4. Searched = total_read
    <3>1. Len(buffer) = 0
      BY <2>3
    <3>2. total_read - 0 = total_read
      BY <2>2
    <3> QED
      BY <3>1, <3>2, Zenon DEF Searched
  <2>5. buffer_len > 0 /\ pc # "failed"
    BY <2>2, <2>3
  <2>6. needle_count = InPieces(Slice(page, 0, Searched), buffer_len)
    BY <2>0, <2>5, Zenon DEF CountInv
  <2> QED
    BY <2>1, <2>4, <2>6, Zenon
<1> QED
  BY <1>1, CounterConsistent, PTL

=============================================================================
