------------------------- MODULE FileTransferProofs -------------------------
(***************************************************************************)
(* Theorems about FileTransfer, for every number of fetchers, every set of *)
(* files and every size of the buffers and of the window.                  *)
(***************************************************************************)
EXTENDS FileTransfer, ByteSequences

-----------------------------------------------------------------------------
(* The inductive invariant                                                 *)

IsFile(n) == Store[n].kind = "file"

\* The request for a name after the opcode, and the whole answer to it when it
\* is that of a file.
Rest(n) == Append(n, NUL)
Full(n) == <<SUCCESS>> \o Wire(Store[n].data)

\* s is a complete answer: the status of an error, or the file.
Answer(n, s) ==
  \/ \E e \in Nat \ {0} : s = <<e>>
  \/ IsFile(n) /\ s = Full(n)

\* What a fetcher was sent so far, read or not.
Got(f) == IF fpc[f] = "rest" THEN (<<SUCCESS>> \o out[f]) \o down[f] ELSE down[f]

Delivered(f) ==
  out[f] # None /\ (out[f] # <<>> \/ fpc[f] = "ok") =>
    IsFile(want[f]) /\ IsPrefixOf(out[f], Wire(Store[want[f]].data))

\* Where the fetcher stands.
FetcherInv(f) ==
  /\ fpc[f] \in {"idle", "other"} => out[f] = None
  /\ fpc[f] \in {"connect", "request", "first"} => out[f] = <<>>
  /\ fpc[f] = "rest" => out[f] \in Seq(Nat)
  /\ fpc[f] \in {"connect", "request", "first", "rest"} => want[f] \in Names
  /\ fpc[f] \in {"idle", "connect"} => f \notin queue /\ cur # f
  /\ fpc[f] \in {"idle", "connect", "request"} => up[f] = <<>> /\ down[f] = <<>>
  /\ fpc[f] = "request" /\ cur = f => lpc = "action" /\ collected = None
  /\ fpc[f] \in {"ok", "error"} => Delivered(f)
  /\ left[f] => fpc[f] \in {"ok", "error"}

\* What the listener does for a fetcher that waits for its answer: nothing was
\* sent until the request is complete, and what is sent and what is held back
\* for it are together one answer.
ServedInv(f) ==
  fpc[f] \in {"first", "rest"} =>
    /\ \E r \in Seq(Nat) : Answer(want[f], Got(f) \o r)
    /\ f \in queue => Got(f) = <<>> /\ up[f] = <<FETCH>> \o Rest(want[f])
    /\ cur = f =>
         /\ lpc = "action" =>
              /\ Got(f) = <<>>
              /\ collected = None => up[f] = <<FETCH>> \o Rest(want[f])
              /\ collected # None => collected \o up[f] = Rest(want[f])
         /\ lpc = "respond" => Answer(want[f], Got(f) \o pending)
         /\ lpc = "send" =>
              /\ IsFile(want[f])
              /\ offset = 1 => Got(f) = <<>> /\ pending = <<>> /\ src = Store[want[f]].data
              /\ offset = 0 => (Got(f) \o pending) \o src = Full(want[f])

ListenerInv ==
  /\ cur = None <=> lpc \in {"accept", "closed"}
  /\ cur \notin queue
  /\ lpc \notin {"respond", "send"} => pending = <<>>
  /\ lpc = "accept" => collected = None

TransferInv ==
  /\ TypeOK
  /\ ListenerInv
  /\ \A f \in Fetchers : FetcherInv(f) /\ ServedInv(f)

-----------------------------------------------------------------------------
(* Sequences of bytes                                                      *)

LEMMA Sizes == Buffer \in Nat /\ Buffer >= 2 /\ NameCap \in Nat /\ Window \in Nat
BY SizesAssumption

LEMMA TakeDrop ==
  ASSUME NEW s \in Seq(Nat), NEW k \in 0 .. Len(s)
  PROVE  /\ SubSeq(s, 1, k) \in Seq(Nat)
         /\ Len(SubSeq(s, 1, k)) = k
         /\ \A i \in 1 .. k : SubSeq(s, 1, k)[i] = s[i]
         /\ Drop(s, k) \in Seq(Nat)
         /\ SubSeq(s, 1, k) \o Drop(s, k) = s
BY Split, Zenon DEF Drop

LEMMA Prefixes ==
  ASSUME NEW s \in Seq(Nat), NEW p \in PrefixesOf(s)
  PROVE  /\ p \in Seq(Nat)
         /\ p # <<>>
         /\ Len(p) \in 1 .. Len(s)
         /\ p = SubSeq(s, 1, Len(p))
         /\ Drop(s, Len(p)) \in Seq(Nat)
         /\ p \o Drop(s, Len(p)) = s
<1>1. PICK k \in 1 .. Len(s) : p = SubSeq(s, 1, k)
  BY DEF PrefixesOf
<1>2. k \in 0 .. Len(s)
  OBVIOUS
<1>3. p \in Seq(Nat) /\ Len(p) = k
  BY <1>1, <1>2, TakeDrop, Zenon
<1>4. p # <<>>
  BY <1>3
<1>5. Drop(s, k) \in Seq(Nat) /\ p \o Drop(s, k) = s
  BY <1>1, <1>2, TakeDrop, Zenon
<1> QED
  BY <1>1, <1>3, <1>4, <1>5

LEMMA StartIsPrefix ==
  ASSUME NEW s \in Seq(Nat), NEW t \in Seq(Nat)
  PROVE  IsPrefixOf(s, s \o t)
<1>1. Len(s) <= Len(s) + Len(t)
  OBVIOUS
<1> QED
  BY <1>1, Concat DEF IsPrefixOf

-----------------------------------------------------------------------------
(* The request                                                             *)

\* What get_action keeps of one read: the bytes before the first NUL.
LEMMA BeforeNulIs ==
  ASSUME NEW p \in Seq(Nat)
  PROVE  /\ BeforeNul(p) \in Seq(Nat)
         /\ Len(BeforeNul(p)) \in 0 .. Len(p)
         /\ BeforeNul(p) = SubSeq(p, 1, Len(BeforeNul(p)))
         /\ Len(BeforeNul(p)) < Len(p) => p[Len(BeforeNul(p)) + 1] = NUL
         /\ Len(BeforeNul(p)) = Len(p) => BeforeNul(p) = p
<1>1. CASE ~\E k \in 1 .. Len(p) : p[k] = NUL
  <2>1. BeforeNul(p) = p
    BY <1>1 DEF BeforeNul
  <2> QED
    BY <2>1, SubSeqFull
<1>2. CASE \E k \in 1 .. Len(p) : p[k] = NUL
  <2> DEFINE First(k) == p[k] = NUL /\ \A j \in 1 .. k - 1 : p[j] # NUL
             n == CHOOSE k \in 1 .. Len(p) : First(k)
             T == {k \in 1 .. Len(p) : p[k] = NUL}
  <2>1. PICK m \in T : \A k \in T : m <= k
    <3>1. T \in SUBSET Nat /\ T # {}
      BY <1>2
    <3> QED
      BY <3>1, LeastElement
  <2>2. m \in 1 .. Len(p) /\ First(m)
    BY <2>1
  <2>3. n \in 1 .. Len(p) /\ First(n)
    <3> HIDE DEF First
    <3> QED
      BY <2>2
  <2>4. BeforeNul(p) = SubSeq(p, 1, n - 1)
    BY <1>2 DEF BeforeNul
  <2> HIDE DEF n
  <2>5. n - 1 \in 0 .. Len(p) /\ n - 1 < Len(p) /\ (n - 1) + 1 = n
    BY <2>3
  <2>6. BeforeNul(p) \in Seq(Nat) /\ Len(BeforeNul(p)) = n - 1
    BY <2>4, <2>5, TakeDrop, Zenon
  <2> QED
    BY <2>3, <2>4, <2>5, <2>6
<1> QED
  BY <1>1, <1>2

LEMMA NulIsLast ==
  ASSUME NEW w \in Seq(Nat \ {0}), NEW i \in 1 .. Len(w) + 1
  PROVE  /\ Append(w, NUL) \in Seq(Nat)
         /\ Len(Append(w, NUL)) = Len(w) + 1
         /\ w \in Seq(Nat)
         /\ Append(w, NUL)[i] = NUL <=> i = Len(w) + 1
         /\ SubSeq(Append(w, NUL), 1, Len(w)) = w
<1>1. w \in Seq(Nat) /\ Len(w) \in Nat
  BY SeqMonotonic
<1>2. Append(w, NUL) \in Seq(Nat) /\ Len(Append(w, NUL)) = Len(w) + 1
  BY <1>1 DEF NUL
<1>3. Append(w, NUL)[Len(w) + 1] = NUL /\ \A j \in 1 .. Len(w) : Append(w, NUL)[j] = w[j]
  BY <1>1
<1>4. \A j \in 1 .. Len(w) : w[j] # NUL
  BY DEF NUL
<1>5. SubSeq(Append(w, NUL), 1, Len(w)) = w
  BY <1>1, <1>2, <1>3
<1>6. Append(w, NUL)[i] = NUL <=> i = Len(w) + 1
  BY <1>1, <1>3, <1>4
<1> QED
  BY <1>1, <1>2, <1>5, <1>6

\* c has been collected of the request, b is the next read, r is left.
LEMMA NameIsRead ==
  ASSUME NEW w \in Seq(Nat \ {0}), NEW c \in Seq(Nat), NEW b \in Seq(Nat), NEW r \in Seq(Nat),
         NEW u \in Seq(Nat), Joins(b, r, u), Joins(c, u, Append(w, NUL))
  PROVE  LET t == BeforeNul(b)
         IN  /\ Len(t) < Len(b) => c \o t = w
             /\ ~(Len(t) < Len(b)) => Joins(c \o t, r, Append(w, NUL))
<1> DEFINE t == BeforeNul(b)
           k == Len(b)
<1>1. /\ k \in Nat /\ Len(u) \in Nat /\ k <= Len(u)
      /\ \A i \in 1 .. k : b[i] = u[i]
  <2>1. Len(b \o r) = Len(b) + Len(r) /\ \A i \in 1 .. Len(b) : (b \o r)[i] = b[i]
    BY Concat, Zenon
  <2>2. Len(u) = Len(b) + Len(r) /\ \A i \in 1 .. Len(b) : u[i] = b[i]
    BY <2>1, Zenon DEF Joins
  <2>3. Len(b) \in Nat /\ Len(r) \in Nat /\ Len(u) \in Nat
    BY LenProperties, Zenon
  <2> QED
    BY <2>2, <2>3
<1>2. /\ t \in Seq(Nat)
      /\ Len(t) \in 0 .. Len(b)
      /\ t = SubSeq(b, 1, Len(t))
      /\ Len(t) < Len(b) => b[Len(t) + 1] = NUL
      /\ Len(t) = Len(b) => t = b
  BY BeforeNulIs, Zenon
<1>6. c \o u = Append(w, NUL)
  BY DEF Joins
<1> HIDE DEF t
<1>5. Len(t) \in Nat /\ Len(t) <= k
  BY <1>1, <1>2
<1>3. ASSUME Len(t) < Len(b) PROVE c \o t = w
  <2> DEFINE i == Len(c) + Len(t) + 1
  <2>1. /\ Len(c) \in Nat /\ Len(u) \in Nat /\ Len(w) \in Nat /\ Len(t) \in Nat
        /\ Len(c) + Len(u) = Len(w) + 1
    <3>1. Len(c \o u) = Len(c) + Len(u)
      BY Concat
    <3>2. Len(Append(w, NUL)) = Len(w) + 1
      BY DEF NUL
    <3> QED
      BY <3>1, <3>2, <1>1, <1>2, <1>6
  <2>2. i \in Len(c) + 1 .. Len(c) + Len(u) /\ i - Len(c) = Len(t) + 1 /\ i \in 1 .. Len(w) + 1
    BY <1>1, <1>3, <1>5, <2>1
  <2>3. u[Len(t) + 1] = NUL
    <3>1. Len(t) + 1 \in 1 .. k
      BY <1>1, <1>3, <1>5
    <3> QED
      BY <3>1, <1>1, <1>2, <1>3, Zenon
  <2> HIDE DEF i
  <2>4. (c \o u)[i] = u[i - Len(c)]
    BY <2>2, Concat, Zenon
  <2>5. Append(w, NUL)[i] = NUL
    BY <1>6, <2>2, <2>3, <2>4, Zenon
  <2>6. i = Len(w) + 1
    BY <2>2, <2>5, NulIsLast, Zenon
  <2>7. Len(c \o t) = Len(w)
    BY <2>1, <2>6, <1>2, Concat DEF i
  <2>8. ASSUME NEW j \in 1 .. Len(w) PROVE (c \o t)[j] = w[j]
    <3>1. Append(w, NUL)[j] = w[j]
      OBVIOUS
    <3>2. CASE j <= Len(c)
      <4>1. j \in 1 .. Len(c)
        BY <2>1, <3>2
      <4>2. t \in Seq(Nat)
        BY <1>2
      <4>3. (c \o t)[j] = c[j]
        BY <4>1, <4>2, Concat, ZenonT(40)
      <4>4. (c \o u)[j] = c[j]
        BY <4>1, Concat, ZenonT(40)
      <4> QED
        BY <4>3, <4>4, <3>1, <1>6, Zenon
    <3>3. CASE j > Len(c)
      <4>1. /\ j \in Len(c) + 1 .. Len(c) + Len(t) /\ j \in Len(c) + 1 .. Len(c) + Len(u)
            /\ j - Len(c) \in 1 .. Len(t) /\ j - Len(c) \in 1 .. k
        BY <2>1, <2>6, <3>3, <1>1, <1>3, <1>5, SMTT(60) DEF i
      <4>2. (c \o t)[j] = t[j - Len(c)] /\ (c \o u)[j] = u[j - Len(c)]
        BY <4>1, <1>2, Concat, ZenonT(40)
      <4>3. SubSeq(b, 1, Len(t))[j - Len(c)] = b[j - Len(c)]
        BY <4>1, <1>2, TakeDrop, Zenon
      <4> QED
        BY <4>1, <4>2, <4>3, <3>1, <1>1, <1>2, <1>6, Zenon
    <3>4. j <= Len(c) \/ j > Len(c)
      BY <2>1
    <3> QED
      BY <3>2, <3>3, <3>4, Zenon
  <2>9. c \o t \in Seq(Nat) /\ w \in Seq(Nat)
    BY <1>2, Concat, SeqMonotonic
  <2> QED
    BY <2>7, <2>8, <2>9, SeqEqual, Zenon
<1>4. ASSUME ~(Len(t) < Len(b)) PROVE Joins(c \o t, r, Append(w, NUL))
  <2>1. t = b
    <3>1. Len(t) = Len(b)
      BY <1>1, <1>4, <1>5
    <3> QED
      BY <1>2, <3>1
  <2>2. Joins(c, b, c \o b)
    BY DEF Joins
  <2>3. Joins(c \o b, r, Append(w, NUL))
    BY <2>2, Regroup
  <2> QED
    BY <2>1, <2>3
<1> QED
  BY <1>3, <1>4 DEF t

-----------------------------------------------------------------------------
(* The answer                                                              *)

LEMMA Minimum ==
  ASSUME NEW x \in Nat \ {0}, NEW y \in Nat \ {0}
  PROVE  Min2(x, y) \in Nat \ {0} /\ Min2(x, y) \in 0 .. x
BY DEF Min2

LEMMA FirstBytes ==
  ASSUME NEW x \in Seq(Nat), NEW k \in Nat \ {0}, Len(x) = k
  PROVE  SubSeq(<<SUCCESS>> \o x, 1, k) = <<SUCCESS>> \o SubSeq(x, 1, k - 1)
<1> DEFINE y == <<SUCCESS>> \o x
           z == SubSeq(x, 1, k - 1)
           l == SubSeq(y, 1, k)
           r == <<SUCCESS>> \o z
<1>1. <<SUCCESS>> \in Seq(Nat) /\ Len(<<SUCCESS>>) = 1 /\ <<SUCCESS>>[1] = SUCCESS
  BY DEF SUCCESS
<1>2. k - 1 \in 0 .. Len(x) /\ Len(x) \in Nat
  OBVIOUS
<1>3. z \in Seq(Nat) /\ Len(z) = k - 1 /\ \A i \in 1 .. k - 1 : z[i] = x[i]
  BY <1>2, TakeDrop, Zenon
<1>4. /\ y \in Seq(Nat) /\ Len(y) = Len(<<SUCCESS>>) + Len(x)
      /\ \A i \in 1 .. Len(<<SUCCESS>>) : y[i] = <<SUCCESS>>[i]
      /\ \A i \in Len(<<SUCCESS>>) + 1 .. Len(<<SUCCESS>>) + Len(x) : y[i] = x[i - Len(<<SUCCESS>>)]
  BY <1>1, Concat, Zenon
<1>5. k \in 0 .. Len(y)
  <2> HIDE DEF y
  <2> QED
    BY <1>1, <1>2, <1>4
<1>6. l \in Seq(Nat) /\ Len(l) = k /\ \A i \in 1 .. k : l[i] = y[i]
  BY <1>4, <1>5, TakeDrop, Zenon
<1> HIDE DEF z, l
<1>7. /\ r \in Seq(Nat) /\ Len(r) = Len(<<SUCCESS>>) + Len(z)
      /\ \A i \in 1 .. Len(<<SUCCESS>>) : r[i] = <<SUCCESS>>[i]
      /\ \A i \in Len(<<SUCCESS>>) + 1 .. Len(<<SUCCESS>>) + Len(z) : r[i] = z[i - Len(<<SUCCESS>>)]
  BY <1>1, <1>3, Concat, Zenon
<1> DEFINE one == <<SUCCESS>>
<1> HIDE DEF y, r, one
<1>8. Len(l) = Len(r)
  BY <1>1, <1>3, <1>6, <1>7 DEF one
<1>9. ASSUME NEW i \in 1 .. Len(l) PROVE l[i] = r[i]
  <2>1. CASE i = 1
    <3>1. 1 \in 1 .. Len(<<SUCCESS>>) /\ i \in 1 .. k
      BY <1>1, <1>6
    <3> QED
      BY <2>1, <3>1, <1>4, <1>6, <1>7, ZenonT(40)
  <2>2. CASE i # 1
    <3>1. /\ i \in Len(<<SUCCESS>>) + 1 .. Len(<<SUCCESS>>) + Len(x)
          /\ i \in Len(<<SUCCESS>>) + 1 .. Len(<<SUCCESS>>) + Len(z)
          /\ i - Len(<<SUCCESS>>) \in 1 .. k - 1 /\ i \in 1 .. k
      <4>1. Len(<<SUCCESS>>) = 1 /\ Len(z) = k - 1 /\ Len(l) = k
        BY <1>1, <1>3, <1>6, Zenon
      <4>2. i \in 1 .. k /\ i \in 2 .. 1 + k /\ i \in 2 .. 1 + (k - 1) /\ i - 1 \in 1 .. k - 1
        BY <2>2, <4>1
      <4> QED
        BY <4>1, <4>2
    <3>2. l[i] = y[i]
      BY <3>1, <1>6, Zenon
    <3>3. y[i] = x[i - Len(<<SUCCESS>>)]
      BY <3>1, <1>4, Zenon
    <3>4. r[i] = z[i - Len(<<SUCCESS>>)]
      BY <3>1, <1>7, Zenon
    <3>5. z[i - Len(<<SUCCESS>>)] = x[i - Len(<<SUCCESS>>)]
      BY <3>1, <1>3, Zenon
    <3> QED
      BY <3>2, <3>3, <3>4, <3>5, Zenon
  <2> QED
    BY <2>1, <2>2, Zenon
<1>10. l = r
  BY <1>6, <1>7, <1>8, <1>9, SeqEqual, Zenon
<1> QED
  BY <1>10 DEF l, r, y, z

\* The first chunk and what is left of the file are the whole answer.
LEMMA FirstChunk ==
  ASSUME NEW d \in Seq(Nat), d # <<>>
  PROVE  LET k == Min2(Len(d), Buffer - 1)
             b == SubSeq(<<SUCCESS>> \o SubSeq(d, 1, k), 1, k)
         IN  /\ b \in Seq(Nat)
             /\ Drop(d, k) \in Seq(Nat)
             /\ b \o Drop(d, k) = <<SUCCESS>> \o Wire(d)
<1> DEFINE k == Min2(Len(d), Buffer - 1)
           x == SubSeq(d, 1, k)
<1>1. Len(d) \in Nat \ {0} /\ Buffer - 1 \in Nat \ {0}
  BY Sizes
<1>2. k \in Nat \ {0} /\ k \in 0 .. Len(d)
  BY <1>1, Minimum, Zenon
<1>3. Wire(d) = SubSeq(d, 1, k - 1) \o Drop(d, k)
  BY DEF Wire
<1> HIDE DEF k
<1>4. /\ x \in Seq(Nat) /\ Len(x) = k /\ \A i \in 1 .. k : x[i] = d[i]
      /\ Drop(d, k) \in Seq(Nat)
  BY <1>2, TakeDrop, Zenon
<1>5. SubSeq(<<SUCCESS>> \o x, 1, k) = <<SUCCESS>> \o SubSeq(x, 1, k - 1)
  BY <1>2, <1>4, FirstBytes, Zenon
<1>6. /\ SubSeq(x, 1, k - 1) \in Seq(Nat) /\ Len(SubSeq(x, 1, k - 1)) = k - 1
      /\ \A i \in 1 .. k - 1 : SubSeq(x, 1, k - 1)[i] = x[i]
      /\ SubSeq(d, 1, k - 1) \in Seq(Nat) /\ Len(SubSeq(d, 1, k - 1)) = k - 1
      /\ \A i \in 1 .. k - 1 : SubSeq(d, 1, k - 1)[i] = d[i]
  <2>1. k - 1 \in 0 .. Len(x) /\ k - 1 \in 0 .. Len(d)
    BY <1>2, <1>4
  <2> QED
    BY <1>4, <2>1, TakeDrop, Zenon
<1>7. SubSeq(x, 1, k - 1) = SubSeq(d, 1, k - 1)
  <2> DEFINE l == SubSeq(x, 1, k - 1)
             r == SubSeq(d, 1, k - 1)
  <2> HIDE DEF l, r, x
  <2>1. ASSUME NEW i \in 1 .. Len(l) PROVE l[i] = r[i]
    <3>1. i \in 1 .. k - 1 /\ i \in 1 .. k
      BY <1>2, <1>6 DEF l
    <3> QED
      BY <3>1, <1>4, <1>6, Zenon DEF l, r
  <2>2. l \in Seq(Nat) /\ r \in Seq(Nat) /\ Len(l) = Len(r)
    BY <1>6, Zenon DEF l, r
  <2>3. l = r
    BY <2>1, <2>2, SeqEqual, Zenon
  <2> QED
    BY <2>3 DEF l, r
<1>8. <<SUCCESS>> \in Seq(Nat)
  BY DEF SUCCESS
<1>9. <<SUCCESS>> \o SubSeq(d, 1, k - 1) \in Seq(Nat)
  BY <1>6, <1>8, Concat, Zenon
<1>10. (<<SUCCESS>> \o SubSeq(d, 1, k - 1)) \o Drop(d, k) = <<SUCCESS>> \o Wire(d)
  <2> DEFINE l == SubSeq(d, 1, k - 1)
             r == Drop(d, k)
             one == <<SUCCESS>>
  <2>1. l \in Seq(Nat) /\ r \in Seq(Nat) /\ one \in Seq(Nat) /\ Wire(d) = l \o r
    BY <1>3, <1>4, <1>6, <1>8, Zenon
  <2> HIDE DEF l, r, one
  <2>2. (one \o l) \o r = one \o (l \o r)
    BY <2>1, Assoc
  <2>3. (one \o l) \o r = one \o Wire(d)
    BY <2>1, <2>2
  <2> QED
    BY <2>3 DEF l, r, one
<1>11. <<SUCCESS>> \o x = <<SUCCESS>> \o SubSeq(d, 1, k)
  OBVIOUS
<1> DEFINE b == SubSeq(<<SUCCESS>> \o SubSeq(d, 1, k), 1, k)
<1>12. b = <<SUCCESS>> \o SubSeq(d, 1, k - 1)
  BY <1>5, <1>7, Zenon
<1> HIDE DEF x, b
<1>13. b \in Seq(Nat) /\ Drop(d, k) \in Seq(Nat) /\ b \o Drop(d, k) = <<SUCCESS>> \o Wire(d)
  BY <1>4, <1>9, <1>10, <1>12, Zenon
<1> QED
  BY <1>13 DEF b, k

LEMMA WireIsBytes == ASSUME NEW d \in Seq(Nat) PROVE Wire(d) \in Seq(Nat)
<1> DEFINE k == Min2(Len(d), Buffer - 1)
<1>1. CASE d = <<>>
  BY <1>1, Empty DEF Wire
<1>2. CASE d # <<>>
  <2>1. Len(d) \in Nat \ {0} /\ Buffer - 1 \in Nat \ {0}
    BY <1>2, Sizes
  <2>2. k - 1 \in 0 .. Len(d) /\ k \in 0 .. Len(d)
    <3>1. k \in Nat \ {0} /\ k \in 0 .. Len(d)
      BY <2>1, Minimum, Zenon
    <3> HIDE DEF k
    <3> QED
      BY <3>1
  <2>3. Wire(d) = SubSeq(d, 1, k - 1) \o Drop(d, k)
    BY <1>2 DEF Wire
  <2> HIDE DEF k
  <2>4. SubSeq(d, 1, k - 1) \in Seq(Nat) /\ Drop(d, k) \in Seq(Nat)
    BY <2>2, TakeDrop, Zenon
  <2>5. SubSeq(d, 1, k - 1) \o Drop(d, k) \in Seq(Nat)
    BY <2>4, Concat, Zenon
  <2> QED
    BY <2>3, <2>5, Zenon
<1> QED
  BY <1>1, <1>2

LEMMA StoreType ==
  ASSUME NEW n \in Names
  PROVE  /\ n \in Seq(Nat \ {0})
         /\ Store[n] \in Entries
         /\ Store[n].data \in Seq(Nat)
         /\ Wire(Store[n].data) \in Seq(Nat)
<1>1. n \in Seq(Nat \ {0}) /\ Store[n] \in Entries
  BY StoreAssumption
<1>2. Store[n].data \in Seq(Nat)
  BY <1>1 DEF Entries
<1> QED
  BY <1>1, <1>2, WireIsBytes

\* The bytes of the request, as SendRequest writes them.
LEMMA RequestIs ==
  ASSUME NEW w \in Seq(Nat)
  PROVE  /\ Append(<<FETCH>> \o w, NUL) \in Seq(Nat)
         /\ Append(<<FETCH>> \o w, NUL) = <<FETCH>> \o Append(w, NUL)
<1>1. FETCH \in Nat /\ NUL \in Nat /\ <<FETCH>> \in Seq(Nat) /\ <<NUL>> \in Seq(Nat)
  BY DEF FETCH, NUL
<1> DEFINE op == <<FETCH>>
           end == <<NUL>>
<1>2. op \in Seq(Nat) /\ end \in Seq(Nat) /\ op \o w \in Seq(Nat)
  BY <1>1, Concat, Zenon
<1>3. Append(op \o w, NUL) = (op \o w) \o end /\ Append(w, NUL) = w \o end
  BY <1>1, <1>2, AppendIsConcat, Zenon
<1> HIDE DEF op, end
<1>4. (op \o w) \o end = op \o (w \o end)
  BY <1>2, Assoc, SMTT(30)
<1>5. Append(op \o w, NUL) \in Seq(Nat)
  BY <1>1, <1>2, AppendProperties, Zenon
<1>6. Append(op \o w, NUL) = op \o Append(w, NUL)
  BY <1>3, <1>4, Zenon
<1> QED
  BY <1>5, <1>6 DEF op

-----------------------------------------------------------------------------
(* What a step leaves alone                                                *)

Still(g) ==
  /\ fpc'[g] = fpc[g] /\ want'[g] = want[g] /\ out'[g] = out[g]
  /\ up'[g] = up[g] /\ down'[g] = down[g] /\ left'[g] = left[g]

LEMMA SameGot ==
  ASSUME NEW g \in Fetchers, Still(g)
  PROVE  Got(g)' = Got(g)
BY DEF Still, Got

LEMMA SameDelivery ==
  ASSUME NEW g \in Fetchers, Still(g)
  PROVE  Delivered(g)' <=> Delivered(g)
BY DEF Still, Delivered, IsFile

\* A fetcher that is not served after a step that does not concern it.
LEMMA NotServed ==
  ASSUME NEW g \in Fetchers, Still(g), cur' # g, g \in queue' => g \in queue,
         FetcherInv(g), ServedInv(g)
  PROVE  FetcherInv(g)' /\ ServedInv(g)'
<1>1. FetcherInv(g)'
  BY SameDelivery DEF FetcherInv, Still
<1>2. Got(g)' = Got(g) /\ want'[g] = want[g]
  BY SameGot DEF Still
<1>3. ASSUME fpc'[g] \in {"first", "rest"} PROVE \E r \in Seq(Nat) : Answer(want[g], Got(g) \o r)'
  <2>1. PICK r \in Seq(Nat) : Answer(want[g], Got(g) \o r)
    BY <1>3 DEF ServedInv, Still
  <2>2. Answer(want'[g], Got(g)' \o r)
    BY <1>2, <2>1
  <2> QED
    BY <2>2
<1>4. ASSUME fpc'[g] \in {"first", "rest"}, g \in queue'
      PROVE  Got(g)' = <<>> /\ up'[g] = <<FETCH>> \o Rest(want'[g])
  BY <1>2, <1>4 DEF ServedInv, Still
<1> QED
  BY <1>1, <1>3, <1>4 DEF ServedInv

LEMMA OthersStay ==
  ASSUME NEW g \in Fetchers, Still(g), g \in queue' <=> g \in queue, UNCHANGED listenVars,
         FetcherInv(g), ServedInv(g)
  PROVE  FetcherInv(g)' /\ ServedInv(g)'
<1>1. CASE cur # g
  BY <1>1, NotServed DEF listenVars
<1>2. CASE cur = g
  <2>1. FetcherInv(g)'
    BY SameDelivery DEF FetcherInv, Still, listenVars
  <2>2. Got(g)' = Got(g) /\ want'[g] = want[g]
    BY SameGot DEF Still
  <2>3. ASSUME fpc'[g] \in {"first", "rest"} PROVE \E r \in Seq(Nat) : Answer(want[g], Got(g) \o r)'
    <3>1. PICK r \in Seq(Nat) : Answer(want[g], Got(g) \o r)
      BY <2>3 DEF ServedInv, Still
    <3>2. Answer(want'[g], Got(g)' \o r)
      BY <2>2, <3>1
    <3> QED
      BY <3>2
  <2>4. fpc'[g] = fpc[g] /\ up'[g] = up[g] /\ want'[g] = want[g]
    BY DEF Still
  <2>5. /\ lpc' = lpc /\ cur' = cur /\ collected' = collected
        /\ src' = src /\ offset' = offset /\ pending' = pending
    BY DEF listenVars
  <2>6. ServedInv(g)'
    BY <2>2, <2>3, <2>4, <2>5 DEF ServedInv
  <2> QED
    BY <2>1, <2>6
<1> QED
  BY <1>1, <1>2

LEMMA FetcherStep ==
  ASSUME NEW f \in Fetchers, TransferInv, TypeOK', UNCHANGED listenVars, cur \notin queue',
         \A g \in Fetchers \ {f} : Still(g) /\ (g \in queue' <=> g \in queue),
         FetcherInv(f)', ServedInv(f)'
  PROVE  TransferInv'
<1>1. ListenerInv'
  BY DEF TransferInv, ListenerInv, listenVars
<1>2. ASSUME NEW g \in Fetchers PROVE FetcherInv(g)' /\ ServedInv(g)'
  <2>1. CASE g # f
    BY <2>1, OthersStay DEF TransferInv
  <2> QED
    BY <2>1
<1> QED
  BY <1>1, <1>2 DEF TransferInv

LEMMA ListenerStep ==
  ASSUME NEW h, TransferInv, TypeOK', ListenerInv',
         \A g \in Fetchers \ {h} : Still(g) /\ (g \in queue' => g \in queue) /\ cur' # g,
         h \in Fetchers => FetcherInv(h)' /\ ServedInv(h)'
  PROVE  TransferInv'
<1>1. ASSUME NEW g \in Fetchers PROVE FetcherInv(g)' /\ ServedInv(g)'
  <2>1. CASE g # h
    BY <2>1, NotServed DEF TransferInv
  <2> QED
    BY <2>1
<1> QED
  BY <1>1 DEF TransferInv

\* Whatever was asked for, nothing is the beginning of an answer.
LEMMA NothingYet == ASSUME NEW n PROVE \E r \in Seq(Nat) : Answer(n, <<>> \o r)
<1>1. <<1>> \in Seq(Nat) /\ <<>> \o <<1>> = <<1>> /\ 1 \in Nat \ {0}
  OBVIOUS
<1>2. Answer(n, <<1>>)
  BY <1>1, Zenon DEF Answer
<1> QED
  BY <1>1, <1>2, Zenon

-----------------------------------------------------------------------------
(* What a fetcher holds                                                    *)

\* After a zero status byte the answer is the file's, and the output a part of it.
LEMMA RestIsFile ==
  ASSUME NEW f \in Fetchers, TransferInv, fpc[f] = "rest"
  PROVE  IsFile(want[f]) /\ IsPrefixOf(out[f], Wire(Store[want[f]].data))
<1> DEFINE one == <<SUCCESS>>
           o == out[f]
           d == down[f]
           w == Wire(Store[want[f]].data)
<1>1. PICK r \in Seq(Nat) : Answer(want[f], Got(f) \o r)
  BY DEF TransferInv, ServedInv
<1>2. want[f] \in Names /\ o \in Seq(Nat) /\ d \in Seq(Nat)
  BY DEF TransferInv, FetcherInv, TypeOK
<1>3. w \in Seq(Nat) /\ one \in Seq(Nat) /\ Len(one) = 1 /\ one[1] = 0
  BY <1>2, StoreType DEF SUCCESS
<1>4. Got(f) \o r = ((one \o o) \o d) \o r
  BY DEF Got
<1>5. Answer(want[f], ((one \o o) \o d) \o r)
  BY <1>1, <1>4, Zenon
<1>6. Full(want[f]) = one \o w
  BY DEF Full
<1> DEFINE x == o \o (d \o r)
<1> HIDE DEF one, o, d, w
<1>7. d \o r \in Seq(Nat) /\ x \in Seq(Nat) /\ one \o o \in Seq(Nat)
  BY <1>2, <1>3, Concat
<1>8. ((one \o o) \o d) \o r = one \o x
  <2> DEFINE a == one \o o
             y == d \o r
  <2>1. a \in Seq(Nat) /\ y \in Seq(Nat) /\ x = o \o y
    BY <1>7, Zenon
  <2>2. Joins(one, o, a) /\ Joins(o, y, x) /\ Joins(one, x, one \o x) /\ Joins(d, r, y)
    BY Zenon DEF Joins
  <2> HIDE DEF x, y, a
  <2>3. Joins(a, y, one \o x)
    BY <1>2, <1>3, <2>1, <2>2, Regroup
  <2>4. (a \o d) \o r = a \o y
    <3>1. a \o (d \o r) = a \o y
      BY DEF y
    <3> QED
      BY <1>2, <2>1, <3>1, Assoc, ZenonT(60)
  <2> QED
    BY <2>3, <2>4, Zenon DEF Joins, a
<1> HIDE DEF x
<1>9. (one \o x)[1] = 0
  <2>1. 1 \in 1 .. Len(one)
    BY <1>3
  <2>2. (one \o x)[1] = one[1]
    BY <1>3, <1>7, <2>1, Concat, ZenonT(40)
  <2> QED
    BY <1>3, <2>2
<1>10. ~\E e \in Nat \ {0} : one \o x = <<e>>
  <2> SUFFICES ASSUME NEW e \in Nat \ {0}, one \o x = <<e>> PROVE FALSE
    BY Zenon
  <2>1. <<e>>[1] = e /\ e # 0
    OBVIOUS
  <2> QED
    BY <1>9, <2>1, Zenon
<1>11. IsFile(want[f]) /\ one \o x = one \o w
  BY <1>5, <1>6, <1>8, <1>10, Zenon DEF Answer
<1>12. x = w
  BY <1>3, <1>7, <1>11, Cancel, Zenon
<1>13. IsPrefixOf(o, o \o (d \o r))
  BY <1>2, <1>7, StartIsPrefix, Zenon
<1>14. IsPrefixOf(o, w)
  BY <1>12, <1>13 DEF x
<1> QED
  BY <1>11, <1>14 DEF o, w

LEMMA AlwaysDelivered == ASSUME NEW f \in Fetchers, TransferInv PROVE Delivered(f)
<1>1. FetcherInv(f) /\ fpc[f] \in {"idle", "connect", "request", "first", "rest", "other", "ok", "error"}
  BY DEF TransferInv, TypeOK
<1>2. CASE fpc[f] = "rest"
  BY <1>2, RestIsFile DEF Delivered
<1> QED
  BY <1>1, <1>2 DEF FetcherInv, Delivered

\* However a fetch fails, it leaves what was delivered.
LEMMA Ended ==
  ASSUME NEW f \in Fetchers, TransferInv, fpc'[f] = "error", out'[f] = out[f], want'[f] = want[f]
  PROVE  FetcherInv(f)' /\ ServedInv(f)'
<1>1. Delivered(f)'
  BY AlwaysDelivered DEF Delivered
<1> QED
  BY <1>1 DEF FetcherInv, ServedInv

-----------------------------------------------------------------------------
(* Steps of a fetcher                                                      *)

LEMMA SearchFoundInv ==
  ASSUME NEW f \in Fetchers, NEW n \in Names, TransferInv, SearchFound(f, n)
  PROVE  TransferInv'
<1>1. TypeOK'
  BY Empty DEF TransferInv, TypeOK, SearchFound, listenVars
<1>2. FetcherInv(f)' /\ ServedInv(f)'
  BY DEF TransferInv, TypeOK, FetcherInv, ServedInv, SearchFound, listenVars
<1>3. \A g \in Fetchers \ {f} : Still(g) /\ (g \in queue' <=> g \in queue)
  BY DEF TransferInv, TypeOK, SearchFound, Still
<1> QED
  BY <1>1, <1>2, <1>3, FetcherStep DEF SearchFound, TransferInv, ListenerInv

LEMMA SearchFailsInv ==
  ASSUME NEW f \in Fetchers, TransferInv, SearchFails(f)
  PROVE  TransferInv'
<1>1. TypeOK'
  BY DEF TransferInv, TypeOK, SearchFails, listenVars
<1>2. FetcherInv(f)' /\ ServedInv(f)'
  BY Ended DEF TransferInv, TypeOK, SearchFails
<1>3. \A g \in Fetchers \ {f} : Still(g) /\ (g \in queue' <=> g \in queue)
  BY DEF TransferInv, TypeOK, SearchFails, Still
<1> QED
  BY <1>1, <1>2, <1>3, FetcherStep DEF SearchFails, TransferInv, ListenerInv

LEMMA ConnectInv ==
  ASSUME NEW f \in Fetchers, TransferInv, Connect(f)
  PROVE  TransferInv'
<1>1. TypeOK'
  BY DEF TransferInv, TypeOK, Connect, listenVars
<1>2. FetcherInv(f)' /\ ServedInv(f)'
  BY DEF TransferInv, TypeOK, FetcherInv, ServedInv, Connect, listenVars
<1>3. \A g \in Fetchers \ {f} : Still(g) /\ (g \in queue' <=> g \in queue)
  BY DEF TransferInv, TypeOK, Connect, Still
<1>4. cur \notin queue'
  BY DEF TransferInv, ListenerInv, FetcherInv, Connect
<1> QED
  BY <1>1, <1>2, <1>3, <1>4, FetcherStep DEF Connect

LEMMA ConnectFailsInv ==
  ASSUME NEW f \in Fetchers, TransferInv, ConnectFails(f)
  PROVE  TransferInv'
<1>1. TypeOK'
  BY DEF TransferInv, TypeOK, ConnectFails, listenVars
<1>2. FetcherInv(f)' /\ ServedInv(f)'
  BY Ended DEF TransferInv, TypeOK, ConnectFails
<1>3. \A g \in Fetchers \ {f} : Still(g) /\ (g \in queue' <=> g \in queue)
  BY DEF TransferInv, TypeOK, ConnectFails, Still
<1> QED
  BY <1>1, <1>2, <1>3, FetcherStep DEF ConnectFails, TransferInv, ListenerInv

LEMMA SendOtherInv ==
  ASSUME NEW f \in Fetchers, NEW op \in OtherOpcodes, TransferInv, SendOther(f, op)
  PROVE  TransferInv'
<1>1. TypeOK'
  <2>1. <<op>> \in Seq(Nat)
    BY DEF OtherOpcodes
  <2> QED
    BY <2>1 DEF TransferInv, TypeOK, SendOther, listenVars
<1>2. FetcherInv(f)' /\ ServedInv(f)'
  BY DEF TransferInv, TypeOK, FetcherInv, ServedInv, SendOther, listenVars
<1>3. \A g \in Fetchers \ {f} : Still(g) /\ (g \in queue' <=> g \in queue)
  BY DEF TransferInv, TypeOK, SendOther, Still
<1>4. cur \notin queue'
  BY DEF TransferInv, ListenerInv, FetcherInv, SendOther
<1> QED
  BY <1>1, <1>2, <1>3, <1>4, FetcherStep DEF SendOther

LEMMA SendRequestInv ==
  ASSUME NEW f \in Fetchers, TransferInv, SendRequest(f)
  PROVE  TransferInv'
<1>0. want[f] \in Names /\ want[f] \in Seq(Nat)
  <2>1. want[f] \in Names
    BY DEF TransferInv, FetcherInv, SendRequest
  <2> QED
    BY <2>1, StoreType, SeqMonotonic
<1> DEFINE req == Append(<<FETCH>> \o want[f], NUL)
<1>1. req \in Seq(Nat) /\ req = <<FETCH>> \o Rest(want[f])
  BY <1>0, RequestIs DEF Rest
<1>2. up' = [up EXCEPT ![f] = req]
  BY DEF SendRequest
<1> HIDE DEF req
<1>3. /\ fpc' = [fpc EXCEPT ![f] = "first"]
      /\ UNCHANGED <<want, out, down, left, ended, queue, listenVars, accept_conn>>
  BY DEF SendRequest
<1>4. TypeOK'
  BY <1>1, <1>2, <1>3 DEF TransferInv, TypeOK, listenVars
<1>5. /\ fpc'[f] = "first" /\ fpc[f] = "request" /\ up'[f] = req
      /\ want'[f] = want[f] /\ out'[f] = out[f] /\ down'[f] = down[f] /\ left'[f] = left[f]
      /\ down[f] = <<>>
  BY <1>2, <1>3 DEF TransferInv, TypeOK, FetcherInv, SendRequest
<1>6. FetcherInv(f)'
  BY <1>5 DEF TransferInv, FetcherInv
<1>7. Got(f)' = <<>>
  BY <1>5 DEF Got
<1>8. \E r \in Seq(Nat) : Answer(want'[f], Got(f)' \o r)
  BY <1>7, NothingYet, Zenon
<1>9. cur' = f => lpc' = "action" /\ collected' = None
  BY <1>3, <1>5 DEF TransferInv, FetcherInv, listenVars
<1>10. ServedInv(f)'
  BY <1>1, <1>5, <1>7, <1>8, <1>9 DEF ServedInv
<1>11. \A g \in Fetchers \ {f} : Still(g) /\ (g \in queue' <=> g \in queue)
  BY <1>2, <1>3 DEF TransferInv, TypeOK, Still
<1> QED
  BY <1>3, <1>4, <1>6, <1>10, <1>11, FetcherStep DEF TransferInv, ListenerInv

LEMMA SendRequestFailsInv ==
  ASSUME NEW f \in Fetchers, TransferInv, SendRequestFails(f)
  PROVE  TransferInv'
<1>1. TypeOK'
  BY DEF TransferInv, TypeOK, SendRequestFails, Returns, listenVars
<1>2. FetcherInv(f)' /\ ServedInv(f)'
  BY Ended DEF TransferInv, TypeOK, SendRequestFails, Returns
<1>3. \A g \in Fetchers \ {f} : Still(g) /\ (g \in queue' <=> g \in queue)
  BY DEF TransferInv, TypeOK, SendRequestFails, Returns, Still
<1> QED
  BY <1>1, <1>2, <1>3, FetcherStep DEF SendRequestFails, TransferInv, ListenerInv

LEMMA ReadErrorInv ==
  ASSUME NEW f \in Fetchers, TransferInv, ReadError(f)
  PROVE  TransferInv'
<1>1. TypeOK'
  BY DEF TransferInv, TypeOK, ReadError, Returns, listenVars
<1>2. FetcherInv(f)' /\ ServedInv(f)'
  BY Ended DEF TransferInv, TypeOK, ReadError, Returns
<1>3. \A g \in Fetchers \ {f} : Still(g) /\ (g \in queue' <=> g \in queue)
  BY DEF TransferInv, TypeOK, ReadError, Returns, Still
<1> QED
  BY <1>1, <1>2, <1>3, FetcherStep DEF ReadError, TransferInv, ListenerInv

LEMMA FetcherDiesInv ==
  ASSUME NEW f \in Fetchers, TransferInv, FetcherDies(f)
  PROVE  TransferInv'
<1>0. /\ fpc' = [fpc EXCEPT ![f] = "error"]
      /\ left' = [left EXCEPT ![f] = TRUE]
      /\ UNCHANGED <<want, out, down, ended, queue, listenVars, accept_conn>>
  BY DEF FetcherDies, Returns
<1>1. \E p \in Seq(Nat) : up' = [up EXCEPT ![f] = p]
  <2>1. CASE UNCHANGED up
    <3>1. up[f] \in Seq(Nat) /\ up' = [up EXCEPT ![f] = up[f]]
      BY <2>1 DEF TransferInv, TypeOK
    <3> QED
      BY <3>1
  <2>2. CASE /\ fpc[f] = "request"
             /\ \E p \in PrefixesOf(<<FETCH>> \o want[f]) : up' = [up EXCEPT ![f] = p]
    <3>1. want[f] \in Seq(Nat)
      BY <2>2, StoreType, SeqMonotonic DEF TransferInv, FetcherInv
    <3>2. <<FETCH>> \in Seq(Nat)
      BY DEF FETCH
    <3>3. <<FETCH>> \o want[f] \in Seq(Nat)
      BY <3>1, <3>2, Concat, Zenon
    <3> QED
      BY <2>2, <3>3, Prefixes, Zenon
  <2> QED
    BY <2>1, <2>2, Zenon DEF FetcherDies
<1>2. PICK p \in Seq(Nat) : up' = [up EXCEPT ![f] = p]
  BY <1>1
<1>3. TypeOK'
  BY <1>0, <1>2 DEF TransferInv, TypeOK, listenVars
<1>4. FetcherInv(f)' /\ ServedInv(f)'
  BY <1>0, Ended DEF TransferInv, TypeOK
<1>5. \A g \in Fetchers \ {f} : Still(g) /\ (g \in queue' <=> g \in queue)
  BY <1>0, <1>2 DEF TransferInv, TypeOK, Still
<1> QED
  BY <1>0, <1>3, <1>4, <1>5, FetcherStep DEF TransferInv, ListenerInv

LEMMA ReadEndInv ==
  ASSUME NEW f \in Fetchers, TransferInv, ReadEnd(f)
  PROVE  TransferInv'
<1>1. TypeOK'
  BY DEF TransferInv, TypeOK, ReadEnd, Returns, listenVars
<1>2. FetcherInv(f)' /\ ServedInv(f)'
  <2>0. want'[f] = want[f] /\ out'[f] = out[f]
    BY DEF ReadEnd
  <2>1. CASE fpc[f] = "rest"
    <3>1. fpc'[f] = "ok"
      BY <2>1 DEF TransferInv, TypeOK, ReadEnd, Returns
    <3>2. Delivered(f)'
      BY <2>0, <2>1, RestIsFile DEF Delivered
    <3> QED
      BY <3>1, <3>2 DEF FetcherInv, ServedInv
  <2>2. CASE fpc[f] # "rest"
    <3>1. fpc'[f] = "error"
      BY <2>2 DEF TransferInv, TypeOK, ReadEnd, Returns
    <3> QED
      BY <2>0, <3>1, Ended
  <2> QED
    BY <2>1, <2>2
<1>3. \A g \in Fetchers \ {f} : Still(g) /\ (g \in queue' <=> g \in queue)
  BY DEF TransferInv, TypeOK, ReadEnd, Returns, Still
<1> QED
  BY <1>1, <1>2, <1>3, FetcherStep DEF ReadEnd, TransferInv, ListenerInv

\* A fetcher that moves bytes from the stream to its file was sent the same.
LEMMA SameView ==
  ASSUME NEW f \in Fetchers, fpc[f] \in {"first", "rest"}, Got(f)' = Got(f),
         want'[f] = want[f], up'[f] = up[f], UNCHANGED <<queue, listenVars>>, ServedInv(f)
  PROVE  ServedInv(f)'
<1>1. PICK r \in Seq(Nat) : Answer(want[f], Got(f) \o r)
  BY DEF ServedInv
<1>2. \E q \in Seq(Nat) : Answer(want'[f], Got(f)' \o q)
  BY <1>1
<1>3. /\ lpc' = lpc /\ cur' = cur /\ collected' = collected /\ queue' = queue
      /\ src' = src /\ offset' = offset /\ pending' = pending
  BY DEF listenVars
<1> QED
  BY <1>2, <1>3 DEF ServedInv

LEMMA ReadStatusInv ==
  ASSUME NEW f \in Fetchers, TransferInv, ReadStatus(f)
  PROVE  TransferInv'
<1>0. /\ fpc[f] = "first" /\ out[f] = <<>> /\ want[f] \in Names /\ down[f] \in Seq(Nat)
      /\ UNCHANGED <<want, up, ended, queue, listenVars, accept_conn>>
  BY DEF TransferInv, FetcherInv, TypeOK, ReadStatus
<1>1. PICK p \in Arrived(f) :
        /\ down' = [down EXCEPT ![f] = Drop(@, Len(p))]
        /\ IF p[1] # SUCCESS
             THEN Returns(f, "error") /\ UNCHANGED out
             ELSE /\ fpc' = [fpc EXCEPT ![f] = "rest"]
                  /\ out' = [out EXCEPT ![f] = @ \o Tail(p)]
                  /\ UNCHANGED left
  BY DEF ReadStatus
<1> DEFINE rest == Drop(down[f], Len(p))
<1>2. p \in Seq(Nat) /\ p # <<>> /\ rest \in Seq(Nat) /\ p \o rest = down[f]
  BY <1>0, <1>1, Prefixes, Zenon DEF Arrived
<1>3. down' = [down EXCEPT ![f] = rest]
  BY <1>1
<1> HIDE DEF rest
<1>4. CASE p[1] # SUCCESS
  <2>1. Returns(f, "error") /\ UNCHANGED out
    BY <1>1, <1>4
  <2>2. TypeOK'
    BY <1>0, <1>2, <1>3, <2>1 DEF TransferInv, TypeOK, Returns, listenVars
  <2>3. FetcherInv(f)' /\ ServedInv(f)'
    BY <1>0, <2>1, Ended DEF TransferInv, TypeOK, Returns
  <2>4. \A g \in Fetchers \ {f} : Still(g) /\ (g \in queue' <=> g \in queue)
    BY <1>0, <1>3, <2>1 DEF TransferInv, TypeOK, Returns, Still
  <2> QED
    BY <1>0, <2>2, <2>3, <2>4, FetcherStep DEF TransferInv, ListenerInv
<1>5. CASE p[1] = SUCCESS
  <2> DEFINE t == Tail(p)
             one == <<SUCCESS>>
  <2>1. t \in Seq(Nat) /\ p = one \o t /\ <<>> \o t = t
    BY <1>2, <1>5, HeadOff
  <2>2. /\ fpc' = [fpc EXCEPT ![f] = "rest"] /\ UNCHANGED left
        /\ out' = [out EXCEPT ![f] = t]
    BY <1>0, <1>1, <1>5, <2>1, Zenon
  <2> HIDE DEF t
  <2>3. TypeOK'
    BY <1>0, <1>2, <1>3, <2>1, <2>2 DEF TransferInv, TypeOK, listenVars
  <2>4. /\ fpc'[f] = "rest" /\ out'[f] = t /\ down'[f] = rest /\ left'[f] = left[f]
        /\ want'[f] = want[f] /\ up'[f] = up[f]
    BY <1>0, <1>3, <2>2 DEF TransferInv, TypeOK
  <2>5. Got(f)' = (one \o t) \o rest /\ Got(f) = down[f]
    BY <1>0, <2>4 DEF Got
  <2> HIDE DEF one
  <2>6. Got(f)' = Got(f)
    BY <1>2, <2>1, <2>5, Zenon
  <2>7. FetcherInv(f)'
    BY <1>0, <2>1, <2>4 DEF TransferInv, FetcherInv
  <2>8. ServedInv(f)'
    BY <1>0, <2>4, <2>6, SameView DEF TransferInv
  <2>9. \A g \in Fetchers \ {f} : Still(g) /\ (g \in queue' <=> g \in queue)
    BY <1>0, <1>3, <2>2 DEF TransferInv, TypeOK, Still
  <2> QED
    BY <1>0, <2>3, <2>7, <2>8, <2>9, FetcherStep DEF TransferInv, ListenerInv
<1> QED
  BY <1>4, <1>5, Zenon

LEMMA ReadDataInv ==
  ASSUME NEW f \in Fetchers, TransferInv, ReadData(f)
  PROVE  TransferInv'
<1> DEFINE o == out[f]
           d == down[f]
<1>0. /\ fpc[f] = "rest" /\ o \in Seq(Nat) /\ want[f] \in Names /\ d \in Seq(Nat)
      /\ UNCHANGED <<fpc, want, up, left, ended, queue, listenVars, accept_conn>>
  BY DEF TransferInv, FetcherInv, TypeOK, ReadData
<1>1. PICK p \in Arrived(f) :
        /\ down' = [down EXCEPT ![f] = Drop(@, Len(p))]
        /\ out' = [out EXCEPT ![f] = @ \o p]
  BY DEF ReadData
<1> DEFINE rest == Drop(d, Len(p))
           op == o \o p
           one == <<SUCCESS>>
<1>2. p \in Seq(Nat) /\ rest \in Seq(Nat) /\ p \o rest = d
  BY <1>0, <1>1, Prefixes, Zenon DEF Arrived
<1>3. op \in Seq(Nat)
  BY <1>0, <1>2, Concat, Zenon
<1>4. down' = [down EXCEPT ![f] = rest] /\ out' = [out EXCEPT ![f] = op]
  BY <1>1
<1>5. Got(f) = (one \o o) \o d
  BY <1>0 DEF Got
<1>6. one \in Seq(Nat)
  BY DEF SUCCESS
<1>7. op = o \o p
  OBVIOUS
<1> HIDE DEF rest, op, one
<1>8. TypeOK'
  BY <1>0, <1>2, <1>3, <1>4 DEF TransferInv, TypeOK, listenVars
<1>9. /\ fpc'[f] = "rest" /\ out'[f] = op /\ down'[f] = rest /\ left'[f] = left[f]
      /\ want'[f] = want[f] /\ up'[f] = up[f]
  BY <1>0, <1>4 DEF TransferInv, TypeOK
<1>10. Got(f)' = (one \o op) \o rest
  BY <1>9 DEF Got, one
<1> HIDE DEF o, d
<1>11. (one \o op) \o rest = (one \o o) \o d
  <2>1. one \o o \in Seq(Nat)
    BY <1>0, <1>6, Concat, Zenon
  <2>2. one \o (o \o p) = (one \o o) \o p
    BY <1>0, <1>2, <1>6, Assoc, ZenonT(60)
  <2> DEFINE x == one \o o
  <2>3. x \in Seq(Nat) /\ one \o op = x \o p
    BY <1>7, <2>1, <2>2, Zenon
  <2> HIDE DEF x
  <2>4. (x \o p) \o rest = x \o (p \o rest)
    BY <1>2, <2>3, Assoc
  <2>5. (x \o p) \o rest = x \o d
    BY <1>2, <2>4, Zenon
  <2>6. (one \o op) \o rest = x \o d
    BY <2>3, <2>5, Zenon
  <2> QED
    BY <2>6, Zenon DEF x
<1>12. Got(f)' = Got(f)
  BY <1>5, <1>10, <1>11, Zenon
<1>13. FetcherInv(f)'
  BY <1>0, <1>3, <1>9 DEF TransferInv, FetcherInv
<1>14. ServedInv(f)'
  BY <1>0, <1>9, <1>12, SameView DEF TransferInv
<1>15. \A g \in Fetchers \ {f} : Still(g) /\ (g \in queue' <=> g \in queue)
  BY <1>0, <1>4 DEF TransferInv, TypeOK, Still
<1> QED
  BY <1>0, <1>8, <1>13, <1>14, <1>15, FetcherStep DEF TransferInv, ListenerInv

-----------------------------------------------------------------------------
(* Steps of the listener between connections                               *)

LEMMA AcceptInv ==
  ASSUME NEW f \in Fetchers, TransferInv, Accept(f)
  PROVE  TransferInv'
<1>1. TypeOK'
  BY DEF TransferInv, TypeOK, Accept, fetchVars
<1>2. ListenerInv'
  BY NoneAssumption DEF TransferInv, TypeOK, ListenerInv, Accept
<1>3. \A g \in Fetchers \ {f} : Still(g) /\ (g \in queue' => g \in queue) /\ cur' # g
  BY DEF Accept, Still, fetchVars
<1>4. Still(f) /\ lpc' = "action" /\ collected' = None /\ cur' = f /\ f \notin queue' /\ f \in queue
  BY DEF TransferInv, ListenerInv, Accept, Still, fetchVars
<1>5. FetcherInv(f)'
  BY <1>4, SameDelivery DEF TransferInv, FetcherInv, Still
<1>6. ServedInv(f)'
  <2> SUFFICES ASSUME fpc'[f] \in {"first", "rest"} PROVE ServedInv(f)'
    BY DEF ServedInv
  <2>1. Got(f)' = Got(f) /\ want'[f] = want[f] /\ up'[f] = up[f] /\ fpc'[f] = fpc[f]
    BY <1>4, SameGot DEF Still
  <2>2. Got(f) = <<>> /\ up[f] = <<FETCH>> \o Rest(want[f])
    BY <1>4, <2>1 DEF TransferInv, ServedInv
  <2>3. \E r \in Seq(Nat) : Answer(want'[f], Got(f)' \o r)
    BY <2>1, <2>2, NothingYet, Zenon
  <2> QED
    BY <1>4, <2>1, <2>2, <2>3 DEF ServedInv
<1> QED
  BY <1>1, <1>2, <1>3, <1>5, <1>6, ListenerStep

LEMMA AcceptDropsInv ==
  ASSUME NEW f \in Fetchers, TransferInv, AcceptDrops(f)
  PROVE  TransferInv'
<1>1. TypeOK'
  BY DEF TransferInv, TypeOK, AcceptDrops, Closing, fetchVars, listenVars
<1>2. ListenerInv'
  BY DEF TransferInv, ListenerInv, AcceptDrops, listenVars
<1>3. \A g \in Fetchers \ {None} : Still(g) /\ (g \in queue' => g \in queue) /\ cur' # g
  BY DEF TransferInv, ListenerInv, AcceptDrops, Still, fetchVars, listenVars
<1> QED
  BY <1>1, <1>2, <1>3, ListenerStep, NoneAssumption

LEMMA ListenerEndsInv ==
  ASSUME TransferInv, ListenerEnds
  PROVE  TransferInv'
<1>1. TypeOK'
  BY DEF TransferInv, TypeOK, ListenerEnds, fetchVars
<1>2. ListenerInv'
  BY DEF TransferInv, ListenerInv, ListenerEnds
<1>3. \A g \in Fetchers \ {None} : Still(g) /\ (g \in queue' => g \in queue) /\ cur' # g
  BY DEF TransferInv, ListenerInv, ListenerEnds, Still, fetchVars
<1> QED
  BY <1>1, <1>2, <1>3, ListenerStep, NoneAssumption

LEMMA ClearFlagInv ==
  ASSUME TransferInv, ClearFlag
  PROVE  TransferInv'
<1>1. TypeOK' /\ ListenerInv'
  BY DEF TransferInv, TypeOK, ListenerInv, ClearFlag, fetchVars, listenVars
<1>2. \A g \in Fetchers : Still(g) /\ (g \in queue' <=> g \in queue) /\ UNCHANGED listenVars
  BY DEF ClearFlag, Still, fetchVars
<1>3. \A g \in Fetchers : FetcherInv(g)' /\ ServedInv(g)'
  BY <1>2, OthersStay DEF TransferInv
<1> QED
  BY <1>1, <1>3 DEF TransferInv

LEMMA StutterInv ==
  ASSUME TransferInv, UNCHANGED vars
  PROVE  TransferInv'
<1>1. TypeOK' /\ ListenerInv'
  BY DEF TransferInv, TypeOK, ListenerInv, vars
<1>2. \A g \in Fetchers : Still(g) /\ (g \in queue' <=> g \in queue) /\ UNCHANGED listenVars
  BY DEF vars, Still, listenVars
<1>3. \A g \in Fetchers : FetcherInv(g)' /\ ServedInv(g)'
  BY <1>2, OthersStay DEF TransferInv
<1> QED
  BY <1>1, <1>3 DEF TransferInv

-----------------------------------------------------------------------------
(* The end of a connection                                                 *)

LEMMA FinishInv ==
  ASSUME TransferInv, cur \in Fetchers, Finish, UNCHANGED <<fetchVars, up, down, queue, accept_conn>>
  PROVE  TransferInv'
<1>1. TypeOK'
  BY Empty DEF TransferInv, TypeOK, Finish, Closing, fetchVars
<1>2. ListenerInv'
  BY NoneAssumption DEF TransferInv, TypeOK, ListenerInv, Finish
<1>3. \A g \in Fetchers \ {None} : Still(g) /\ (g \in queue' => g \in queue) /\ cur' # g
  BY DEF Finish, Still, fetchVars
<1> QED
  BY <1>1, <1>2, <1>3, ListenerStep, NoneAssumption

\* A connection is being served whenever there is something to do for one.
LEMMA Served ==
  ASSUME TransferInv, lpc \notin {"accept", "closed"}
  PROVE  cur \in Fetchers /\ cur \notin queue
BY DEF TransferInv, TypeOK, ListenerInv

LEMMA ReadTimeoutInv == ASSUME TransferInv, ReadTimeout PROVE TransferInv'
<1>1. cur \in Fetchers
  BY Served DEF ReadTimeout
<1> QED
  BY <1>1, FinishInv DEF ReadTimeout

LEMMA WriteFailsInv == ASSUME TransferInv, WriteFails PROVE TransferInv'
<1>1. cur \in Fetchers
  BY Served DEF WriteFails, TransferInv, ListenerInv
<1> QED
  BY <1>1, FinishInv DEF WriteFails

LEMMA ConnDoneInv == ASSUME TransferInv, ConnDone PROVE TransferInv'
<1>1. cur \in Fetchers
  BY Served DEF ConnDone
<1> QED
  BY <1>1, FinishInv DEF ConnDone

-----------------------------------------------------------------------------
(* Steps of the listener within a connection                               *)

LEMMA ServeStep ==
  ASSUME NEW h \in Fetchers, TransferInv, cur = h, cur' = h, UNCHANGED <<fetchVars, queue>>,
         fpc[h] # "request",
         \A g \in Fetchers \ {h} : up'[g] = up[g] /\ down'[g] = down[g],
         TypeOK', ListenerInv',
         fpc[h] \in {"first", "rest"} => ServedInv(h)'
  PROVE  TransferInv'
<1>1. \A g \in Fetchers \ {h} : Still(g) /\ (g \in queue' => g \in queue) /\ cur' # g
  BY DEF Still, fetchVars
<1>2. FetcherInv(h) /\ fpc'[h] = fpc[h] /\ want'[h] = want[h] /\ out'[h] = out[h] /\ left'[h] = left[h]
  BY DEF TransferInv, fetchVars
<1>3. Delivered(h)' <=> Delivered(h)
  BY <1>2 DEF Delivered
<1>4. FetcherInv(h)'
  BY <1>2, <1>3 DEF FetcherInv
<1>5. ServedInv(h)'
  <2>1. CASE fpc[h] \notin {"first", "rest"}
    BY <1>2, <2>1 DEF ServedInv
  <2> QED
    BY <2>1
<1> QED
  BY <1>1, <1>4, <1>5, ListenerStep

\* Past get_action the fetcher has sent its request.
LEMMA PastRequest ==
  ASSUME TransferInv, lpc \in {"respond", "send", "fail"}
  PROVE  cur \in Fetchers /\ fpc[cur] # "request"
<1>1. cur \in Fetchers
  BY Served
<1>2. FetcherInv(cur)
  BY <1>1 DEF TransferInv
<1> QED
  BY <1>1, <1>2 DEF FetcherInv

LEMMA NextChunk ==
  ASSUME NEW s \in Seq(Nat), s # <<>>
  PROVE  LET k == Min2(Len(s), Buffer)
             b == SubSeq(<<>> \o SubSeq(s, 1, k), 1, k)
         IN  b \in Seq(Nat) /\ Drop(s, k) \in Seq(Nat) /\ b \o Drop(s, k) = s
<1> DEFINE k == Min2(Len(s), Buffer)
           x == SubSeq(s, 1, k)
           b == SubSeq(<<>> \o x, 1, k)
<1>1. Len(s) \in Nat \ {0} /\ Buffer \in Nat \ {0}
  BY Sizes
<1>2. k \in 0 .. Len(s)
  BY <1>1, Minimum, Zenon
<1> HIDE DEF k
<1>3. x \in Seq(Nat) /\ Len(x) = k /\ Drop(s, k) \in Seq(Nat) /\ x \o Drop(s, k) = s
  BY <1>2, TakeDrop, Zenon
<1>4. <<>> \o x = x /\ SubSeq(x, 1, Len(x)) = x
  BY <1>3, Unit, SubSeqFull, Zenon
<1>5. b = x
  BY <1>3, <1>4, Zenon
<1>6. b \in Seq(Nat) /\ Drop(s, k) \in Seq(Nat) /\ b \o Drop(s, k) = s
  BY <1>3, <1>5, Zenon
<1> QED
  BY <1>6, Zenon DEF k

\* What the loop of handle_fetch moves from the file to the write buffer.
LEMMA ChunkIs ==
  ASSUME TransferInv, SendChunk
  PROVE  /\ pending' \in Seq(Nat)
         /\ src' \in Seq(Nat)
         /\ offset = 1 => pending' \o src' = <<SUCCESS>> \o Wire(src)
         /\ offset = 0 => pending' \o src' = src
<1>1. src \in Seq(Nat) /\ src # <<>> /\ offset \in {0, 1}
  BY DEF TransferInv, TypeOK, SendChunk
<1>2. CASE offset = 1
  <2> DEFINE k == Min2(Len(src), Buffer - 1)
             b == SubSeq(<<SUCCESS>> \o SubSeq(src, 1, k), 1, k)
  <2>1. pending' = b /\ src' = Drop(src, k)
    BY <1>2, Zenon DEF SendChunk
  <2>2. b \in Seq(Nat) /\ Drop(src, k) \in Seq(Nat) /\ b \o Drop(src, k) = <<SUCCESS>> \o Wire(src)
    BY <1>1, FirstChunk, Zenon
  <2>3. pending' \in Seq(Nat) /\ src' \in Seq(Nat) /\ pending' \o src' = <<SUCCESS>> \o Wire(src)
    BY <2>1, <2>2, Zenon
  <2> QED
    BY <1>2, <2>3
<1>3. CASE offset = 0
  <2> DEFINE k == Min2(Len(src), Buffer)
             b == SubSeq(<<>> \o SubSeq(src, 1, k), 1, k)
  <2>1. pending' = b /\ src' = Drop(src, k)
    <3>1. Buffer - offset = Buffer /\ offset # 1
      BY <1>3, Sizes
    <3> QED
      BY <3>1, Zenon DEF SendChunk
  <2>2. b \in Seq(Nat) /\ Drop(src, k) \in Seq(Nat) /\ b \o Drop(src, k) = src
    BY <1>1, NextChunk, Zenon
  <2>3. pending' \in Seq(Nat) /\ src' \in Seq(Nat) /\ pending' \o src' = src
    BY <2>1, <2>2, Zenon
  <2> QED
    BY <1>3, <2>3
<1> QED
  BY <1>1, <1>2, <1>3

LEMMA GotType ==
  ASSUME NEW f \in Fetchers, TransferInv
  PROVE  Got(f) \in Seq(Nat)
<1>1. down[f] \in Seq(Nat) /\ (fpc[f] = "rest" => out[f] \in Seq(Nat))
  BY DEF TransferInv, TypeOK, FetcherInv
<1>2. <<SUCCESS>> \in Seq(Nat)
  BY DEF SUCCESS
<1>3. CASE fpc[f] = "rest"
  <2>1. <<SUCCESS>> \o out[f] \in Seq(Nat)
    BY <1>1, <1>2, <1>3, Concat, Zenon
  <2>2. (<<SUCCESS>> \o out[f]) \o down[f] \in Seq(Nat)
    BY <1>1, <2>1, Concat, Zenon
  <2> QED
    BY <1>3, <2>2, Zenon DEF Got
<1>4. CASE fpc[f] # "rest"
  BY <1>1, <1>4 DEF Got
<1> QED
  BY <1>3, <1>4

LEMMA SendChunkInv == ASSUME TransferInv, SendChunk PROVE TransferInv'
<1> DEFINE h == cur
<1>0. /\ lpc = "send" /\ pending = <<>> /\ offset' = 0
      /\ UNCHANGED <<fetchVars, up, down, ended, queue, lpc, cur, collected, accept_conn>>
  BY DEF SendChunk
<1>1. h \in Fetchers /\ fpc[h] # "request"
  BY <1>0, PastRequest
<1>2. /\ pending' \in Seq(Nat)
      /\ src' \in Seq(Nat)
      /\ offset = 1 => pending' \o src' = <<SUCCESS>> \o Wire(src)
      /\ offset = 0 => pending' \o src' = src
  BY ChunkIs
<1>3. TypeOK'
  BY <1>0, <1>2 DEF TransferInv, TypeOK, fetchVars
<1>4. ListenerInv'
  BY <1>0 DEF TransferInv, ListenerInv
<1>5. ASSUME fpc[h] \in {"first", "rest"} PROVE ServedInv(h)'
  <2>1. Got(h)' = Got(h) /\ want'[h] = want[h] /\ up'[h] = up[h]
    BY <1>0 DEF Got, fetchVars
  <2>2. PICK r \in Seq(Nat) : Answer(want[h], Got(h) \o r)
    BY <1>1, <1>5 DEF TransferInv, ServedInv
  <2>3. /\ IsFile(want[h])
        /\ offset = 1 => Got(h) = <<>> /\ src = Store[want[h]].data
        /\ offset = 0 => (Got(h) \o pending) \o src = Full(want[h])
    BY <1>0, <1>1, <1>5 DEF TransferInv, ServedInv
  <2>4. Got(h) \in Seq(Nat) /\ h \notin queue /\ offset \in {0, 1} /\ src \in Seq(Nat)
    BY <1>0, <1>1, GotType, Served DEF TransferInv, TypeOK
  <2>5. ASSUME offset = 1 PROVE (Got(h) \o pending') \o src' = Full(want[h])
    <3>1. <<>> \o pending' = pending'
      BY <1>2, Unit
    <3> QED
      BY <1>2, <2>3, <2>5, <3>1, Zenon DEF Full
  <2>6. ASSUME offset = 0 PROVE (Got(h) \o pending') \o src' = Full(want[h])
    <3>1. Got(h) \o pending = Got(h)
      BY <1>0, <2>4, Unit
    <3> DEFINE x == Got(h)
    <3>2. x \in Seq(Nat) /\ x \o src = Full(want[h]) /\ pending' \o src' = src
      BY <1>2, <2>3, <2>4, <2>6, <3>1, Zenon
    <3> HIDE DEF x
    <3>3. (x \o pending') \o src' = x \o (pending' \o src')
      BY <1>2, <3>2, Assoc
    <3>4. (x \o pending') \o src' = Full(want[h])
      BY <3>2, <3>3, Zenon
    <3> QED
      BY <3>4 DEF x
  <2>7. (Got(h) \o pending') \o src' = Full(want[h])
    <3>1. offset = 0 \/ offset = 1
      BY <2>4
    <3> QED
      BY <2>5, <2>6, <3>1, Zenon
  <2>8. \E q \in Seq(Nat) : Answer(want'[h], Got(h)' \o q)
    BY <2>1, <2>2
  <2> QED
    BY <1>0, <2>1, <2>3, <2>4, <2>7, <2>8 DEF ServedInv
<1>6. \A g \in Fetchers \ {h} : up'[g] = up[g] /\ down'[g] = down[g]
  BY <1>0
<1> QED
  BY <1>0, <1>1, <1>3, <1>4, <1>5, <1>6, ServeStep

LEMMA SendEmptyInv == ASSUME TransferInv, SendEmpty PROVE TransferInv'
<1> DEFINE h == cur
<1>0. /\ lpc = "send" /\ src = <<>> /\ offset = 1 /\ lpc' = "respond" /\ pending' = <<SUCCESS>>
      /\ UNCHANGED <<fetchVars, up, down, ended, queue, cur, collected, src, offset, accept_conn>>
  BY DEF SendEmpty, Respond
<1>1. h \in Fetchers /\ fpc[h] # "request"
  BY <1>0, PastRequest
<1>2. <<SUCCESS>> \in Seq(Nat)
  BY DEF SUCCESS
<1>3. TypeOK'
  BY <1>0, <1>2 DEF TransferInv, TypeOK, fetchVars
<1>4. ListenerInv'
  BY <1>0 DEF TransferInv, ListenerInv
<1>5. ASSUME fpc[h] \in {"first", "rest"} PROVE ServedInv(h)'
  <2>1. Got(h)' = Got(h) /\ want'[h] = want[h] /\ up'[h] = up[h]
    BY <1>0 DEF Got, fetchVars
  <2>2. PICK r \in Seq(Nat) : Answer(want[h], Got(h) \o r)
    BY <1>1, <1>5 DEF TransferInv, ServedInv
  <2>3. IsFile(want[h]) /\ Got(h) = <<>> /\ Store[want[h]].data = <<>> /\ h \notin queue
    BY <1>0, <1>1, <1>5, Served DEF TransferInv, ServedInv
  <2>4. Full(want[h]) = <<SUCCESS>>
    <3>1. Wire(<<>>) = <<>>
      BY DEF Wire
    <3>2. <<SUCCESS>> \o <<>> = <<SUCCESS>>
      BY <1>2, Unit
    <3> QED
      BY <2>3, <3>1, <3>2, Zenon DEF Full
  <2>5. <<>> \o <<SUCCESS>> = <<SUCCESS>>
    BY <1>2, Unit
  <2>6. Answer(want'[h], Got(h)' \o pending')
    BY <1>0, <2>1, <2>3, <2>4, <2>5, Zenon DEF Answer
  <2>7. \E q \in Seq(Nat) : Answer(want'[h], Got(h)' \o q)
    BY <2>1, <2>2
  <2> QED
    BY <1>0, <2>3, <2>6, <2>7 DEF ServedInv
<1>6. \A g \in Fetchers \ {h} : up'[g] = up[g] /\ down'[g] = down[g]
  BY <1>0
<1> QED
  BY <1>0, <1>1, <1>3, <1>4, <1>5, <1>6, ServeStep

LEMMA WriteInv == ASSUME TransferInv, Write PROVE TransferInv'
<1>0. /\ pending # <<>> /\ pending \in Seq(Nat)
      /\ UNCHANGED <<fetchVars, up, ended, queue, lpc, cur, collected, src, offset, accept_conn>>
  BY DEF TransferInv, TypeOK, Write
<1>1. lpc \in {"respond", "send"}
  BY <1>0 DEF TransferInv, ListenerInv
<1>2. PICK h \in Fetchers : h = cur /\ fpc[h] # "request" /\ h \notin queue
  BY <1>1, PastRequest, Served
<1>3. PICK p \in PrefixesOf(pending) :
        /\ down' = [down EXCEPT ![h] = @ \o p]
        /\ pending' = Drop(pending, Len(p))
  BY <1>2 DEF Write
<1>4. p \in Seq(Nat) /\ pending' \in Seq(Nat) /\ p \o pending' = pending
  BY <1>0, <1>3, Prefixes, Zenon
<1> DEFINE d == down[h]
           dp == d \o p
<1>5. d \in Seq(Nat)
  BY <1>2 DEF TransferInv, TypeOK
<1>6. dp \in Seq(Nat) /\ down' = [down EXCEPT ![h] = dp]
  BY <1>3, <1>4, <1>5, Concat, Zenon
<1>7. dp = d \o p
  OBVIOUS
<1> HIDE DEF dp
<1>8. TypeOK'
  BY <1>0, <1>4, <1>6 DEF TransferInv, TypeOK, fetchVars
<1>9. ListenerInv'
  BY <1>0, <1>1 DEF TransferInv, ListenerInv
<1>10. \A g \in Fetchers \ {h} : up'[g] = up[g] /\ down'[g] = down[g]
  BY <1>0, <1>2, <1>6 DEF TransferInv, TypeOK
<1>11. ASSUME fpc[h] \in {"first", "rest"} PROVE ServedInv(h)'
  <2>1. /\ want'[h] = want[h] /\ fpc'[h] = fpc[h] /\ out'[h] = out[h] /\ down'[h] = dp
        /\ src \in Seq(Nat) /\ Got(h) \in Seq(Nat)
    BY <1>0, <1>2, <1>6, GotType DEF TransferInv, TypeOK, fetchVars
  <2>2. Got(h)' = Got(h) \o p
    <3>1. CASE fpc[h] = "rest"
      <4>1. <<SUCCESS>> \in Seq(Nat) /\ out[h] \in Seq(Nat)
        BY <1>2, <3>1 DEF TransferInv, FetcherInv, SUCCESS
      <4>2. <<SUCCESS>> \o out[h] \in Seq(Nat)
        BY <4>1, Concat, Zenon
      <4>3. Got(h)' = (<<SUCCESS>> \o out[h]) \o dp /\ Got(h) = (<<SUCCESS>> \o out[h]) \o d
        BY <2>1, <3>1 DEF Got
      <4> DEFINE x == <<SUCCESS>> \o out[h]
      <4>4. x \in Seq(Nat) /\ Got(h)' = x \o dp /\ Got(h) = x \o d
        BY <4>2, <4>3
      <4> HIDE DEF x
      <4>5. Joins(x, d, Got(h)) /\ Joins(d, p, dp) /\ Joins(x, dp, Got(h)')
        BY <1>7, <4>4, Zenon DEF Joins
      <4>6. Joins(Got(h), p, Got(h)')
        BY <1>4, <1>5, <4>4, <4>5, Regroup
      <4> QED
        BY <4>6, Zenon DEF Joins
    <3>2. CASE fpc[h] # "rest"
      BY <1>7, <2>1, <3>2 DEF Got
    <3> QED
      BY <3>1, <3>2
  <2>3. Got(h)' \in Seq(Nat)
    BY <1>4, <2>1, <2>2, Concat, Zenon
  <2>5. Got(h)' \o pending' = Got(h) \o pending
    <3>1. Joins(Got(h), p, Got(h)') /\ Joins(p, pending', pending) /\ Joins(Got(h), pending, Got(h) \o pending)
      BY <1>4, <2>2, Zenon DEF Joins
    <3>2. Joins(Got(h)', pending', Got(h) \o pending)
      BY <1>4, <2>1, <3>1, Regroup
    <3> QED
      BY <3>2, Zenon DEF Joins
  <2>6. CASE lpc = "respond"
    <3>1. Answer(want[h], Got(h) \o pending)
      BY <1>2, <1>11, <2>6 DEF TransferInv, ServedInv
    <3>2. Answer(want'[h], Got(h)' \o pending')
      BY <2>1, <2>5, <3>1, Zenon
    <3>3. \E r \in Seq(Nat) : Answer(want'[h], Got(h)' \o r)
      BY <1>4, <3>2, Zenon
    <3> QED
      BY <1>0, <1>2, <2>6, <3>2, <3>3 DEF ServedInv
  <2>7. CASE lpc = "send"
    <3>1. IsFile(want[h]) /\ offset = 0 /\ (Got(h) \o pending) \o src = Full(want[h])
      BY <1>0, <1>2, <1>11, <2>7 DEF TransferInv, ServedInv, TypeOK
    <3>2. (Got(h)' \o pending') \o src = Full(want[h])
      BY <2>5, <3>1, Zenon
    <3>3. pending' \o src \in Seq(Nat) /\ Answer(want'[h], Got(h)' \o (pending' \o src))
      <4>1. pending' \o src \in Seq(Nat)
        BY <1>4, <2>1, Concat, Zenon
      <4>2. PICK a : a = Got(h)' \o pending' /\ a \o src = Full(want[h])
        BY <3>2, Zenon
      <4>3. /\ Joins(Got(h)', pending', a) /\ Joins(pending', src, pending' \o src)
            /\ Joins(Got(h)', pending' \o src, Got(h)' \o (pending' \o src))
        BY <4>2, Zenon DEF Joins
      <4>4. Joins(a, src, Got(h)' \o (pending' \o src))
        BY <1>4, <2>1, <2>3, <4>3, Regroup
      <4> QED
        BY <2>1, <3>1, <4>1, <4>2, <4>4, Zenon DEF Answer, Joins
    <3>4. \E r \in Seq(Nat) : Answer(want'[h], Got(h)' \o r)
      BY <3>3, Zenon
    <3>5. (Got(h)' \o pending') \o src' = Full(want'[h]) /\ IsFile(want'[h]) /\ offset' = 0
      BY <1>0, <2>1, <3>1, <3>2
    <3> QED
      BY <1>0, <1>2, <2>7, <3>4, <3>5 DEF ServedInv
  <2> QED
    BY <1>1, <2>6, <2>7
<1> QED
  BY <1>0, <1>2, <1>8, <1>9, <1>10, <1>11, ServeStep

-----------------------------------------------------------------------------
(* The request is understood                                               *)

\* What handle_fetch makes of a name.
LEMMA Resolved ==
  ASSUME NEW name, TransferInv, lpc = "action", Resolve(name)
  PROVE  /\ lpc' \in {"respond", "fail", "send"}
         /\ pending' \in Seq(Nat) /\ src' \in Seq(Nat) /\ offset' \in {0, 1}
         /\ lpc' = "respond" => \E e \in Nat \ {0} : pending' = <<e>>
         /\ lpc' = "fail" => pending' = <<>>
         /\ lpc' = "send" => /\ name \in Names /\ IsFile(name)
                             /\ src' = Store[name].data /\ offset' = 1 /\ pending' = <<>>
<1> DEFINE entry == IF name \in Names THEN Store[name]
                    ELSE [kind |-> IF name = <<>> THEN "dir" ELSE "missing", data |-> <<>>]
<1>1. /\ entry.kind \in {"file", "missing", "invalid", "dir"} /\ entry.data \in Seq(Nat)
      /\ entry.kind = "file" => name \in Names /\ IsFile(name) /\ entry.data = Store[name].data
  <2>1. CASE name \in Names
    <3>1. Store[name] \in Entries
      BY <2>1, StoreType
    <3> QED
      BY <2>1, <3>1 DEF Entries, IsFile
  <2>2. CASE name \notin Names
    BY <2>2, Empty
  <2> QED
    BY <2>1, <2>2
<1>2. pending = <<>> /\ src \in Seq(Nat) /\ offset \in {0, 1}
  BY DEF TransferInv, ListenerInv, TypeOK
<1> HIDE DEF entry
<1>3. /\ entry.kind = "invalid" => Respond(INVALID_DATA) /\ UNCHANGED <<src, offset>>
      /\ entry.kind = "missing" => Respond(ERROR) /\ UNCHANGED <<src, offset>>
      /\ entry.kind = "dir" => lpc' = "fail" /\ UNCHANGED <<src, offset, pending>>
      /\ entry.kind = "file" => lpc' = "send" /\ src' = entry.data /\ offset' = 1 /\ UNCHANGED pending
  BY DEF Resolve, entry
<1>4. /\ INVALID_DATA \in Nat \ {0} /\ ERROR \in Nat \ {0}
      /\ <<INVALID_DATA>> \in Seq(Nat) /\ <<ERROR>> \in Seq(Nat)
  BY DEF INVALID_DATA, ERROR
<1>5. CASE entry.kind = "invalid"
  BY <1>2, <1>3, <1>4, <1>5 DEF Respond
<1>6. CASE entry.kind = "missing"
  BY <1>2, <1>3, <1>4, <1>6 DEF Respond
<1>7. CASE entry.kind = "dir"
  BY <1>2, <1>3, <1>7, Empty
<1>8. CASE entry.kind = "file"
  BY <1>1, <1>2, <1>3, <1>8, Empty
<1> QED
  BY <1>1, <1>5, <1>6, <1>7, <1>8

LEMMA ActionEndsInv == ASSUME TransferInv, ActionEnds PROVE TransferInv'
<1> DEFINE h == cur
<1>0. lpc = "action" /\ left[h] /\ UNCHANGED <<fetchVars, up, down, queue, accept_conn>>
  BY DEF ActionEnds
<1>1. h \in Fetchers /\ h \notin queue
  BY <1>0, Served
<1>2. CASE collected = None
  BY <1>0, <1>1, <1>2, FinishInv DEF ActionEnds
<1>3. CASE collected # None
  <2>1. Resolve(collected) /\ UNCHANGED <<ended, cur, collected>>
    BY <1>3 DEF ActionEnds
  <2>2. /\ lpc' \in {"respond", "fail", "send"}
        /\ pending' \in Seq(Nat) /\ src' \in Seq(Nat) /\ offset' \in {0, 1}
        /\ lpc' = "fail" => pending' = <<>>
    BY <1>0, <2>1, Resolved
  <2>3. TypeOK'
    BY <1>0, <2>1, <2>2 DEF TransferInv, TypeOK, fetchVars
  <2>4. ListenerInv'
    BY <1>0, <1>1, <2>1, <2>2, NoneAssumption DEF TransferInv, ListenerInv
  <2>5. fpc[h] \in {"ok", "error"}
    BY <1>0, <1>1 DEF TransferInv, FetcherInv
  <2>6. \A g \in Fetchers \ {h} : up'[g] = up[g] /\ down'[g] = down[g]
    BY <1>0
  <2> QED
    BY <1>0, <1>1, <2>1, <2>3, <2>4, <2>5, <2>6, ServeStep
<1> QED
  BY <1>2, <1>3

\* What a read adds to the name: all of it when the NUL is there, and what is
\* left of the request otherwise.
LEMMA Understood ==
  ASSUME NEW h \in Fetchers, TransferInv, h = cur, lpc = "action", fpc[h] \in {"first", "rest"},
         NEW p \in PrefixesOf(up[h])
  PROVE  LET first == collected = None
             body  == IF first THEN Tail(p) ELSE p
             text  == BeforeNul(body)
             name  == (IF first THEN <<>> ELSE collected) \o text
         IN  /\ Len(text) < Len(body) => name = want[h]
             /\ ~(Len(text) < Len(body)) => name \o Drop(up[h], Len(p)) = Rest(want[h])
<1> DEFINE r == Drop(up[h], Len(p))
           w == want[h]
<1>1. up[h] \in Seq(Nat) /\ w \in Names /\ (collected # None => collected \in Seq(Nat))
  BY DEF TransferInv, TypeOK, FetcherInv
<1>2. p \in Seq(Nat) /\ p # <<>> /\ r \in Seq(Nat) /\ p \o r = up[h]
  BY <1>1, Prefixes, Zenon
<1>3. w \in Seq(Nat \ {0}) /\ w \in Seq(Nat)
  BY <1>1, StoreType, SeqMonotonic
<1>4. Append(w, NUL) \in Seq(Nat) /\ Rest(w) = Append(w, NUL)
  BY <1>3 DEF NUL, Rest
<1>5. CASE collected = None
  <2>1. up[h] = <<FETCH>> \o Append(w, NUL)
    BY <1>4, <1>5 DEF TransferInv, ServedInv
  <2>2. FETCH \in Nat
    BY DEF FETCH
  <2> DEFINE b == Tail(p)
  <2>3. Joins(b, r, Append(w, NUL)) /\ b \in Seq(Nat)
    <3>1. p \o r = <<FETCH>> \o Append(w, NUL)
      BY <1>2, <2>1, Zenon
    <3>2. Joins(b, r, Append(w, NUL))
      BY <1>2, <1>4, <2>2, <3>1, TailOfPrefix
    <3> QED
      BY <1>2, <3>2, HeadOff, Zenon
  <2>4. Joins(<<>>, Append(w, NUL), Append(w, NUL))
    BY <1>4, Unit DEF Joins
  <2> HIDE DEF b, r, w
  <2>5. /\ Len(BeforeNul(b)) < Len(b) => <<>> \o BeforeNul(b) = w
        /\ ~(Len(BeforeNul(b)) < Len(b)) => Joins(<<>> \o BeforeNul(b), r, Append(w, NUL))
    BY <1>2, <1>3, <1>4, <2>3, <2>4, Empty, NameIsRead
  <2> QED
    BY <1>4, <1>5, <2>5, Zenon DEF b, r, w, Joins
<1>6. CASE collected # None
  <2>1. collected \o up[h] = Append(w, NUL) /\ collected \in Seq(Nat)
    BY <1>1, <1>4, <1>6 DEF TransferInv, ServedInv
  <2>2. Joins(p, r, up[h]) /\ Joins(collected, up[h], Append(w, NUL))
    BY <1>2, <2>1 DEF Joins
  <2> HIDE DEF r, w
  <2>3. /\ Len(BeforeNul(p)) < Len(p) => collected \o BeforeNul(p) = w
        /\ ~(Len(BeforeNul(p)) < Len(p)) => Joins(collected \o BeforeNul(p), r, Append(w, NUL))
    BY <1>1, <1>2, <1>3, <2>1, <2>2, NameIsRead
  <2> QED
    BY <1>4, <1>6, <2>3, Zenon DEF r, w, Joins
<1> QED
  BY <1>5, <1>6

\* The three ways in which a read of get_action goes on.
Refuse(e) ==
  /\ lpc' = "respond" /\ pending' = <<e>>
  /\ UNCHANGED <<collected, src, offset>>

LEMMA ReadActionInv == ASSUME TransferInv, ReadAction PROVE TransferInv'
<1>0. /\ lpc = "action"
      /\ UNCHANGED <<fetchVars, down, ended, queue, cur, accept_conn>>
  BY DEF ReadAction
<1>1. PICK h \in Fetchers : h = cur /\ h \notin queue
  BY <1>0, Served
<1>2. up[h] \in Seq(Nat) /\ (collected # None => collected \in Seq(Nat)) /\ pending = <<>>
  BY <1>0, <1>1 DEF TransferInv, TypeOK, ListenerInv
<1> DEFINE first   == collected = None
           body(p) == IF first THEN Tail(p) ELSE p
           text(p) == BeforeNul(body(p))
           name(p) == (IF first THEN <<>> ELSE collected) \o text(p)
           nul(p)  == Len(text(p)) < Len(body(p))
<1>3. PICK p \in PrefixesOf(up[h]) :
        /\ up' = [up EXCEPT ![h] = Drop(@, Len(p))]
        /\ \/ \E e \in Nat \ {0} : Refuse(e)
           \/ nul(p) /\ Resolve(name(p)) /\ collected' = name(p)
           \/ ~nul(p) /\ collected' = name(p) /\ UNCHANGED <<lpc, src, offset, pending>>
  <2>1. /\ UNHANDLED_ACTION \in Nat \ {0} /\ UNKNOWN_ACTION \in Nat \ {0} /\ TOO_MUCH_DATA \in Nat \ {0}
    BY DEF UNHANDLED_ACTION, UNKNOWN_ACTION, TOO_MUCH_DATA
  <2> HIDE DEF first, body, text, name, nul
  <2>2. PICK p \in PrefixesOf(up[cur]) :
          /\ up' = [up EXCEPT ![cur] = Drop(@, Len(p))]
          /\ \/ /\ Respond(IF p[1] <= 4 THEN UNHANDLED_ACTION ELSE UNKNOWN_ACTION)
                /\ UNCHANGED <<collected, src, offset>>
             \/ /\ Respond(TOO_MUCH_DATA)
                /\ UNCHANGED <<collected, src, offset>>
             \/ nul(p) /\ Resolve(name(p)) /\ collected' = name(p)
             \/ ~nul(p) /\ collected' = name(p) /\ UNCHANGED <<lpc, src, offset, pending>>
    BY Zenon DEF ReadAction, first, body, text, name, nul
  <2>3. (IF p[1] <= 4 THEN UNHANDLED_ACTION ELSE UNKNOWN_ACTION) \in Nat \ {0}
    BY <2>1, Zenon
  <2>4. \/ \E e \in Nat \ {0} : Refuse(e)
        \/ nul(p) /\ Resolve(name(p)) /\ collected' = name(p)
        \/ ~nul(p) /\ collected' = name(p) /\ UNCHANGED <<lpc, src, offset, pending>>
    BY <2>1, <2>2, <2>3, Zenon DEF Respond, Refuse
  <2> QED
    BY <1>1, <2>2, <2>4, Zenon
<1> DEFINE r == Drop(up[h], Len(p))
<1>4. p \in Seq(Nat) /\ p # <<>> /\ r \in Seq(Nat) /\ Len(up[h]) # 0
  <2>1. p \in Seq(Nat) /\ p # <<>> /\ r \in Seq(Nat) /\ Len(p) \in 1 .. Len(up[h])
    BY <1>2, Prefixes, Zenon
  <2>2. Len(up[h]) # 0
    BY <2>1
  <2> QED
    BY <2>1, <2>2, Zenon
<1>5. name(p) \in Seq(Nat)
  <2>1. Tail(p) \in Seq(Nat)
    BY <1>4, HeadOff
  <2>2. body(p) \in Seq(Nat)
    BY <1>4, <2>1, Zenon
  <2>3. text(p) \in Seq(Nat)
    BY <2>2, BeforeNulIs, Zenon
  <2>4. (IF first THEN <<>> ELSE collected) \in Seq(Nat)
    BY <1>2, Empty, Zenon
  <2> QED
    BY <2>3, <2>4, Concat, Zenon
<1>6. up' = [up EXCEPT ![h] = r]
  BY <1>3
<1>7. ASSUME fpc[h] \in {"first", "rest"}
      PROVE  (nul(p) => name(p) = want[h]) /\ (~nul(p) => name(p) \o r = Rest(want[h]))
  BY <1>0, <1>1, <1>3, <1>7, Understood
<1>8. fpc[h] # "request"
  <2>1. up[h] # <<>>
    BY <1>4
  <2> QED
    BY <2>1 DEF TransferInv, FetcherInv
<1>9. \/ \E e \in Nat \ {0} : Refuse(e)
      \/ nul(p) /\ Resolve(name(p)) /\ collected' = name(p)
      \/ ~nul(p) /\ collected' = name(p) /\ UNCHANGED <<lpc, src, offset, pending>>
  BY <1>3, Zenon
<1> HIDE DEF first, body, text, name, nul, r
<1>10. /\ lpc' \in {"action", "respond", "fail", "send"}
       /\ pending' \in Seq(Nat) /\ src' \in Seq(Nat) /\ offset' \in {0, 1}
       /\ collected' = None \/ collected' \in Seq(Nat)
       /\ lpc' \in {"action", "fail"} => pending' = <<>>
  <2>1. src \in Seq(Nat) /\ offset \in {0, 1} /\ (collected = None \/ collected \in Seq(Nat))
    BY DEF TransferInv, TypeOK
  <2>2. CASE \E e \in Nat \ {0} : Refuse(e)
    BY <2>1, <2>2 DEF Refuse
  <2>3. CASE nul(p) /\ Resolve(name(p)) /\ collected' = name(p)
    BY <1>0, <1>5, <2>3, Resolved
  <2>4. CASE ~nul(p) /\ collected' = name(p) /\ UNCHANGED <<lpc, src, offset, pending>>
    BY <1>0, <1>2, <1>5, <2>1, <2>4, Empty
  <2> QED
    BY <1>9, <2>2, <2>3, <2>4, Zenon
<1>11. TypeOK'
  BY <1>0, <1>4, <1>6, <1>10 DEF TransferInv, TypeOK, fetchVars
<1>12. ListenerInv'
  BY <1>0, <1>1, <1>10, NoneAssumption DEF TransferInv, ListenerInv
<1>13. \A g \in Fetchers \ {h} : up'[g] = up[g] /\ down'[g] = down[g]
  BY <1>0, <1>6 DEF TransferInv, TypeOK
<1>14. ASSUME fpc[h] \in {"first", "rest"} PROVE ServedInv(h)'
  <2>1. Got(h)' = Got(h) /\ want'[h] = want[h] /\ up'[h] = r
    BY <1>0, <1>6 DEF TransferInv, TypeOK, Got, fetchVars
  <2>2. Got(h) = <<>>
    BY <1>0, <1>1, <1>14 DEF TransferInv, ServedInv
  <2>3. \E q \in Seq(Nat) : Answer(want'[h], Got(h)' \o q)
    BY <2>1, <2>2, NothingYet, Zenon
  <2>4. ASSUME NEW e \in Nat \ {0}, pending' = <<e>> PROVE Answer(want'[h], Got(h)' \o pending')
    <3>1. <<e>> \in Seq(Nat)
      OBVIOUS
    <3>2. <<>> \o <<e>> = <<e>>
      BY <3>1, Unit
    <3> QED
      BY <2>1, <2>2, <2>4, <3>2, Zenon DEF Answer
  <2>5. h \notin queue'
    BY <1>0, <1>1
  <2>6. CASE \E e \in Nat \ {0} : Refuse(e)
    <3>1. lpc' = "respond" /\ Answer(want'[h], Got(h)' \o pending')
      BY <2>4, <2>6, Zenon DEF Refuse
    <3> QED
      BY <2>3, <2>5, <3>1 DEF ServedInv
  <2>7. CASE nul(p) /\ Resolve(name(p)) /\ collected' = name(p)
    <3>1. name(p) = want[h]
      BY <1>7, <1>14, <2>7
    <3>2. /\ lpc' \in {"respond", "fail", "send"}
          /\ lpc' = "respond" => \E e \in Nat \ {0} : pending' = <<e>>
          /\ lpc' = "send" => /\ IsFile(want[h]) /\ src' = Store[want[h]].data
                              /\ offset' = 1 /\ pending' = <<>>
      BY <1>0, <2>7, <3>1, Resolved
    <3>3. lpc' = "respond" => Answer(want'[h], Got(h)' \o pending')
      BY <2>4, <3>2, Zenon
    <3> QED
      BY <2>1, <2>2, <2>3, <2>5, <3>2, <3>3 DEF ServedInv
  <2>8. CASE ~nul(p) /\ collected' = name(p) /\ UNCHANGED <<lpc, src, offset, pending>>
    <3>1. collected' # None /\ collected' \o up'[h] = Rest(want'[h]) /\ lpc' = "action"
      BY <1>0, <1>5, <1>7, <1>14, <2>1, <2>8, NoneAssumption
    <3> QED
      BY <2>1, <2>2, <2>3, <2>5, <3>1 DEF ServedInv
  <2> QED
    BY <1>9, <2>6, <2>7, <2>8, Zenon
<1> QED
  BY <1>0, <1>1, <1>8, <1>11, <1>12, <1>13, <1>14, ServeStep

-----------------------------------------------------------------------------
(* The theorems                                                            *)

LEMMA TransferInit == Init => TransferInv
<1> SUFFICES ASSUME Init PROVE TransferInv
  OBVIOUS
<1>1. TypeOK
  BY Empty DEF Init, TypeOK
<1>2. ListenerInv
  BY DEF Init, ListenerInv
<1>3. \A f \in Fetchers : FetcherInv(f) /\ ServedInv(f)
  BY NoneAssumption DEF Init, FetcherInv, ServedInv
<1> QED
  BY <1>1, <1>2, <1>3 DEF TransferInv

LEMMA TransferNext == TransferInv /\ [Next]_vars => TransferInv'
<1> SUFFICES ASSUME TransferInv, [Next]_vars PROVE TransferInv'
  OBVIOUS
<1>1. ASSUME NEW f \in Fetchers, Fetcher(f) PROVE TransferInv'
  BY <1>1, SearchFoundInv, SearchFailsInv, ConnectInv, ConnectFailsInv, SendRequestInv,
     SendRequestFailsInv, ReadStatusInv, ReadDataInv, ReadEndInv, ReadErrorInv DEF Fetcher
<1>2. ASSUME NEW f \in Fetchers, FetcherDies(f) PROVE TransferInv'
  BY <1>2, FetcherDiesInv
<1>3. ASSUME NEW f \in Fetchers, NEW op \in OtherOpcodes, SendOther(f, op) PROVE TransferInv'
  BY <1>3, SendOtherInv
<1>4. CASE ServeConn
  BY <1>4, ReadActionInv, ActionEndsInv, ReadTimeoutInv, SendChunkInv, SendEmptyInv, WriteInv,
     WriteFailsInv, ConnDoneInv DEF ServeConn
<1>5. ASSUME NEW f \in Fetchers, Accept(f) \/ AcceptDrops(f) PROVE TransferInv'
  BY <1>5, AcceptInv, AcceptDropsInv
<1>6. CASE ListenerEnds \/ ClearFlag
  BY <1>6, ListenerEndsInv, ClearFlagInv
<1>7. CASE Finished \/ UNCHANGED vars
  BY <1>7, StutterInv DEF Finished
<1> QED
  BY <1>1, <1>2, <1>3, <1>4, <1>5, <1>6, <1>7 DEF Next, Listener

\* For any number of fetchers, any files and any buffer sizes, what was sent to
\* a waiting fetcher and what the listener still holds for it are the two parts
\* of one answer to its own request.
THEOREM TransferConsistent == Spec => []TransferInv
BY TransferInit, TransferNext, PTL DEF Spec

\* The variables of fetchers and listener always hold what their types say.
THEOREM TypeCorrect == Spec => []TypeOK
<1>1. TransferInv => TypeOK
  BY DEF TransferInv
<1> QED
  BY <1>1, TransferConsistent, PTL

\* However reads and writes are cut, whoever else is served and however a
\* connection ends, the output of a fetch is a prefix of what the listener sends
\* for the file asked for.
THEOREM OutputComesFromTheFile == Spec => []OutputIsFromTheFile
<1>1. TransferInv => OutputIsFromTheFile
  BY AlwaysDelivered DEF Delivered, OutputIsFromTheFile, IsFile
<1> QED
  BY <1>1, TransferConsistent, PTL

=============================================================================
