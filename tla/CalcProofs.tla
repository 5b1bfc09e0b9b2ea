----------------------------- MODULE CalcProofs -----------------------------
(***************************************************************************)
(* Theorems about Calc, for every number of clients, every byte size and   *)
(* every width of the operands.                                            *)
(***************************************************************************)
EXTENDS Calc, ByteSequences

-----------------------------------------------------------------------------
(* Numbers in big-endian order                                             *)

LEMMA Positive == Base \in Nat /\ Base >= 2 /\ Width \in Nat \ {0} /\ WideWidth \in Nat
BY CalcAssumption

LEMMA Division ==
  ASSUME NEW x \in Nat
  PROVE  /\ x \div Base \in Nat
         /\ x % Base \in Byte
         /\ (x \div Base) * Base + (x % Base) = x
BY Positive DEF Byte

\* q holds the first k shifts of n.
Shifts(q, n, k) == q = [i \in 0 .. k |-> IF i = 0 THEN n ELSE q[i - 1] \div Base]

LEMMA ShiftsExist ==
  ASSUME NEW n \in Nat, NEW k \in Nat
  PROVE  \E q : Shifts(q, n, k)
<1> DEFINE S == {j \in Nat : \E q : Shifts(q, n, j)}
<1>1. 0 \in S
  <2>1. Shifts([i \in 0 .. 0 |-> n], n, 0)
    BY DEF Shifts
  <2> QED
    BY <2>1
<1>2. ASSUME NEW j \in Nat, j \in S PROVE j + 1 \in S
  <2>1. PICK q : Shifts(q, n, j)
    BY <1>2
  <2> DEFINE h == [i \in 0 .. j + 1 |-> IF i = j + 1 THEN q[j] \div Base ELSE q[i]]
  <2>2. \A i \in 0 .. j + 1 : h[i] = IF i = 0 THEN n ELSE h[i - 1] \div Base
    BY <2>1 DEF Shifts
  <2>3. Shifts(h, n, j + 1)
    BY <2>2 DEF Shifts
  <2> HIDE DEF h
  <2> QED
    BY <2>3
<1> HIDE DEF S
<1>3. k \in S
  BY <1>1, <1>2, Induction
<1> QED
  BY <1>3 DEF S

LEMMA ShiftsAgree ==
  ASSUME NEW n \in Nat, NEW k \in Nat, NEW q, NEW h, Shifts(q, n, k), Shifts(h, n, k + 1)
  PROVE  \A i \in 0 .. k : h[i] = q[i]
<1> DEFINE S == {i \in Nat : i <= k => h[i] = q[i]}
<1>1. 0 \in S
  BY DEF Shifts
<1>2. ASSUME NEW i \in Nat, i \in S PROVE i + 1 \in S
  BY <1>2 DEF Shifts
<1> HIDE DEF S
<1>3. \A i \in Nat : i \in S
  BY <1>1, <1>2, Induction
<1> QED
  BY <1>3 DEF S

LEMMA ShiftedIs ==
  ASSUME NEW n \in Nat, NEW k \in Nat
  PROVE  \E q : Shifts(q, n, k) /\ Shifted(n, k) = q[k]
<1> DEFINE q[i \in 0 .. k] == IF i = 0 THEN n ELSE q[i - 1] \div Base
<1>1. Shifted(n, k) = q[k]
  BY DEF Shifted
<1>2. Shifts(q, n, k)
  BY ShiftsExist DEF Shifts
<1> HIDE DEF q
<1> QED
  BY <1>1, <1>2

LEMMA ShiftedStep ==
  ASSUME NEW n \in Nat, NEW k \in Nat
  PROVE  Shifted(n, 0) = n /\ Shifted(n, k + 1) = Shifted(n, k) \div Base
<1>1. PICK q : Shifts(q, n, k) /\ Shifted(n, k) = q[k]
  BY ShiftedIs
<1>2. PICK h : Shifts(h, n, k + 1) /\ Shifted(n, k + 1) = h[k + 1]
  BY ShiftedIs
<1>3. h[k] = q[k]
  BY <1>1, <1>2, ShiftsAgree
<1>4. h[k + 1] = h[k] \div Base
  BY <1>2 DEF Shifts
<1>5. PICK z : Shifts(z, n, 0) /\ Shifted(n, 0) = z[0]
  BY ShiftedIs
<1>6. z[0] = n
  BY <1>5 DEF Shifts
<1> QED
  BY <1>1, <1>2, <1>3, <1>4, <1>5, <1>6

LEMMA ShiftedType == ASSUME NEW n \in Nat, NEW k \in Nat PROVE Shifted(n, k) \in Nat
<1> DEFINE S == {j \in Nat : Shifted(n, j) \in Nat}
<1>1. 0 \in S
  BY ShiftedStep
<1>2. ASSUME NEW j \in Nat, j \in S PROVE j + 1 \in S
  <2>1. Shifted(n, j + 1) = Shifted(n, j) \div Base /\ Shifted(n, j) \in Nat
    BY <1>2, ShiftedStep
  <2> QED
    BY <2>1, Division
<1> HIDE DEF S
<1> QED
  BY <1>1, <1>2, Induction DEF S

LEMMA EncodeType ==
  ASSUME NEW n \in Nat, NEW w \in Nat
  PROVE  Encode(n, w) \in Seq(Byte) /\ Len(Encode(n, w)) = w
<1>1. \A i \in 1 .. w : Shifted(n, w - i) % Base \in Byte
  <2> TAKE i \in 1 .. w
  <2>1. Shifted(n, w - i) \in Nat
    BY ShiftedType
  <2> QED
    BY <2>1, Division
<1> QED
  BY <1>1 DEF Encode

\* What Decode computes, digit by digit.
Digits(f, s, k) == f = [i \in 0 .. k |-> IF i = 0 THEN 0 ELSE f[i - 1] * Base + s[i]]

LEMMA DigitsExist == ASSUME NEW s \in Seq(Byte) PROVE \E f : Digits(f, s, Len(s))
<1> DEFINE S == {k \in Nat : \E f : Digits(f, s, k)}
<1>1. 0 \in S
  <2>1. Digits([i \in 0 .. 0 |-> 0], s, 0)
    BY DEF Digits
  <2> QED
    BY <2>1
<1>2. ASSUME NEW k \in Nat, k \in S PROVE k + 1 \in S
  <2>1. PICK f : Digits(f, s, k)
    BY <1>2
  <2> DEFINE h == [i \in 0 .. k + 1 |-> IF i = k + 1 THEN f[k] * Base + s[k + 1] ELSE f[i]]
  <2>2. \A i \in 0 .. k + 1 : h[i] = IF i = 0 THEN 0 ELSE h[i - 1] * Base + s[i]
    BY <2>1 DEF Digits
  <2>3. Digits(h, s, k + 1)
    BY <2>2 DEF Digits
  <2> HIDE DEF h
  <2> QED
    BY <2>3
<1> HIDE DEF S
<1>3. Len(s) \in S
  BY <1>1, <1>2, Induction
<1> QED
  BY <1>3 DEF S

LEMMA DecodeIs ==
  ASSUME NEW s \in Seq(Byte)
  PROVE  \E f : Digits(f, s, Len(s)) /\ Decode(s) = f[Len(s)]
<1> DEFINE f[i \in 0 .. Len(s)] == IF i = 0 THEN 0 ELSE f[i - 1] * Base + s[i]
<1>1. Decode(s) = f[Len(s)]
  BY DEF Decode
<1>2. Digits(f, s, Len(s))
  BY DigitsExist DEF Digits
<1> HIDE DEF f
<1> QED
  BY <1>1, <1>2

LEMMA Product == ASSUME NEW a \in Nat, NEW b \in Nat PROVE a * b \in Nat
OBVIOUS

LEMMA DecodeType == ASSUME NEW s \in Seq(Byte) PROVE Decode(s) \in Nat
<1>1. PICK f : Digits(f, s, Len(s)) /\ Decode(s) = f[Len(s)]
  BY DecodeIs
<1> DEFINE S == {k \in Nat : k <= Len(s) => f[k] \in Nat}
<1>2. 0 \in S
  BY <1>1 DEF Digits
<1>3. ASSUME NEW k \in Nat, k \in S, k + 1 <= Len(s) PROVE f[k + 1] \in Nat
  <2>1. f[k] \in Nat /\ s[k + 1] \in Nat
    BY <1>3, Positive DEF Byte
  <2>2. f[k + 1] = f[k] * Base + s[k + 1]
    BY <1>1, <1>3 DEF Digits
  <2>3. f[k] * Base \in Nat
    BY <2>1, Positive, Product
  <2> QED
    BY <2>1, <2>2, <2>3
<1>4. \A k \in Nat : k \in S => k + 1 \in S
  BY <1>3
<1> HIDE DEF S
<1>5. Len(s) \in S
  BY <1>2, <1>4, Induction
<1> QED
  BY <1>1, <1>5 DEF S

\* A number that fits is read back as it was written.
LEMMA RoundTrip ==
  ASSUME NEW n \in Nat, NEW w \in Nat, Shifted(n, w) = 0
  PROVE  Decode(Encode(n, w)) = n
<1> DEFINE s == Encode(n, w)
<1>1. s \in Seq(Byte) /\ Len(s) = w
  BY EncodeType
<1>2. \A i \in 1 .. w : s[i] = Shifted(n, w - i) % Base
  BY DEF Encode
<1> HIDE DEF s
<1>3. PICK f : Digits(f, s, Len(s)) /\ Decode(s) = f[w]
  BY <1>1, DecodeIs
<1> DEFINE S == {k \in Nat : k <= w => f[k] = Shifted(n, w - k)}
<1>4. 0 \in S
  BY <1>3 DEF Digits
<1>5. ASSUME NEW k \in Nat, k \in S, k + 1 <= w PROVE f[k + 1] = Shifted(n, w - (k + 1))
  <2> DEFINE j == w - (k + 1)
             x == Shifted(n, j)
  <2>1. j \in Nat /\ j + 1 = w - k
    BY <1>5
  <2>2. x \in Nat /\ Shifted(n, j + 1) = x \div Base
    BY <2>1, ShiftedType, ShiftedStep
  <2>3. f[k] = x \div Base
    BY <1>5, <2>1, <2>2
  <2>4. f[k + 1] = f[k] * Base + s[k + 1]
    BY <1>1, <1>3, <1>5 DEF Digits
  <2>5. s[k + 1] = x % Base
    BY <1>2, <1>5
  <2>6. (x \div Base) * Base + (x % Base) = x
    BY <2>2, Division
  <2>7. f[k + 1] = x
    BY <2>3, <2>4, <2>5, <2>6, Zenon
  <2> QED
    BY <2>7
<1>6. \A k \in Nat : k \in S => k + 1 \in S
  BY <1>5
<1> HIDE DEF S
<1>7. w \in S
  BY <1>4, <1>6, Induction
<1>8. f[w] = Shifted(n, 0)
  BY <1>7 DEF S
<1> QED
  BY <1>3, <1>8, ShiftedStep DEF s

LEMMA Monotone == ASSUME NEW x \in Nat, NEW y \in Nat, x <= y PROVE x \div Base <= y \div Base
BY Positive

LEMMA Carry ==
  ASSUME NEW x \in Nat, NEW y \in Nat
  PROVE  (x + y + 1) \div Base <= (x \div Base) + (y \div Base) + 1
BY Positive

\* The sum of two operands fits into the result.
LEMMA SumFits ==
  ASSUME NEW a \in Nat, NEW b \in Nat, Shifted(a, Width) = 0, Shifted(b, Width) = 0
  PROVE  Shifted(a + b, WideWidth) = 0
<1>0. \A k \in Nat : Shifted(a, k) \in Nat /\ Shifted(b, k) \in Nat /\ Shifted(a + b, k) \in Nat
  <2>1. a + b \in Nat
    OBVIOUS
  <2> QED
    BY <2>1, ShiftedType
<1> DEFINE S == {k \in Nat : Shifted(a + b, k) <= Shifted(a, k) + Shifted(b, k) + 1}
<1>1. 0 \in S
  <2>1. Shifted(a, 0) = a /\ Shifted(b, 0) = b /\ Shifted(a + b, 0) = a + b
    BY ShiftedStep
  <2> QED
    BY <2>1
<1>2. ASSUME NEW k \in Nat, k \in S PROVE k + 1 \in S
  <2> DEFINE x == Shifted(a, k)
             y == Shifted(b, k)
             z == Shifted(a + b, k)
  <2>1. x \in Nat /\ y \in Nat /\ z \in Nat /\ z <= x + y + 1
    BY <1>0, <1>2
  <2>2. /\ Shifted(a, k + 1) = x \div Base
        /\ Shifted(b, k + 1) = y \div Base
        /\ Shifted(a + b, k + 1) = z \div Base
    BY ShiftedStep
  <2> HIDE DEF x, y, z
  <2>3. z \div Base <= (x + y + 1) \div Base
    BY <2>1, Monotone
  <2>4. (x + y + 1) \div Base <= (x \div Base) + (y \div Base) + 1
    BY <2>1, Carry
  <2>5. /\ x \div Base \in Nat /\ y \div Base \in Nat /\ z \div Base \in Nat
        /\ (x + y + 1) \div Base \in Nat
    BY <2>1, Division
  <2>6. z \div Base <= (x \div Base) + (y \div Base) + 1
    BY <2>3, <2>4, <2>5
  <2> QED
    BY <2>2, <2>6
<1> HIDE DEF S
<1>3. Width \in S
  BY <1>1, <1>2, Positive, Induction
<1>4. Shifted(a + b, Width) \in 0 .. 1
  <2>1. Shifted(a + b, Width) <= 0 + 0 + 1
    BY <1>3 DEF S
  <2>2. Shifted(a + b, Width) \in Nat
    BY <1>0, Positive
  <2> QED
    BY <2>1, <2>2
<1> DEFINE T == {k \in Nat : Shifted(a + b, Width + 1 + k) = 0}
<1>5. 0 \in T
  <2>1. Shifted(a + b, Width + 1) = Shifted(a + b, Width) \div Base
    BY ShiftedStep, Positive
  <2>2. 0 \div Base = 0 /\ 1 \div Base = 0
    BY Positive
  <2>3. Width + 1 + 0 = Width + 1
    BY Positive
  <2>4. Shifted(a + b, Width) = 0 \/ Shifted(a + b, Width) = 1
    BY <1>4
  <2>5. Shifted(a + b, Width + 1) = 0
    BY <2>1, <2>2, <2>4
  <2> QED
    BY <2>3, <2>5
<1>6. ASSUME NEW k \in Nat, k \in T PROVE k + 1 \in T
  <2>1. Width + 1 + k \in Nat /\ Width + 1 + (k + 1) = (Width + 1 + k) + 1
    BY Positive
  <2>2. Shifted(a + b, (Width + 1 + k) + 1) = Shifted(a + b, Width + 1 + k) \div Base
    BY <2>1, ShiftedStep
  <2>3. 0 \div Base = 0
    BY Positive
  <2> QED
    BY <1>6, <2>1, <2>2, <2>3
<1> HIDE DEF T
<1>7. WideWidth - (Width + 1) \in Nat
  BY CalcAssumption
<1>8. WideWidth - (Width + 1) \in T
  BY <1>5, <1>6, <1>7, Induction
<1>9. Width + 1 + (WideWidth - (Width + 1)) = WideWidth
  BY Positive
<1> QED
  BY <1>8, <1>9 DEF T

LEMMA Sizes == RequestLen \in Nat /\ RequestLen = 2 * Width + 1 /\ WideWidth \in 1 .. RequestLen
BY CalcAssumption DEF RequestLen

\* A byte between two sequences of one length.
LEMMA Joined ==
  ASSUME NEW x \in Seq(Byte), NEW y \in Seq(Byte), Len(x) = Width, Len(y) = Width
  PROVE  LET r == x \o <<Plus>> \o y
         IN  /\ r \in Seq(Byte) /\ Len(r) = RequestLen /\ r[Width + 1] = Plus
             /\ SubSeq(r, 1, Width) = x
             /\ SubSeq(r, Width + 2, RequestLen) = y
<1> DEFINE p == <<Plus>>
           t == x \o p
           r == t \o y
<1>0. Width \in Nat \ {0} /\ RequestLen = 2 * Width + 1
  BY Sizes, Positive
<1>1. p \in Seq(Byte) /\ Len(p) = 1 /\ p[1] = Plus
  BY CalcAssumption
<1> HIDE DEF p
<1>c. /\ t \in Seq(Byte) /\ Len(t) = Len(x) + Len(p)
      /\ \A i \in 1 .. Len(x) + Len(p) : t[i] = IF i <= Len(x) THEN x[i] ELSE p[i - Len(x)]
  BY <1>1, ConcatProperties, Zenon
<1> HIDE DEF t
<1>2. t \in Seq(Byte) /\ Len(t) = Width + 1 /\ (\A i \in 1 .. Width : t[i] = x[i]) /\ t[Width + 1] = Plus
  BY <1>0, <1>1, <1>c
<1>d. /\ r \in Seq(Byte) /\ Len(r) = Len(t) + Len(y)
      /\ \A i \in 1 .. Len(t) + Len(y) : r[i] = IF i <= Len(t) THEN t[i] ELSE y[i - Len(t)]
  BY <1>2, ConcatProperties, Zenon
<1> HIDE DEF r
<1>3. r \in Seq(Byte) /\ Len(r) = 2 * Width + 1
  BY <1>0, <1>2, <1>d
<1>4. /\ \A i \in 1 .. Width : r[i] = x[i]
      /\ r[Width + 1] = Plus
      /\ \A i \in 1 .. Width : r[Width + 1 + i] = y[i]
  BY <1>0, <1>2, <1>d
<1>5. SubSeq(r, 1, Width) = x
  <2>1. SubSeq(r, 1, Width) \in Seq(Byte) /\ Len(SubSeq(r, 1, Width)) = Width
    BY <1>0, <1>3
  <2>2. \A i \in 1 .. Width : SubSeq(r, 1, Width)[i] = x[i]
    BY <1>0, <1>3, <1>4
  <2> QED
    BY <2>1, <2>2, SeqEqual
<1>6. SubSeq(r, Width + 2, 2 * Width + 1) = y
  <2> DEFINE u == SubSeq(r, Width + 2, 2 * Width + 1)
  <2>1. u \in Seq(Byte) /\ Len(u) = Width
    BY <1>0, <1>3
  <2>2. \A i \in 1 .. Width : u[i] = r[Width + 1 + i]
    BY <1>0, <1>3
  <2> HIDE DEF u
  <2>3. \A i \in 1 .. Width : u[i] = y[i]
    BY <1>4, <2>2
  <2> QED
    BY <2>1, <2>3, SeqEqual DEF u
<1>7. r = x \o <<Plus>> \o y
  BY DEF r, t, p
<1> QED
  BY <1>0, <1>3, <1>4, <1>5, <1>6, <1>7, Zenon

\* The server finds the two operands of a whole request, and adds them.
LEMMA RequestIsRead ==
  ASSUME NEW a \in Nat, NEW b \in Nat, Shifted(a, Width) = 0, Shifted(b, Width) = 0
  PROVE  LET r == Encode(a, Width) \o <<Plus>> \o Encode(b, Width)
         IN  r \in Seq(Byte) /\ Len(r) = RequestLen /\ Result(r) = a + b
<1> DEFINE x == Encode(a, Width)
           y == Encode(b, Width)
           r == x \o <<Plus>> \o y
<1>1. x \in Seq(Byte) /\ Len(x) = Width /\ y \in Seq(Byte) /\ Len(y) = Width
  BY EncodeType, Positive
<1>2. Decode(x) = a /\ Decode(y) = b
  BY RoundTrip, Positive
<1> HIDE DEF x, y
<1>3. /\ r \in Seq(Byte) /\ Len(r) = RequestLen /\ r[Width + 1] = Plus
      /\ SubSeq(r, 1, Width) = x
      /\ SubSeq(r, Width + 2, RequestLen) = y
  BY <1>1, Joined
<1> HIDE DEF r
<1>4. Result(r) = a + b
  BY <1>2, <1>3, Zenon DEF Result
<1> QED
  BY <1>3, <1>4 DEF r, x, y

\* What a recv of the whole message leaves at the start of the buffer.
LEMMA WholeIsRead ==
  ASSUME NEW w \in Seq(Byte), NEW buf \in [1 .. RequestLen -> Byte], Len(w) <= RequestLen
  PROVE  /\ SubSeq(Overwrite(buf, w), 1, Len(w)) = w
         /\ Len(w) = RequestLen => Overwrite(buf, w) = w
         /\ Overwrite(buf, w) \in [1 .. RequestLen -> Byte]
<1> DEFINE o == Overwrite(buf, w)
<1>1. o \in [1 .. RequestLen -> Byte]
  BY Sizes DEF Overwrite
<1>2. o \in Seq(Byte) /\ Len(o) = RequestLen
  BY <1>1, Sizes
<1>3. \A i \in 1 .. Len(w) : o[i] = w[i]
  BY Sizes DEF Overwrite
<1> HIDE DEF o
<1>4. SubSeq(o, 1, Len(w)) = w
  <2>1. SubSeq(o, 1, Len(w)) \in Seq(Byte) /\ Len(SubSeq(o, 1, Len(w))) = Len(w)
    BY <1>2
  <2>2. \A i \in 1 .. Len(w) : SubSeq(o, 1, Len(w))[i] = w[i]
    BY <1>2, <1>3
  <2> QED
    BY <2>1, <2>2, SeqEqual
<1>5. Len(w) = RequestLen => o = w
  BY <1>2, <1>3, SeqEqual
<1> QED
  BY <1>1, <1>4, <1>5 DEF o

-----------------------------------------------------------------------------
(* The inductive invariant                                                 *)

Up(c)   == <<c, "up">>
Down(c) == <<c, "down">>

\* Connected to a server that runs, and not given up by it.
Held(c)    == cur = c \/ c \in backlog
Read(c)    == cur = c /\ pc[Server] = "recv"
Replied(c) == cur = c /\ pc[Server] = "send"

ServerInvariant ==
  /\ pc[Server] \in {"start", "accept", "recv", "send", "dead"}
  /\ cur # None <=> pc[Server] \in {"recv", "send"}
  /\ cur \notin backlog
  /\ pc[Server] \in {"start", "dead"} => backlog = {}

\* What the two ends know of each other.
KnownEnds(c) ==
  /\ pc[c] # "accept"
  /\ Held(c) => ear[Down(c)] = "open" /\ pc[c] # "start"
  /\ Held(c) /\ pc[c] = "dead" => ear[Up(c)] # "open"
  /\ pc[c] # "dead" => ear[Up(c)] = "open"
  /\ pc[c] = "start" => wire[Up(c)] = <<>> /\ ear[Down(c)] = "open"
  /\ c \in backlog => ear[Up(c)] \in {"open", "fin"}
  /\ pc[c] # "recv" \/ c \in backlog => wire[Down(c)] = <<>>

\* How far the two ends are in their buffers.
BufferBounds(c) ==
  /\ pc[c] = "send" => Len(mem[c].send_buffer) = RequestLen /\ mem[c].length > 0
  /\ pc[c] = "recv" => Len(wire[Down(c)]) + mem[c].total_read <= WideWidth
  /\ Held(c) => Asked(c) <= RequestLen
  /\ Replied(c) => /\ Len(mem[Server].send_buffer) = WideWidth
                   /\ mem[Server].length \in 1 .. WideWidth
                   /\ wire[Up(c)] = <<>>

\* A client that left data unread has no request under way.  As long as no
\* byte of the reply was sent, its client waits for it or has left without
\* leaving data unread; and a reply of which nothing was cut is still whole.
ReplyIsWhole(c) ==
  /\ Read(c) /\ ear[Up(c)] \in {"rst", "broken"} => wire[Up(c)] = <<>>
  /\ Replied(c) /\ mem[Server].length = WideWidth => /\ ear[Up(c)] \in {"open", "fin"}
                                                     /\ wire[Down(c)] = <<>>
  /\ Replied(c) /\ ~calc[c].cut => mem[Server].length = WideWidth

Request(c) == Encode(calc[c].lhs, Width) \o <<Plus>> \o Encode(calc[c].rhs, Width)
Reply(c)   == Encode(calc[c].lhs + calc[c].rhs, WideWidth)

\* As long as nothing was cut, each buffer and each stream holds the whole
\* request, the whole reply or nothing.
NothingIsMixed(c) ==
  ~calc[c].cut =>
    /\ pc[c] = "send" => mem[c].send_buffer = Request(c) /\ mem[c].length = RequestLen
    /\ pc[c] \in {"send", "recv"} /\ Held(c) => /\ wire[Up(c)] \in {<<>>, Request(c)}
                                                /\ Read(c) => mem[Server].total_read = 0
    /\ pc[c] = "recv" => /\ wire[Down(c)] \in {<<>>, Reply(c)}
                         /\ mem[c].total_read = 0
                         /\ Replied(c) => mem[Server].send_buffer = Reply(c)

SumIsRight(c) ==
  /\ Shifted(calc[c].lhs, Width) = 0
  /\ Shifted(calc[c].rhs, Width) = 0
  /\ calc[c].shown # None /\ ~calc[c].cut => calc[c].shown = calc[c].lhs + calc[c].rhs

ClientInvariant(c) ==
  /\ KnownEnds(c)
  /\ BufferBounds(c)
  /\ Live(c) => InStepWith(c)
  /\ ReplyIsWhole(c)
  /\ NothingIsMixed(c)
  /\ SumIsRight(c)

CalcInvariant == ServerInvariant /\ \A c \in Clients : ClientInvariant(c)

Inv == TypeOK /\ CalcInvariant

Memory == [send_buffer : Seq(Byte), length : 0 .. RequestLen,
           recv_buffer : [1 .. RequestLen -> Byte], total_read : Nat]
Sum    == [lhs : Nat, rhs : Nat, shown : Nat \cup {None}, cut : BOOLEAN]

LEMMA Names ==
  /\ Server \in Ends /\ Server \notin Clients /\ None \notin Clients /\ None # Server
  /\ \A c \in Clients : c \in Ends /\ c # Server /\ c # None
BY CalcAssumption DEF Ends

LEMMA StreamNames ==
  ASSUME NEW c \in Clients
  PROVE  /\ Up(c) \in Streams /\ Down(c) \in Streams /\ Up(c) # Down(c)
         /\ Up(c)[1] = c /\ Down(c)[1] = c
         /\ In(c) = Down(c) /\ Out(c) = Up(c) /\ Who(c) = c
         /\ \A d \in Clients : d # c => /\ Up(c) # Up(d) /\ Up(c) # Down(d)
                                        /\ Down(c) # Up(d) /\ Down(c) # Down(d)
BY Names DEF Up, Down, Streams, In, Out, Who

LEMMA ServerStreams ==
  ASSUME cur \in Clients
  PROVE  In(Server) = Up(cur) /\ Out(Server) = Down(cur) /\ Who(Server) = cur
BY Names DEF In, Out, Who, Up, Down

LEMMA ClearedType == Cleared \in Memory
<1>1. Filled(0) \in [1 .. RequestLen -> Byte]
  BY Positive DEF Filled, Byte
<1>2. <<>> \in Seq(Byte)
  BY EmptySeq
<1> QED
  BY <1>1, <1>2, Sizes DEF Cleared, Memory

LEMMA MemoryType ==
  ASSUME NEW m \in Memory, NEW s \in Seq(Byte), NEW n \in 0 .. RequestLen, NEW k \in Nat
  PROVE  [m EXCEPT !.send_buffer = s, !.length = n, !.total_read = k] \in Memory
BY DEF Memory

\* The memory of a program that has sent everything.
LEMMA SentType ==
  ASSUME NEW m \in Memory
  PROVE  /\ [m EXCEPT !.send_buffer = <<>>, !.length = 0, !.total_read = 0] \in Memory
         /\ [m EXCEPT !.send_buffer = <<>>, !.length = 0, !.total_read = 0].total_read = 0
<1>1. <<>> \in Seq(Byte) /\ 0 \in 0 .. RequestLen /\ 0 \in Nat
  BY EmptySeq, Sizes
<1>2. [m EXCEPT !.send_buffer = <<>>, !.length = 0, !.total_read = 0] \in Memory
  BY <1>1, MemoryType, Zenon
<1> QED
  BY <1>2 DEF Memory

LEMMA NoSumType == NoSum \in Sum
BY DEF NoSum, Sum

LEMMA NothingShifts == Shifted(0, Width) = 0
<1> DEFINE S == {k \in Nat : Shifted(0, k) = 0}
<1>1. 0 \in S
  BY ShiftedStep
<1>2. ASSUME NEW k \in Nat, k \in S PROVE k + 1 \in S
  <2>1. Shifted(0, k + 1) = 0 \div Base
    BY <1>2, ShiftedStep
  <2> QED
    BY <2>1, Positive
<1> HIDE DEF S
<1>3. Width \in S
  BY <1>1, <1>2, Positive, Induction
<1> QED
  BY <1>3 DEF S

LEMMA InitInv == Init => Inv
<1> SUFFICES ASSUME Init PROVE Inv
  OBVIOUS
<1>0. PICK b \in Leftover : mem = [e \in Ends |-> IF e = Server
                                  THEN [Cleared EXCEPT !.recv_buffer = Filled(b)] ELSE Cleared]
  BY DEF Init
<1>1. TypeOK
  <2>1. [Cleared EXCEPT !.recv_buffer = Filled(b)] \in Memory
    <3>1. Filled(b) \in [1 .. RequestLen -> Byte]
      BY CalcAssumption DEF Filled
    <3> QED
      BY <3>1, ClearedType DEF Memory
  <2>2. mem \in [Ends -> Memory]
    BY <1>0, <2>1, ClearedType
  <2>3. wire \in [Streams -> Seq(Byte)]
    BY EmptySeq DEF Init
  <2>4. calc \in [Clients -> Sum]
    BY NoSumType DEF Init
  <2> QED
    BY <2>2, <2>3, <2>4 DEF Init, TypeOK, Memory, Sum
<1>2. ServerInvariant
  BY Names DEF Init, ServerInvariant
<1>3. ASSUME NEW c \in Clients PROVE ClientInvariant(c)
  <2>1. /\ pc[c] = "start" /\ pc[Server] = "start" /\ cur # c /\ c \notin backlog
        /\ wire[Up(c)] = <<>> /\ wire[Down(c)] = <<>> /\ ear[Up(c)] = "open" /\ ear[Down(c)] = "open"
        /\ calc[c] = NoSum
    BY Names, StreamNames DEF Init
  <2>2. SumIsRight(c)
    BY <2>1, NothingShifts DEF SumIsRight, NoSum
  <2>3. ~Live(c) /\ ~Held(c) /\ ~Read(c) /\ ~Replied(c)
    BY <2>1 DEF Live, Held, Read, Replied
  <2> QED
    BY <2>1, <2>2, <2>3 DEF ClientInvariant, KnownEnds, BufferBounds, ReplyIsWhole, NothingIsMixed
<1> QED
  BY <1>1, <1>2, <1>3 DEF Inv, CalcInvariant

\* A step that changes nothing client d could see.
Untouched(d) ==
  /\ pc'[d] = pc[d] /\ mem'[d] = mem[d] /\ calc'[d] = calc[d]
  /\ wire'[Up(d)] = wire[Up(d)] /\ wire'[Down(d)] = wire[Down(d)]
  /\ ear'[Up(d)] = ear[Up(d)] /\ ear'[Down(d)] = ear[Down(d)]
  /\ cur' = d <=> cur = d
  /\ d \in backlog' <=> d \in backlog
  /\ cur = d => pc'[Server] = pc[Server] /\ mem'[Server] = mem[Server]
  /\ pc[Server] = "dead" => pc'[Server] = "dead"

LEMMA Frame ==
  ASSUME NEW d \in Clients, ClientInvariant(d), Untouched(d)
  PROVE  ClientInvariant(d)'
<1>1. /\ Held(d)' <=> Held(d)
      /\ Read(d)' <=> Read(d)
      /\ Replied(d)' <=> Replied(d)
      /\ Live(d)' => Live(d)
  BY DEF Untouched, Held, Read, Replied, Live, Down
<1>2. Asked(d)' = Asked(d) /\ Answered(d)' = Answered(d)
  BY DEF Untouched, Asked, Answered, Up, Down
<1>3. Request(d)' = Request(d) /\ Reply(d)' = Reply(d)
  BY DEF Untouched, Request, Reply
<1>4. KnownEnds(d)'
  BY <1>1 DEF ClientInvariant, KnownEnds, Untouched
<1>5. BufferBounds(d)'
  BY <1>1, <1>2 DEF ClientInvariant, BufferBounds, Replied, Untouched
<1>6. Live(d)' => InStepWith(d)'
  BY <1>1, <1>2 DEF ClientInvariant, InStepWith, Untouched
<1>7. ReplyIsWhole(d)'
  BY <1>1 DEF ClientInvariant, ReplyIsWhole, Replied, Untouched
<1>8. NothingIsMixed(d)'
  BY <1>1, <1>3 DEF ClientInvariant, NothingIsMixed, Read, Replied, Untouched
<1>9. SumIsRight(d)'
  BY DEF ClientInvariant, SumIsRight, Untouched
<1> QED
  BY <1>4, <1>5, <1>6, <1>7, <1>8, <1>9 DEF ClientInvariant

LEMMA Types ==
  ASSUME TypeOK, NEW c \in Clients
  PROVE  /\ pc[c] \in {"start", "accept", "prompt", "send", "recv", "dead"}
         /\ mem[c] \in Memory /\ mem[Server] \in Memory /\ calc[c] \in Sum
         /\ wire[Up(c)] \in Seq(Byte) /\ wire[Down(c)] \in Seq(Byte)
         /\ Len(wire[Up(c)]) \in Nat /\ Len(wire[Down(c)]) \in Nat
         /\ ear[Up(c)] \in {"open", "fin", "rst", "broken"}
         /\ ear[Down(c)] \in {"open", "fin", "rst", "broken"}
         /\ mem[c].total_read \in Nat /\ mem[Server].total_read \in Nat
         /\ mem[c].length \in 0 .. RequestLen /\ mem[Server].length \in 0 .. RequestLen
         /\ mem[c].send_buffer \in Seq(Byte) /\ mem[Server].send_buffer \in Seq(Byte)
         /\ mem[c].recv_buffer \in [1 .. RequestLen -> Byte]
         /\ mem[Server].recv_buffer \in [1 .. RequestLen -> Byte]
         /\ calc[c].lhs \in Nat /\ calc[c].rhs \in Nat /\ calc[c].cut \in BOOLEAN
<1>1. /\ mem \in [Ends -> Memory] /\ calc \in [Clients -> Sum] /\ wire \in [Streams -> Seq(Byte)]
      /\ ear \in [Streams -> {"open", "fin", "rst", "broken"}]
      /\ pc \in [Ends -> {"start", "accept", "prompt", "send", "recv", "dead"}]
  BY DEF TypeOK, Memory, Sum
<1>2. /\ mem[c] \in Memory /\ mem[Server] \in Memory /\ calc[c] \in Sum
      /\ wire[Up(c)] \in Seq(Byte) /\ wire[Down(c)] \in Seq(Byte)
      /\ ear[Up(c)] \in {"open", "fin", "rst", "broken"}
      /\ ear[Down(c)] \in {"open", "fin", "rst", "broken"}
      /\ pc[c] \in {"start", "accept", "prompt", "send", "recv", "dead"}
  BY <1>1, Names, StreamNames
<1>3. Len(wire[Up(c)]) \in Nat /\ Len(wire[Down(c)]) \in Nat
  BY <1>2, LenProperties
<1> QED
  BY <1>2, <1>3 DEF Memory, Sum

LEMMA Parts ==
  Inv <=> /\ pc \in [Ends -> {"start", "accept", "prompt", "send", "recv", "dead"}]
          /\ cur \in Clients \cup {None}
          /\ accepting \in {"first", "works", "drops", "fails"}
          /\ mem \in [Ends -> Memory]
          /\ calc \in [Clients -> Sum]
          /\ backlog \subseteq Clients
          /\ wire \in [Streams -> Seq(Byte)]
          /\ ear \in [Streams -> {"open", "fin", "rst", "broken"}]
          /\ ServerInvariant
          /\ \A c \in Clients : ClientInvariant(c)
BY DEF Inv, TypeOK, CalcInvariant, Memory, Sum

LEMMA PartsNext ==
  Inv' <=> /\ pc' \in [Ends -> {"start", "accept", "prompt", "send", "recv", "dead"}]
           /\ cur' \in Clients \cup {None}
           /\ accepting' \in {"first", "works", "drops", "fails"}
           /\ mem' \in [Ends -> Memory]
           /\ calc' \in [Clients -> Sum]
           /\ backlog' \subseteq Clients
           /\ wire' \in [Streams -> Seq(Byte)]
           /\ ear' \in [Streams -> {"open", "fin", "rst", "broken"}]
           /\ ServerInvariant'
           /\ \A c \in Clients : ClientInvariant(c)'
BY DEF Inv, TypeOK, CalcInvariant, Memory, Sum

LEMMA AskedIs ==
  ASSUME NEW c \in Clients
  PROVE  /\ Asked(c) = Len(wire[Up(c)]) + (IF Read(c) THEN mem[Server].total_read ELSE 0)
         /\ Answered(c) = Len(wire[Down(c)]) + (IF Replied(c) THEN mem[Server].length ELSE 0)
                          + (IF pc[c] = "recv" THEN mem[c].total_read ELSE 0)
BY DEF Asked, Answered, Read, Replied, Up, Down

LEMMA AskedIsNext ==
  ASSUME NEW c \in Clients
  PROVE  /\ Asked(c)' = Len(wire'[Up(c)]) + (IF Read(c)' THEN mem'[Server].total_read ELSE 0)
         /\ Answered(c)' = Len(wire'[Down(c)]) + (IF Replied(c)' THEN mem'[Server].length ELSE 0)
                           + (IF pc'[c] = "recv" THEN mem'[c].total_read ELSE 0)
BY DEF Asked, Answered, Read, Replied, Up, Down

LEMMA ConnectInv ==
  ASSUME Inv, NEW c \in Clients, Connect(c)
  PROVE  Inv'
<1>0. ClientInvariant(c) /\ ServerInvariant /\ TypeOK
  BY DEF Inv, CalcInvariant
<1>1. /\ pc[c] = "start" /\ cur # c /\ c \notin backlog /\ wire[Up(c)] = <<>> /\ wire[Down(c)] = <<>>
      /\ ear[Up(c)] = "open" /\ ear[Down(c)] = "open"
  BY <1>0 DEF Connect, ClientInvariant, KnownEnds, Held
<1>2. /\ \/ /\ pc'[c] = "prompt" /\ backlog' = backlog \cup {c}
            /\ pc[Server] \notin {"start", "dead"}
         \/ pc'[c] = "dead" /\ backlog' = backlog
      /\ \A e \in Ends : e # c => pc'[e] = pc[e]
      /\ pc' \in [Ends -> {"start", "accept", "prompt", "send", "recv", "dead"}]
      /\ cur' = cur /\ accepting' = accepting /\ mem' = mem /\ calc' = calc /\ wire' = wire /\ ear' = ear
  BY <1>0, Names DEF Connect, TypeOK
<1>3. ServerInvariant'
  BY <1>0, <1>1, <1>2, Names DEF ServerInvariant
<1>4. ASSUME NEW d \in Clients, d # c PROVE ClientInvariant(d)'
  <2>1. Untouched(d)
    BY <1>2, <1>4, Names DEF Untouched
  <2> QED
    BY <2>1, Frame DEF Inv, CalcInvariant
<1>5. ClientInvariant(c)'
  <2>1. pc'[c] \in {"prompt", "dead"} /\ cur' # c /\ (pc'[c] = "dead" => c \notin backlog')
    BY <1>1, <1>2
  <2>2. Live(c)' => InStepWith(c)'
    BY <1>1, <1>2, <2>1, EmptySeq DEF Live, InStepWith, Asked, Answered, Up, Down
  <2>3. KnownEnds(c)'
    BY <1>1, <1>2, <2>1 DEF KnownEnds, Held
  <2>4. BufferBounds(c)'
    BY <1>1, <1>2, <2>1, EmptySeq, Sizes DEF BufferBounds, Held, Replied, Asked, Up
  <2>5. ReplyIsWhole(c)' /\ NothingIsMixed(c)' /\ SumIsRight(c)'
    BY <1>0, <1>1, <1>2, <2>1
       DEF ClientInvariant, ReplyIsWhole, NothingIsMixed, SumIsRight, Read, Replied
  <2> QED
    BY <2>2, <2>3, <2>4, <2>5 DEF ClientInvariant
<1> QED
  BY <1>2, <1>3, <1>4, <1>5, Parts, PartsNext

LEMMA HeldIsLive ==
  ASSUME Inv, NEW c \in Clients, Held(c), pc[c] # "dead"
  PROVE  Live(c)
<1>1. ear[Down(c)] = "open" /\ pc[c] # "start"
  BY DEF Inv, CalcInvariant, ClientInvariant, KnownEnds
<1>2. pc[Server] # "dead"
  BY Names DEF Inv, CalcInvariant, ServerInvariant, Held
<1> QED
  BY <1>1, <1>2 DEF Live, Down

\* Where a client that the server holds stands in its calculation.
LEMMA Standing ==
  ASSUME Inv, NEW c \in Clients, Held(c), pc[c] # "dead"
  PROVE  /\ ear[Up(c)] = "open" /\ ear[Down(c)] = "open"
         /\ pc[c] \in {"prompt", "send", "recv"}
         /\ pc[c] \in {"prompt", "send"} => wire[Down(c)] = <<>> /\ ~Replied(c)
         /\ pc[c] = "prompt" => wire[Up(c)] = <<>> /\ (Read(c) => mem[Server].total_read = 0)
         /\ pc[c] = "send" => Asked(c) = RequestLen - mem[c].length
         /\ pc[c] = "recv" => \/ Asked(c) = RequestLen /\ Answered(c) = 0
                              \/ Asked(c) = 0 /\ Answered(c) = WideWidth
<1>1. InStepWith(c) /\ KnownEnds(c) /\ BufferBounds(c)
  BY HeldIsLive DEF Inv, CalcInvariant, ClientInvariant
<1>2. TypeOK
  BY DEF Inv
<1>3. pc[c] \in {"prompt", "send"} => wire[Down(c)] = <<>> /\ Answered(c) = 0
  BY <1>1, EmptySeq DEF InStepWith, KnownEnds
<1>4. pc[c] \in {"prompt", "send"} => ~Replied(c)
  BY <1>1, <1>2, <1>3, Types, EmptySeq DEF Answered, Replied, BufferBounds, Down
<1>5. pc[c] = "prompt" => wire[Up(c)] = <<>> /\ (Read(c) => mem[Server].total_read = 0)
  <2>1. pc[c] = "prompt" => Asked(c) = 0
    BY <1>1 DEF InStepWith
  <2>2. pc[c] = "prompt" => Len(wire[Up(c)]) = 0 /\ (Read(c) => mem[Server].total_read = 0)
    BY <2>1, <1>2, Types DEF Asked, Read, Up
  <2> QED
    BY <2>2, <1>2, Types, EmptySeq
<1> QED
  BY <1>1, <1>3, <1>4, <1>5 DEF InStepWith, KnownEnds

LEMMA PromptInv ==
  ASSUME Inv, NEW c \in Clients, Prompt(c)
  PROVE  Inv'
<1>0. ClientInvariant(c) /\ ServerInvariant /\ TypeOK
  BY DEF Inv, CalcInvariant
<1>1. PICK in \in Inputs :
        /\ calc' = [calc EXCEPT ![c] = [NoSum EXCEPT !.lhs = in[1], !.rhs = in[2]]]
        /\ mem' = [mem EXCEPT ![c].send_buffer = Encode(in[1], Width) \o <<Plus>> \o Encode(in[2], Width),
                              ![c].length = RequestLen]
  BY DEF Prompt
<1>2. in[1] \in Nat /\ in[2] \in Nat /\ Shifted(in[1], Width) = 0 /\ Shifted(in[2], Width) = 0
  BY CalcAssumption
<1> DEFINE r == Encode(in[1], Width) \o <<Plus>> \o Encode(in[2], Width)
<1>3. r \in Seq(Byte) /\ Len(r) = RequestLen
  BY <1>2, RequestIsRead
<1>4. Request(c)' = r /\ calc'[c].lhs = in[1] /\ calc'[c].rhs = in[2] /\ calc'[c].shown = None
      /\ calc'[c].cut = FALSE /\ calc'[c] \in Sum /\ (\A d \in Clients : d # c => calc'[d] = calc[d])
  <2>1. calc'[c] = [NoSum EXCEPT !.lhs = in[1], !.rhs = in[2]]
    BY <1>0, <1>1 DEF TypeOK
  <2>2. calc'[c].lhs = in[1] /\ calc'[c].rhs = in[2] /\ calc'[c].shown = None /\ calc'[c].cut = FALSE
    BY <2>1 DEF NoSum
  <2>3. calc'[c] \in Sum
    BY <2>1, <1>2, NoSumType DEF Sum
  <2> QED
    BY <2>2, <2>3, <1>0, <1>1 DEF Request, TypeOK
<1>5. mem'[c].send_buffer = r /\ mem'[c].length = RequestLen
      /\ (\A e \in Ends : e # c => mem'[e] = mem[e])
      /\ mem' \in [Ends -> Memory]
  <2> HIDE DEF r
  <2>0. mem \in [Ends -> Memory]
    BY Parts
  <2>1. mem'[c] = [mem[c] EXCEPT !.send_buffer = r, !.length = RequestLen]
        /\ \A e \in Ends : e # c => mem'[e] = mem[e]
    BY <1>1, <2>0, Names DEF r, Memory
  <2>2. mem'[c] \in Memory /\ mem'[c].send_buffer = r /\ mem'[c].length = RequestLen
    <3>1. mem[c] \in Memory /\ r \in Seq(Byte) /\ RequestLen \in 0 .. RequestLen
      BY <2>0, <1>3, Sizes, Names
    <3> QED
      BY <2>1, <3>1 DEF Memory
  <2> QED
    BY <1>1, <2>0, <2>1, <2>2, Names
<1> HIDE DEF r
<1>6. /\ pc[c] = "prompt" /\ pc'[c] = "send"
      /\ \A e \in Ends : e # c => pc'[e] = pc[e]
      /\ pc' \in [Ends -> {"start", "accept", "prompt", "send", "recv", "dead"}]
      /\ cur' = cur /\ accepting' = accepting /\ backlog' = backlog /\ wire' = wire /\ ear' = ear
  BY <1>0, Names DEF Prompt, TypeOK
<1>7. ServerInvariant'
  BY <1>0, <1>6, Names DEF ServerInvariant
<1>8. ASSUME NEW d \in Clients, d # c PROVE ClientInvariant(d)'
  <2>1. Untouched(d)
    BY <1>4, <1>5, <1>6, <1>8, Names DEF Untouched
  <2> QED
    BY <2>1, Frame DEF Inv, CalcInvariant
<1>9. ClientInvariant(c)'
  <2>0. pc'[Server] = pc[Server] /\ mem'[Server] = mem[Server]
    BY <1>5, <1>6, Names
  <2>1. /\ Held(c)' <=> Held(c)
        /\ Read(c)' <=> Read(c)
        /\ Replied(c)' <=> Replied(c)
        /\ Live(c)' => Live(c)
    BY <1>6, <2>0 DEF Held, Read, Replied, Live
  <2>2. Asked(c)' = Asked(c) /\ Answered(c)' = Answered(c)
    BY <1>6, <2>0 DEF Asked, Answered
  <2>3. /\ wire[Down(c)] = <<>> /\ ear[Up(c)] = "open"
        /\ Live(c) => Asked(c) = 0 /\ Answered(c) = 0
    BY <1>0, <1>6 DEF ClientInvariant, KnownEnds, InStepWith
  <2>4. Held(c) => /\ Live(c) /\ wire[Up(c)] = <<>> /\ ~Replied(c)
                   /\ Read(c) => mem[Server].total_read = 0
    BY <1>6, HeldIsLive, Standing
  <2>5. KnownEnds(c)'
    BY <1>0, <1>6, <2>1, <2>3 DEF ClientInvariant, KnownEnds
  <2>6. BufferBounds(c)'
    BY <1>3, <1>5, <1>6, <2>1, <2>2, <2>3, <2>4, Sizes DEF BufferBounds, Held, Replied
  <2>7. Live(c)' => InStepWith(c)'
    BY <1>5, <1>6, <2>1, <2>2, <2>3, Sizes DEF InStepWith
  <2>8. ReplyIsWhole(c)'
    BY <1>6, <2>1, <2>3, <2>4 DEF ReplyIsWhole, Held, Replied
  <2>9. NothingIsMixed(c)'
    BY <1>4, <1>5, <1>6, <2>0, <2>1, <2>4 DEF NothingIsMixed
  <2>10. SumIsRight(c)'
    BY <1>2, <1>4 DEF SumIsRight
  <2> QED
    BY <2>5, <2>6, <2>7, <2>8, <2>9, <2>10 DEF ClientInvariant
<1>10. calc' \in [Clients -> Sum]
  BY <1>1, <1>4, Parts
<1> QED
  BY <1>5, <1>6, <1>7, <1>8, <1>9, <1>10, Parts, PartsNext

LEMMA ListenInv ==
  ASSUME Inv, Listen
  PROVE  Inv'
<1>0. ServerInvariant /\ TypeOK
  BY DEF Inv, CalcInvariant
<1>1. /\ pc[Server] = "start" /\ pc'[Server] \in {"accept", "dead"}
      /\ \A e \in Ends : e # Server => pc'[e] = pc[e]
      /\ pc' \in [Ends -> {"start", "accept", "prompt", "send", "recv", "dead"}]
      /\ UNCHANGED <<cur, accepting, mem, calc, backlog, wire, ear>>
  BY <1>0, Names DEF Listen, TypeOK
<1>2. cur = None /\ backlog = {}
  BY <1>0, <1>1 DEF ServerInvariant
<1>3. ServerInvariant'
  BY <1>1, <1>2 DEF ServerInvariant
<1>4. ASSUME NEW d \in Clients PROVE ClientInvariant(d)'
  <2>1. Untouched(d)
    BY <1>1, <1>2, Names DEF Untouched
  <2> QED
    BY <2>1, Frame DEF Inv, CalcInvariant
<1> QED
  BY <1>1, <1>3, <1>4, Parts, PartsNext

LEMMA SeeResetInv ==
  ASSUME Inv, NEW c \in Clients, SeeReset(c)
  PROVE  Inv'
<1>0. ClientInvariant(c) /\ ServerInvariant /\ TypeOK
  BY DEF Inv, CalcInvariant
<1>1. /\ ear[Down(c)] = "rst" /\ pc[c] \in {"send", "recv"}
      /\ pc[c] = "recv" => wire[Down(c)] = <<>>
      /\ pc'[c] = "prompt" /\ mem'[c] = Cleared /\ ear'[Down(c)] = "broken" /\ ear'[Up(c)] = ear[Up(c)]
      /\ \A e \in Ends : e # c => pc'[e] = pc[e] /\ mem'[e] = mem[e]
      /\ \A d \in Clients : d # c => ear'[Up(d)] = ear[Up(d)] /\ ear'[Down(d)] = ear[Down(d)]
      /\ UNCHANGED <<cur, accepting, calc, backlog, wire>>
  <2>1. /\ ear[Down(c)] = "rst" /\ ear' = [ear EXCEPT ![Down(c)] = "broken"]
        /\ pc[c] = "send" \/ (pc[c] = "recv" /\ wire[Down(c)] = <<>>)
    BY StreamNames DEF SeeReset
  <2>2. /\ ear'[Down(c)] = "broken" /\ ear'[Up(c)] = ear[Up(c)]
        /\ \A d \in Clients : d # c => ear'[Up(d)] = ear[Up(d)] /\ ear'[Down(d)] = ear[Down(d)]
    BY <1>0, <2>1, StreamNames DEF TypeOK
  <2> QED
    BY <1>0, <2>1, <2>2, Names DEF SeeReset, TypeOK
<1>2. /\ pc' \in [Ends -> {"start", "accept", "prompt", "send", "recv", "dead"}]
      /\ mem' \in [Ends -> Memory]
      /\ ear' \in [Streams -> {"open", "fin", "rst", "broken"}]
  BY Parts, ClearedType DEF SeeReset
<1>3. ServerInvariant'
  BY <1>0, <1>1, Names DEF ServerInvariant
<1>4. ASSUME NEW d \in Clients, d # c PROVE ClientInvariant(d)'
  <2>1. Untouched(d)
    BY <1>1, <1>4, Names DEF Untouched
  <2> QED
    BY <2>1, Frame DEF Inv, CalcInvariant
<1>5. ClientInvariant(c)'
  <2>1. cur # c /\ c \notin backlog /\ wire[Down(c)] = <<>> /\ ear[Up(c)] = "open"
    BY <1>0, <1>1 DEF ClientInvariant, KnownEnds, Held
  <2>2. ~Held(c)' /\ ~Read(c)' /\ ~Replied(c)' /\ ~Live(c)'
    BY <1>1, <2>1 DEF Held, Read, Replied, Live, Down
  <2>3. KnownEnds(c)' /\ BufferBounds(c)' /\ ReplyIsWhole(c)' /\ NothingIsMixed(c)' /\ SumIsRight(c)'
    BY <1>0, <1>1, <2>1, <2>2
       DEF ClientInvariant, KnownEnds, BufferBounds, ReplyIsWhole, NothingIsMixed, SumIsRight
  <2> QED
    BY <2>2, <2>3 DEF ClientInvariant
<1> QED
  BY <1>1, <1>2, <1>3, <1>4, <1>5, Parts, PartsNext

LEMMA Pieces ==
  ASSUME NEW buf \in Seq(Byte), NEW n \in 1 .. Len(buf)
  PROVE  /\ Advance(buf, n) \in Seq(Byte) /\ Len(Advance(buf, n)) = Len(buf)
         /\ SubSeq(buf, 1, n) \in Seq(Byte) /\ Len(SubSeq(buf, 1, n)) = n
         /\ n = Len(buf) => SubSeq(buf, 1, n) = buf
<1>0. Len(buf) \in Nat /\ 1 \in 1 .. Len(buf) /\ n \in Nat
  BY LenProperties
<1>1. buf[1] \in Nat
  BY <1>0, ElementOfSeq, Positive DEF Byte
<1>2. (buf[1] + n) % Base \in Byte
  <2>1. buf[1] + n \in Nat
    BY <1>0, <1>1
  <2> QED
    BY <2>1, Division
<1>3. /\ [buf EXCEPT ![1] = (buf[1] + n) % Base] \in Seq(Byte)
      /\ Len([buf EXCEPT ![1] = (buf[1] + n) % Base]) = Len(buf)
  BY <1>0, <1>2, ExceptSeq
<1>4. \A i \in 1 .. n : buf[i] \in Byte
  BY <1>0, ElementOfSeq
<1>5. SubSeq(buf, 1, n) \in Seq(Byte) /\ Len(SubSeq(buf, 1, n)) = n
  BY <1>0, <1>4
<1> QED
  BY <1>3, <1>5, SubSeqFull DEF Advance

LEMMA Appended ==
  ASSUME NEW s \in Seq(Byte), NEW t \in Seq(Byte)
  PROVE  s \o t \in Seq(Byte) /\ Len(s \o t) = Len(s) + Len(t) /\ (s = <<>> => s \o t = t)
BY ConcatProperties, ConcatEmptySeq, ZenonT(40)

LEMMA EmptyIff == ASSUME NEW s \in Seq(Byte) PROVE Len(s) \in Nat /\ (s = <<>> <=> Len(s) = 0)
BY EmptySeq, LenProperties

\* Program e sends n bytes, in a calculation of client c, to the stream out.
Piece(e, c, out, in, n) ==
  /\ calc'[c] = [calc[c] EXCEPT !.cut = @ \/ n < mem[e].length]
  /\ \/ /\ n < mem[e].length /\ pc'[e] = "send"
        /\ mem'[e] = [mem[e] EXCEPT !.send_buffer = Advance(@, n), !.length = @ - n]
     \/ /\ n = mem[e].length /\ pc'[e] = "recv"
        /\ mem'[e] = [mem[e] EXCEPT !.send_buffer = <<>>, !.length = 0, !.total_read = 0]
  /\ \/ /\ ear[in] = "open" /\ ear'[in] = "open"
        /\ wire'[out] = wire[out] \o SubSeq(mem[e].send_buffer, 1, n)
     \/ /\ ear[in] = "fin" /\ ear'[in] \in {"fin", "broken"}
        /\ wire'[out] = wire[out]

\* Nothing else changes.
Only(e, c, out, in) ==
  /\ \A f \in Ends : f # e => pc'[f] = pc[f] /\ mem'[f] = mem[f]
  /\ \A d \in Clients : d # c => calc'[d] = calc[d]
  /\ \A s \in Streams : (s # out => wire'[s] = wire[s]) /\ (s # in => ear'[s] = ear[s])
  /\ pc' = [pc EXCEPT ![e] = pc'[e]] /\ mem' = [mem EXCEPT ![e] = mem'[e]]
  /\ calc' = [calc EXCEPT ![c] = calc'[c]] /\ wire' = [wire EXCEPT ![out] = wire'[out]]
  /\ ear' = [ear EXCEPT ![in] = ear'[in]]
  /\ UNCHANGED <<cur, accepting, backlog>>

LEMMA Sends ==
  ASSUME Inv, NEW e \in Ends, NEW c \in Clients, NEW out \in Streams, NEW in \in Streams,
         c = Who(e), out = Out(e), in = In(e), SendPiece(e)
  PROVE  /\ pc[e] = "send"
         /\ \E n \in 1 .. mem[e].length : Piece(e, c, out, in, n)
         /\ Only(e, c, out, in)
<1>0. /\ mem \in [Ends -> Memory] /\ calc \in [Clients -> Sum] /\ wire \in [Streams -> Seq(Byte)]
      /\ ear \in [Streams -> {"open", "fin", "rst", "broken"}]
      /\ pc \in [Ends -> {"start", "accept", "prompt", "send", "recv", "dead"}]
      /\ mem[e].length \in Nat
  <2>1. mem[e] \in Memory
    BY Parts
  <2> QED
    BY <2>1, Parts, Sizes DEF Memory
<1>1. PICK n \in 1 .. mem[e].length :
       /\ Short(c, n < mem[e].length)
       /\ IF n < mem[e].length
            THEN /\ mem' = [mem EXCEPT ![e].send_buffer = Advance(@, n), ![e].length = @ - n]
                 /\ UNCHANGED pc
            ELSE /\ mem' = [mem EXCEPT ![e].send_buffer = <<>>, ![e].length = 0, ![e].total_read = 0]
                 /\ pc' = [pc EXCEPT ![e] = "recv"]
       /\ IF ear[in] = "open"
            THEN /\ wire' = [wire EXCEPT ![out] = @ \o SubSeq(mem[e].send_buffer, 1, n)]
                 /\ UNCHANGED ear
            ELSE /\ ear' \in {ear, [ear EXCEPT ![in] = "broken"]}
                 /\ UNCHANGED wire
  BY DEF SendPiece
<1>2. pc[e] = "send" /\ ear[in] \in {"open", "fin"} /\ UNCHANGED <<cur, accepting, backlog>>
  BY DEF SendPiece
<1>3. /\ calc'[c] = [calc[c] EXCEPT !.cut = @ \/ n < mem[e].length]
      /\ \A d \in Clients : d # c => calc'[d] = calc[d]
      /\ calc' = [calc EXCEPT ![c] = calc'[c]]
  BY <1>0, <1>1 DEF Short
<1>4. /\ \/ /\ n < mem[e].length /\ pc'[e] = "send"
            /\ mem'[e] = [mem[e] EXCEPT !.send_buffer = Advance(@, n), !.length = @ - n]
         \/ /\ n = mem[e].length /\ pc'[e] = "recv"
            /\ mem'[e] = [mem[e] EXCEPT !.send_buffer = <<>>, !.length = 0, !.total_read = 0]
      /\ \A f \in Ends : f # e => pc'[f] = pc[f] /\ mem'[f] = mem[f]
      /\ pc' = [pc EXCEPT ![e] = pc'[e]] /\ mem' = [mem EXCEPT ![e] = mem'[e]]
  <2>1. CASE n < mem[e].length
    BY <1>0, <1>1, <1>2, <2>1
  <2>2. CASE ~(n < mem[e].length)
    <3>1. n = mem[e].length
      BY <1>0, <2>2
    <3> QED
      BY <1>0, <1>1, <1>2, <2>2, <3>1
  <2> QED
    BY <2>1, <2>2
<1>5. /\ \/ /\ ear[in] = "open" /\ ear'[in] = "open"
            /\ wire'[out] = wire[out] \o SubSeq(mem[e].send_buffer, 1, n)
         \/ /\ ear[in] = "fin" /\ ear'[in] \in {"fin", "broken"}
            /\ wire'[out] = wire[out]
      /\ \A s \in Streams : (s # out => wire'[s] = wire[s]) /\ (s # in => ear'[s] = ear[s])
      /\ wire' = [wire EXCEPT ![out] = wire'[out]]
      /\ ear' = [ear EXCEPT ![in] = ear'[in]]
  BY <1>0, <1>1, <1>2
<1> QED
  BY <1>1, <1>2, <1>3, <1>4, <1>5 DEF Piece, Only

LEMMA OthersKept ==
  ASSUME Inv, NEW e \in Ends, NEW c \in Clients, e = c \/ (e = Server /\ cur = c /\ pc[Server] # "dead"),
         NEW out \in {Up(c), Down(c)}, NEW in \in {Up(c), Down(c)}, Only(e, c, out, in)
  PROVE  \A d \in Clients : d # c => ClientInvariant(d)'
<1> SUFFICES ASSUME NEW d \in Clients, d # c PROVE ClientInvariant(d)'
  OBVIOUS
<1>1. /\ wire'[Up(d)] = wire[Up(d)] /\ wire'[Down(d)] = wire[Down(d)]
      /\ ear'[Up(d)] = ear[Up(d)] /\ ear'[Down(d)] = ear[Down(d)]
  BY StreamNames DEF Only
<1>2. Untouched(d)
  BY <1>1, Names DEF Untouched, Only
<1> QED
  BY <1>2, Frame DEF Inv, CalcInvariant

LEMMA OnlyTypes ==
  ASSUME Inv, NEW e \in Ends, NEW c \in Clients, NEW out \in Streams, NEW in \in Streams, Only(e, c, out, in),
         pc'[e] \in {"start", "accept", "prompt", "send", "recv", "dead"}, mem'[e] \in Memory,
         calc'[c] \in Sum, wire'[out] \in Seq(Byte), ear'[in] \in {"open", "fin", "rst", "broken"},
         ServerInvariant', \A d \in Clients : ClientInvariant(d)'
  PROVE  Inv'
<1>1. /\ pc' \in [Ends -> {"start", "accept", "prompt", "send", "recv", "dead"}]
      /\ mem' \in [Ends -> Memory] /\ calc' \in [Clients -> Sum] /\ wire' \in [Streams -> Seq(Byte)]
      /\ ear' \in [Streams -> {"open", "fin", "rst", "broken"}]
  BY Parts DEF Only
<1> QED
  BY <1>1, Parts, PartsNext DEF Only

LEMMA ClientSendInv ==
  ASSUME Inv, NEW c \in Clients, SendPiece(c)
  PROVE  Inv'
<1>0. ClientInvariant(c) /\ ServerInvariant /\ TypeOK
  BY DEF Inv, CalcInvariant
<1> DEFINE L == mem[c].length
           B == mem[c].send_buffer
<1>1. PICK n \in 1 .. L : Piece(c, c, Up(c), Down(c), n)
  BY Names, StreamNames, Sends, Zenon
<1>2. pc[c] = "send" /\ Only(c, c, Up(c), Down(c))
  BY Names, StreamNames, Sends, ZenonT(40)
<1>3. /\ wire'[Down(c)] = wire[Down(c)] /\ ear'[Up(c)] = ear[Up(c)]
      /\ pc'[Server] = pc[Server] /\ mem'[Server] = mem[Server]
      /\ UNCHANGED <<cur, accepting, backlog>>
  BY <1>2, Names, StreamNames DEF Only
<1>4. /\ L \in 1 .. RequestLen /\ Len(B) = RequestLen /\ B \in Seq(Byte) /\ n \in 1 .. Len(B)
      /\ wire[Down(c)] = <<>> /\ ear[Up(c)] = "open" /\ wire[Up(c)] \in Seq(Byte)
      /\ Len(wire[Up(c)]) \in Nat /\ Len(wire[Down(c)]) = 0
      /\ mem[c] \in Memory /\ calc[c] \in Sum /\ mem[Server].total_read \in Nat
  BY <1>0, <1>1, <1>2, Types, Sizes, EmptySeq DEF ClientInvariant, KnownEnds, BufferBounds
<1>5. /\ Advance(B, n) \in Seq(Byte) /\ Len(Advance(B, n)) = RequestLen
      /\ SubSeq(B, 1, n) \in Seq(Byte) /\ Len(SubSeq(B, 1, n)) = n
      /\ n = RequestLen => SubSeq(B, 1, n) = B
  BY <1>4, Pieces
<1>6. /\ wire'[Up(c)] \in Seq(Byte)
      /\ ear[Down(c)] = "open" => Len(wire'[Up(c)]) = Len(wire[Up(c)]) + n
      /\ ear[Down(c)] = "open" /\ wire[Up(c)] = <<>> /\ n = RequestLen => wire'[Up(c)] = B
  <2> DEFINE w == wire[Up(c)]
             p == SubSeq(B, 1, n)
  <2>1. w \o p \in Seq(Byte) /\ Len(w \o p) = Len(w) + Len(p) /\ (w = <<>> => w \o p = p)
    BY <1>4, <1>5, Appended, Zenon
  <2>2. /\ wire'[Up(c)] = w \o p \/ wire'[Up(c)] = w
        /\ ear[Down(c)] = "open" => wire'[Up(c)] = w \o p
    BY <1>1 DEF Piece
  <2> HIDE DEF w, p
  <2>3. w \in Seq(Byte) /\ Len(p) = n /\ (n = RequestLen => p = B)
    BY <1>4, <1>5 DEF w, p
  <2>4. wire'[Up(c)] \in Seq(Byte)
    BY <2>1, <2>2, <2>3, Zenon
  <2>5. ear[Down(c)] = "open" => Len(wire'[Up(c)]) = Len(w) + n /\ (w = <<>> /\ n = RequestLen => wire'[Up(c)] = B)
    BY <2>1, <2>2, <2>3, Zenon
  <2> QED
    BY <2>4, <2>5 DEF w
<1>7. /\ calc'[c] \in Sum
      /\ calc'[c].lhs = calc[c].lhs /\ calc'[c].rhs = calc[c].rhs /\ calc'[c].shown = calc[c].shown
      /\ ~calc'[c].cut => ~calc[c].cut /\ n = L
  <2>1. (n < L) \in BOOLEAN /\ (~(n < L) => n = L)
    BY <1>1, <1>4
  <2> QED
    BY <1>1, <1>4, <2>1 DEF Sum, Piece
<1>8. /\ mem'[c] \in Memory
      /\ pc'[c] = "send" => n < L /\ mem'[c].length = L - n /\ Len(mem'[c].send_buffer) = RequestLen
      /\ pc'[c] = "recv" => n = L /\ mem'[c].total_read = 0
      /\ pc'[c] \in {"send", "recv"}
  <2>1. CASE n < L
    <3>1. /\ mem'[c] = [mem[c] EXCEPT !.send_buffer = Advance(B, n), !.length = L - n]
          /\ pc'[c] = "send"
      BY <1>1, <1>4, <2>1 DEF Piece
    <3>2. L - n \in 0 .. RequestLen
      BY <1>1, <1>4, <2>1, Sizes
    <3> QED
      BY <1>4, <1>5, <2>1, <3>1, <3>2 DEF Memory
  <2>2. CASE n = L
    <3>1. /\ mem'[c] = [mem[c] EXCEPT !.send_buffer = <<>>, !.length = 0, !.total_read = 0]
          /\ pc'[c] = "recv"
      BY <1>1, <1>4, <2>2 DEF Piece
    <3>2. mem'[c] \in Memory /\ mem'[c].total_read = 0
      BY <1>4, <3>1, SentType
    <3> QED
      BY <2>2, <3>1, <3>2
  <2> QED
    BY <1>1, <2>1, <2>2 DEF Piece
<1>9. ServerInvariant'
  BY <1>0, <1>3 DEF ServerInvariant
<1>10. \A d \in Clients : d # c => ClientInvariant(d)'
  BY <1>2, Names, OthersKept
<1>11. ClientInvariant(c)'
  <2>1. /\ Held(c)' <=> Held(c)
        /\ Read(c)' <=> Read(c)
        /\ Replied(c)' <=> Replied(c)
        /\ Live(c)' => Live(c) /\ ear[Down(c)] = "open"
        /\ Held(c) => Live(c) /\ ear[Down(c)] = "open" /\ ear'[Down(c)] = "open"
        /\ ~Replied(c)
    <3>1. Held(c) => Live(c) /\ ear[Down(c)] = "open"
      BY <1>2, HeldIsLive, Standing
    <3>2. ~Replied(c)
      BY <1>2, Standing DEF Held, Replied
    <3> QED
      BY <1>1, <1>2, <1>3, <3>1, <3>2 DEF Piece, Held, Read, Replied, Live, Down
  <2>2. Live(c) => Asked(c) = RequestLen - L
    BY <1>0, <1>2 DEF ClientInvariant, InStepWith
  <2>3. Live(c) => Asked(c)' = RequestLen - L + n
    <3>1. ear[Down(c)] = "open" => Asked(c)' = Asked(c) + n
      BY <1>1, <1>4, <1>6, <1>3, <2>1, AskedIs, AskedIsNext
    <3> QED
      BY <1>1, <1>4, <2>2, <3>1, Sizes DEF Live, Down
  <2>4. Answered(c)' = 0
    BY <1>3, <1>4, <1>8, <2>1, AskedIsNext
  <2>5. KnownEnds(c)'
    BY <1>0, <1>3, <1>4, <1>8, <2>1 DEF ClientInvariant, KnownEnds
  <2>6. BufferBounds(c)'
    <3>1. pc'[c] = "recv" => Len(wire'[Down(c)]) + mem'[c].total_read <= WideWidth
      BY <1>3, <1>4, <1>8, Sizes
    <3>2. Held(c)' => Asked(c)' <= RequestLen
      BY <1>4, <2>1, <2>3, Sizes
    <3> QED
      BY <1>4, <1>8, <2>1, <3>1, <3>2 DEF BufferBounds
  <2>7. Live(c)' => InStepWith(c)'
    <3>1. CASE pc'[c] = "send"
      BY <1>4, <1>8, <2>1, <2>3, <2>4, <3>1, Sizes DEF InStepWith
    <3>2. CASE pc'[c] = "recv"
      BY <1>4, <1>8, <2>1, <2>3, <2>4, <3>2, Sizes DEF InStepWith
    <3> QED
      BY <1>8, <3>1, <3>2
  <2>8. ReplyIsWhole(c)'
    BY <1>3, <1>4, <2>1 DEF ReplyIsWhole
  <2>9. NothingIsMixed(c)'
    <3> SUFFICES ASSUME ~calc'[c].cut PROVE NothingIsMixed(c)'
      BY DEF NothingIsMixed
    <3>1. ~calc[c].cut /\ n = L /\ L = RequestLen /\ B = Request(c) /\ Request(c)' = Request(c)
      BY <1>0, <1>2, <1>7 DEF ClientInvariant, NothingIsMixed, Request
    <3>2. pc'[c] = "recv" /\ mem'[c].total_read = 0
      BY <1>8, <3>1, <1>4
    <3>3. Live(c) => wire[Up(c)] = <<>> /\ (Read(c) => mem[Server].total_read = 0)
      <4>1. Live(c) => Asked(c) = 0
        BY <2>2, <3>1, Sizes
      <4> QED
        BY <4>1, <1>4, EmptyIff, AskedIs
    <3>4. Held(c) => wire'[Up(c)] = Request(c)
      BY <1>6, <2>1, <3>1, <3>3
    <3> QED
      BY <1>3, <1>4, <2>1, <3>1, <3>2, <3>3, <3>4 DEF NothingIsMixed
  <2>10. SumIsRight(c)'
    BY <1>0, <1>7 DEF ClientInvariant, SumIsRight
  <2> QED
    BY <2>5, <2>6, <2>7, <2>8, <2>9, <2>10 DEF ClientInvariant
<1>12. ear'[Down(c)] \in {"open", "fin", "rst", "broken"}
  BY <1>1 DEF Piece
<1> QED
  BY <1>2, <1>6, <1>7, <1>8, <1>9, <1>10, <1>11, <1>12, Names, StreamNames, OnlyTypes

\* What a client that is being answered waits for.
LEMMA Answering ==
  ASSUME Inv, NEW c \in Clients, Replied(c)
  PROVE  /\ Held(c) /\ cur = c /\ c \notin backlog /\ pc[Server] = "send" /\ wire[Up(c)] = <<>>
         /\ pc[c] = "recv" \/ (pc[c] = "dead" /\ ear[Up(c)] # "open" /\ wire[Down(c)] = <<>>)
         /\ pc[c] = "recv" => Len(wire[Down(c)]) + mem[Server].length + mem[c].total_read = WideWidth
<1>0. ClientInvariant(c) /\ ServerInvariant /\ TypeOK
  BY DEF Inv, CalcInvariant
<1>1. Held(c) /\ cur = c /\ c \notin backlog /\ pc[Server] = "send" /\ wire[Up(c)] = <<>>
  BY <1>0 DEF Replied, Held, ClientInvariant, BufferBounds, ServerInvariant
<1>2. pc[c] = "recv" \/ (pc[c] = "dead" /\ ear[Up(c)] # "open" /\ wire[Down(c)] = <<>>)
  BY <1>0, <1>1, Standing DEF ClientInvariant, KnownEnds
<1>3. ASSUME pc[c] = "recv"
      PROVE  Len(wire[Down(c)]) + mem[Server].length + mem[c].total_read = WideWidth
  <2>1. Answered(c) = Len(wire[Down(c)]) + mem[Server].length + mem[c].total_read
    BY <1>3, AskedIs
  <2>2. mem[Server].length \in Nat /\ mem[Server].length > 0 /\ Len(wire[Down(c)]) \in Nat /\ mem[c].total_read \in Nat
    BY <1>0, Types, Sizes DEF ClientInvariant, BufferBounds
  <2>3. Answered(c) = 0 \/ Answered(c) = WideWidth
    BY <1>1, <1>3, Standing
  <2> QED
    BY <2>1, <2>2, <2>3
<1> QED
  BY <1>1, <1>2, <1>3

LEMMA ServerSendInv ==
  ASSUME Inv, SendPiece(Server)
  PROVE  Inv'
<1> DEFINE L == mem[Server].length
           B == mem[Server].send_buffer
<1>a. pc[Server] = "send" /\ ServerInvariant /\ TypeOK
  BY DEF SendPiece, Inv, CalcInvariant
<1>b. PICK c \in Clients : cur = c
  BY <1>a DEF ServerInvariant, TypeOK
<1>0. ClientInvariant(c) /\ Replied(c) /\ Held(c)
  BY <1>a, <1>b DEF Inv, CalcInvariant, Replied, Held
<1>1. PICK n \in 1 .. L : Piece(Server, c, Down(c), Up(c), n)
  BY <1>b, Names, StreamNames, ServerStreams, Sends, Zenon
<1>2. Only(Server, c, Down(c), Up(c))
  BY <1>b, Names, StreamNames, ServerStreams, Sends, Zenon
<1>3. /\ wire'[Up(c)] = wire[Up(c)] /\ ear'[Down(c)] = ear[Down(c)]
      /\ pc'[c] = pc[c] /\ mem'[c] = mem[c]
      /\ UNCHANGED <<cur, accepting, backlog>>
  BY <1>2, Names, StreamNames DEF Only
<1>4. /\ L \in 1 .. WideWidth /\ Len(B) = WideWidth /\ B \in Seq(Byte) /\ n \in 1 .. Len(B)
      /\ wire[Up(c)] = <<>> /\ wire[Down(c)] \in Seq(Byte) /\ Len(wire[Up(c)]) = 0
      /\ Len(wire[Down(c)]) \in Nat /\ mem[c].total_read \in Nat
      /\ mem[Server] \in Memory /\ calc[c] \in Sum
  BY <1>a, <1>0, <1>1, Types, Sizes, EmptySeq DEF ClientInvariant, BufferBounds
<1>5. /\ Advance(B, n) \in Seq(Byte) /\ Len(Advance(B, n)) = WideWidth
      /\ SubSeq(B, 1, n) \in Seq(Byte) /\ Len(SubSeq(B, 1, n)) = n
      /\ n = WideWidth => SubSeq(B, 1, n) = B
  BY <1>4, Pieces
<1>6. /\ wire'[Down(c)] \in Seq(Byte)
      /\ ear[Up(c)] = "open" => Len(wire'[Down(c)]) = Len(wire[Down(c)]) + n
      /\ ear[Up(c)] = "open" /\ wire[Down(c)] = <<>> /\ n = WideWidth => wire'[Down(c)] = B
      /\ ear[Up(c)] # "open" => wire'[Down(c)] = wire[Down(c)] /\ ear'[Up(c)] # "open"
      /\ ear[Up(c)] = "open" => ear'[Up(c)] = "open"
      /\ ear'[Up(c)] \in {"open", "fin", "rst", "broken"}
  <2> DEFINE w == wire[Down(c)]
             p == SubSeq(B, 1, n)
  <2>1. w \o p \in Seq(Byte) /\ Len(w \o p) = Len(w) + Len(p) /\ (w = <<>> => w \o p = p)
    BY <1>4, <1>5, Appended, Zenon
  <2>2. /\ wire'[Down(c)] = w \o p \/ wire'[Down(c)] = w
        /\ ear[Up(c)] = "open" => wire'[Down(c)] = w \o p /\ ear'[Up(c)] = "open"
        /\ ear[Up(c)] # "open" => wire'[Down(c)] = w /\ ear'[Up(c)] \in {"fin", "broken"}
    BY <1>1 DEF Piece
  <2> HIDE DEF w, p
  <2>3. w \in Seq(Byte) /\ Len(p) = n /\ (n = WideWidth => p = B)
    BY <1>4, <1>5 DEF w, p
  <2>4. wire'[Down(c)] \in Seq(Byte)
    BY <2>1, <2>2, <2>3, Zenon
  <2>5. ear[Up(c)] = "open" => Len(wire'[Down(c)]) = Len(w) + n /\ (w = <<>> /\ n = WideWidth => wire'[Down(c)] = B)
    BY <2>1, <2>2, <2>3, Zenon
  <2> QED
    BY <2>2, <2>4, <2>5 DEF w
<1>7. /\ calc'[c] \in Sum
      /\ calc'[c].lhs = calc[c].lhs /\ calc'[c].rhs = calc[c].rhs /\ calc'[c].shown = calc[c].shown
      /\ ~calc'[c].cut => ~calc[c].cut /\ n = L
  <2>1. (n < L) \in BOOLEAN /\ (~(n < L) => n = L)
    BY <1>1, <1>4, Sizes
  <2> QED
    BY <1>1, <1>4, <2>1 DEF Sum, Piece
<1>8. /\ mem'[Server] \in Memory
      /\ pc'[Server] = "send" => /\ n < L /\ mem'[Server].length = L - n
                                 /\ Len(mem'[Server].send_buffer) = WideWidth
      /\ pc'[Server] = "recv" => n = L /\ mem'[Server].total_read = 0
      /\ pc'[Server] \in {"send", "recv"}
  <2>1. CASE n < L
    <3>1. /\ mem'[Server] = [mem[Server] EXCEPT !.send_buffer = Advance(B, n), !.length = L - n]
          /\ pc'[Server] = "send"
      BY <1>1, <1>4, <2>1, Sizes DEF Piece
    <3>2. L - n \in 0 .. RequestLen
      BY <1>1, <1>4, <2>1, Sizes
    <3> QED
      BY <1>4, <1>5, <2>1, <3>1, <3>2 DEF Memory
  <2>2. CASE n = L
    <3>1. /\ mem'[Server] = [mem[Server] EXCEPT !.send_buffer = <<>>, !.length = 0, !.total_read = 0]
          /\ pc'[Server] = "recv"
      BY <1>1, <1>4, <2>2, Sizes DEF Piece
    <3>2. mem'[Server] \in Memory /\ mem'[Server].total_read = 0
      BY <1>4, <3>1, SentType
    <3> QED
      BY <2>2, <3>1, <3>2
  <2> QED
    BY <1>1, <2>1, <2>2 DEF Piece
<1>9. ServerInvariant'
  BY <1>a, <1>3, <1>8 DEF ServerInvariant
<1>10. \A d \in Clients : d # c => ClientInvariant(d)'
  BY <1>a, <1>b, <1>2, Names, OthersKept
<1>11. ClientInvariant(c)'
  <2>1. /\ Held(c)' /\ cur' = c /\ c \notin backlog'
        /\ Read(c)' <=> pc'[Server] = "recv"
        /\ Replied(c)' <=> pc'[Server] = "send"
        /\ Live(c)' => Live(c)
    BY <1>a, <1>b, <1>0, <1>3, <1>8, Answering DEF Held, Read, Replied, Live, Down
  <2>2. /\ pc[c] = "recv" \/ (pc[c] = "dead" /\ ear[Up(c)] # "open" /\ wire[Down(c)] = <<>>)
        /\ pc[c] = "recv" => Len(wire[Down(c)]) + L + mem[c].total_read = WideWidth
        /\ pc[c] = "recv" => ear[Up(c)] = "open"
    BY <1>0, Answering DEF ClientInvariant, KnownEnds
  <2>3. Asked(c)' = 0
    BY <1>3, <1>4, <1>8, <2>1, AskedIsNext
  <2>4. pc[c] = "recv" => /\ Answered(c)' = WideWidth
                          /\ Len(wire'[Down(c)]) + mem'[c].total_read <= WideWidth
    <3> SUFFICES ASSUME pc[c] = "recv"
                 PROVE  /\ Answered(c)' = WideWidth
                        /\ Len(wire'[Down(c)]) + mem'[c].total_read <= WideWidth
      OBVIOUS
    <3>1. /\ Len(wire'[Down(c)]) = Len(wire[Down(c)]) + n
          /\ Len(wire[Down(c)]) + L + mem[c].total_read = WideWidth
      BY <1>6, <2>2
    <3>2. Answered(c)' = Len(wire'[Down(c)]) + (IF pc'[Server] = "send" THEN mem'[Server].length ELSE 0)
                           + mem[c].total_read
      BY <1>3, <2>1, AskedIsNext
    <3>3. CASE pc'[Server] = "send"
      <4>1. Answered(c)' = Len(wire'[Down(c)]) + mem'[Server].length + mem[c].total_read
        BY <3>2, <3>3
      <4>2. mem'[Server].length = L - n /\ n \in Nat /\ L \in Nat /\ n < L
        BY <1>4, <1>8, <3>3, Sizes
      <4> HIDE DEF L
      <4> QED
        BY <1>3, <1>4, <3>1, <4>1, <4>2
    <3>4. CASE pc'[Server] = "recv"
      BY <1>1, <1>3, <1>4, <1>8, <3>1, <3>2, <3>4, Sizes
    <3> QED
      BY <1>8, <3>3, <3>4
  <2>5. KnownEnds(c)'
    BY <1>0, <1>3, <1>6, <2>1, <2>2 DEF ClientInvariant, KnownEnds
  <2>6. BufferBounds(c)'
    <3>1. pc'[Server] = "send" => mem'[Server].length \in 1 .. WideWidth
      BY <1>4, <1>8, Sizes
    <3> QED
      BY <1>3, <1>4, <1>8, <2>1, <2>2, <2>3, <2>4, <3>1, Sizes DEF BufferBounds
  <2>7. Live(c)' => InStepWith(c)'
    BY <1>3, <2>1, <2>2, <2>3, <2>4 DEF InStepWith, Live
  <2>8. ReplyIsWhole(c)'
    BY <1>3, <1>4, <1>7, <1>8, <2>1 DEF ReplyIsWhole
  <2>9. NothingIsMixed(c)'
    <3> SUFFICES ASSUME ~calc'[c].cut PROVE NothingIsMixed(c)'
      BY DEF NothingIsMixed
    <3>1. /\ ~calc[c].cut /\ n = WideWidth /\ wire[Down(c)] = <<>>
          /\ Request(c)' = Request(c) /\ Reply(c)' = Reply(c)
      BY <1>0, <1>7 DEF ClientInvariant, ReplyIsWhole, Request, Reply
    <3>2. pc'[Server] = "recv" /\ mem'[Server].total_read = 0
      BY <1>4, <1>7, <1>8
    <3>3. pc[c] = "recv" => mem[c].total_read = 0 /\ wire'[Down(c)] = Reply(c)
      BY <1>0, <1>6, <2>2, <3>1 DEF ClientInvariant, NothingIsMixed
    <3> QED
      BY <1>3, <1>4, <2>1, <2>2, <3>1, <3>2, <3>3 DEF NothingIsMixed
  <2>10. SumIsRight(c)'
    BY <1>0, <1>7 DEF ClientInvariant, SumIsRight
  <2> QED
    BY <2>5, <2>6, <2>7, <2>8, <2>9, <2>10 DEF ClientInvariant
<1> QED
  BY <1>2, <1>6, <1>7, <1>8, <1>9, <1>10, <1>11, Names, StreamNames, OnlyTypes

LEMMA Rest ==
  ASSUME NEW w \in Seq(Byte), NEW n \in 1 .. Len(w)
  PROVE  /\ SubSeq(w, n + 1, Len(w)) \in Seq(Byte)
         /\ Len(SubSeq(w, n + 1, Len(w))) = Len(w) - n
<1>0. Len(w) \in Nat /\ n \in Nat /\ n <= Len(w)
  BY LenProperties
<1>1. \A i \in n + 1 .. Len(w) : w[i] \in Byte
  BY <1>0, ElementOfSeq
<1>2. /\ SubSeq(w, n + 1, Len(w)) \in Seq(Byte)
      /\ Len(SubSeq(w, n + 1, Len(w))) = IF n + 1 <= Len(w) THEN Len(w) - (n + 1) + 1 ELSE 0
  BY <1>0, <1>1, SubSeqProperties
<1> QED
  BY <1>0, <1>2

\* What recv leaves in the memory of program e.
LEMMA Receives ==
  ASSUME NEW e, NEW n, NEW w \in Seq(Byte), mem[e] \in Memory, w = wire[In(e)], n \in 1 .. Len(w)
  PROVE  /\ Received(e, n) \in Memory
         /\ Received(e, n).total_read = mem[e].total_read + n
         /\ Received(e, n).length = mem[e].length
         /\ Received(e, n).send_buffer = mem[e].send_buffer
         /\ Received(e, n).recv_buffer = Overwrite(mem[e].recv_buffer, SubSeq(w, 1, n))
<1> DEFINE m == mem[e]
           b == Overwrite(m.recv_buffer, SubSeq(w, 1, n))
           k == m.total_read + n
<1>1. SubSeq(w, 1, n) \in Seq(Byte)
  BY Pieces
<1>2. b \in [1 .. RequestLen -> Byte]
  <2> DEFINE s == SubSeq(w, 1, n)
  <2>1. Len(s) \in Nat /\ \A i \in 1 .. Len(s) : s[i] \in Byte
    BY <1>1, LenProperties, ElementOfSeq
  <2>2. m.recv_buffer \in [1 .. RequestLen -> Byte]
    BY DEF Memory
  <2> HIDE DEF s, m
  <2> QED
    BY <2>1, <2>2, Sizes DEF Overwrite, s
<1>3. k \in Nat
  <2>1. m.total_read \in Nat /\ n \in Nat
    BY LenProperties DEF Memory
  <2> QED
    BY <2>1
<1>4. Received(e, n) = [m EXCEPT !.recv_buffer = b, !.total_read = k]
  BY DEF Received
<1> HIDE DEF b, k
<1>5. /\ [m EXCEPT !.recv_buffer = b, !.total_read = k] \in Memory
      /\ [m EXCEPT !.recv_buffer = b, !.total_read = k].total_read = k
      /\ [m EXCEPT !.recv_buffer = b, !.total_read = k].length = m.length
      /\ [m EXCEPT !.recv_buffer = b, !.total_read = k].send_buffer = m.send_buffer
      /\ [m EXCEPT !.recv_buffer = b, !.total_read = k].recv_buffer = b
  BY <1>2, <1>3 DEF Memory
<1> QED
  BY <1>4, <1>5 DEF b, k

\* The reply to an uncut calculation is decoded to the sum.
LEMMA ReplyIsRead ==
  ASSUME Inv, NEW c \in Clients, pc[c] = "recv", ~calc[c].cut, wire[Down(c)] # <<>>
  PROVE  /\ Len(wire[Down(c)]) = WideWidth
         /\ \A buf \in [1 .. RequestLen -> Byte] :
              Decode(SubSeq(Overwrite(buf, wire[Down(c)]), 1, WideWidth)) = calc[c].lhs + calc[c].rhs
<1>0. ClientInvariant(c) /\ TypeOK
  BY DEF Inv, CalcInvariant
<1> DEFINE t == calc[c].lhs + calc[c].rhs
           w == Encode(t, WideWidth)
<1>1. wire[Down(c)] = w
  BY <1>0 DEF ClientInvariant, NothingIsMixed, Reply
<1>2. calc[c].lhs \in Nat /\ calc[c].rhs \in Nat
  BY <1>0, Types
<1>3. t \in Nat /\ Shifted(t, WideWidth) = 0
  BY <1>0, <1>2, SumFits DEF ClientInvariant, SumIsRight
<1> HIDE DEF t
<1>4. w \in Seq(Byte) /\ Len(w) = WideWidth /\ Decode(w) = t
  BY <1>3, Positive, EncodeType, RoundTrip
<1> HIDE DEF w
<1>5. ASSUME NEW buf \in [1 .. RequestLen -> Byte]
      PROVE  SubSeq(Overwrite(buf, w), 1, WideWidth) = w
  <2>1. Len(w) <= RequestLen
    BY <1>4, Sizes
  <2>2. SubSeq(Overwrite(buf, w), 1, Len(w)) = w
    BY <1>4, <2>1, WholeIsRead
  <2> QED
    BY <1>4, <2>2
<1> QED
  BY <1>1, <1>4, <1>5, Zenon DEF t

LEMMA ReadReplyInv ==
  ASSUME Inv, NEW c \in Clients, ReadReply(c)
  PROVE  Inv'
<1>0. ClientInvariant(c) /\ ServerInvariant /\ TypeOK
  BY DEF Inv, CalcInvariant
<1> DEFINE w == wire[Down(c)]
           T == mem[c].total_read
<1>1. PICK n \in 1 .. Len(w) :
        /\ wire' = [wire EXCEPT ![Down(c)] = SubSeq(@, n + 1, Len(@))]
        /\ IF ~(Received(c, n).total_read >= WideWidth)
             THEN mem' = [mem EXCEPT ![c] = Received(c, n)] /\ Short(c, TRUE) /\ UNCHANGED pc
             ELSE /\ mem' = [mem EXCEPT ![c] = Cleared]
                  /\ pc' = [pc EXCEPT ![c] = "prompt"]
                  /\ calc' = [calc EXCEPT ![c].shown =
                                IF Received(c, n).total_read # WideWidth THEN None
                                ELSE Decode(SubSeq(Received(c, n).recv_buffer, 1, WideWidth))]
  BY StreamNames DEF ReadReply, Consume, Enough
<1>2. pc[c] = "recv" /\ UNCHANGED <<cur, accepting, backlog, ear>>
  BY DEF ReadReply
<1>3. /\ w \in Seq(Byte) /\ Len(w) \in Nat /\ n \in 1 .. Len(w) /\ T \in Nat
      /\ mem[c] \in Memory /\ calc[c] \in Sum /\ Len(w) + T <= WideWidth /\ w # <<>>
      /\ mem[c].recv_buffer \in [1 .. RequestLen -> Byte]
  BY <1>0, <1>1, <1>2, Types, EmptyIff DEF ClientInvariant, BufferBounds
<1>4. /\ Received(c, n) \in Memory /\ Received(c, n).total_read = T + n
      /\ Received(c, n).recv_buffer = Overwrite(mem[c].recv_buffer, SubSeq(w, 1, n))
  BY <1>3, StreamNames, Receives
<1>5. wire'[Down(c)] \in Seq(Byte) /\ Len(wire'[Down(c)]) = Len(w) - n
  BY <1>0, <1>1, <1>3, Rest, StreamNames DEF TypeOK
<1>6. Only(c, c, Down(c), Down(c))
  <2>1. /\ mem \in [Ends -> Memory] /\ calc \in [Clients -> Sum] /\ wire \in [Streams -> Seq(Byte)]
        /\ ear \in [Streams -> {"open", "fin", "rst", "broken"}]
        /\ pc \in [Ends -> {"start", "accept", "prompt", "send", "recv", "dead"}]
    BY Parts
  <2>2. \/ mem' = [mem EXCEPT ![c] = Received(c, n)] /\ UNCHANGED pc
        \/ mem' = [mem EXCEPT ![c] = Cleared] /\ pc' = [pc EXCEPT ![c] = "prompt"]
    BY <1>1
  <2>3. /\ \A d \in Clients : d # c => calc'[d] = calc[d]
        /\ calc' = [calc EXCEPT ![c] = calc'[c]]
    BY <1>1, <2>1 DEF Short
  <2>4. /\ \A f \in Ends : f # c => pc'[f] = pc[f] /\ mem'[f] = mem[f]
        /\ pc' = [pc EXCEPT ![c] = pc'[c]] /\ mem' = [mem EXCEPT ![c] = mem'[c]]
    BY <2>1, <2>2, Names
  <2>5. /\ \A s \in Streams : s # Down(c) => wire'[s] = wire[s]
        /\ wire' = [wire EXCEPT ![Down(c)] = wire'[Down(c)]]
        /\ ear' = [ear EXCEPT ![Down(c)] = ear'[Down(c)]]
    BY <1>1, <1>2, <2>1, StreamNames
  <2> QED
    BY <1>2, <2>3, <2>4, <2>5 DEF Only
<1>7. /\ wire'[Up(c)] = wire[Up(c)] /\ pc'[Server] = pc[Server] /\ mem'[Server] = mem[Server]
      /\ ear'[Down(c)] \in {"open", "fin", "rst", "broken"}
  <2>1. ear[Down(c)] \in {"open", "fin", "rst", "broken"}
    BY <1>0, Types
  <2> QED
    BY <1>2, <1>6, <2>1, Names, StreamNames DEF Only
<1>8. ServerInvariant'
  BY <1>0, <1>2, <1>7 DEF ServerInvariant
<1>9. \A d \in Clients : d # c => ClientInvariant(d)'
  BY <1>6, Names, OthersKept
<1>10. /\ Held(c)' <=> Held(c)
       /\ Read(c)' <=> Read(c)
       /\ Replied(c)' <=> Replied(c)
       /\ Live(c)' => Live(c)
       /\ c \notin backlog' /\ Asked(c)' = Asked(c)
  <2>1. c \notin backlog
    BY <1>0, <1>3 DEF ClientInvariant, KnownEnds
  <2>2. /\ Held(c)' <=> Held(c)
        /\ Read(c)' <=> Read(c)
        /\ Replied(c)' <=> Replied(c)
        /\ Live(c)' => Live(c)
    BY <1>2, <1>7 DEF Held, Read, Replied, Live
  <2> QED
    BY <1>2, <1>7, <2>1, <2>2, AskedIs, AskedIsNext
<1>11. Live(c) => Asked(c) = 0 /\ Answered(c) = WideWidth
  <2>1. Answered(c) = Len(w) + (IF Replied(c) THEN mem[Server].length ELSE 0) + T
    BY <1>2, AskedIs
  <2>2. Replied(c) => mem[Server].length \in Nat
    BY <1>0, Types, Sizes
  <2>3. Answered(c) # 0
    BY <1>3, <2>1, <2>2
  <2> QED
    BY <1>0, <1>2, <2>3 DEF ClientInvariant, InStepWith
<1>12. CASE T + n < WideWidth
  <2>0. Enough(T + n, WideWidth) = FALSE
    BY <1>3, <1>12, Sizes DEF Enough
  <2>1. mem' = [mem EXCEPT ![c] = Received(c, n)] /\ Short(c, TRUE) /\ UNCHANGED pc
    BY <1>1, <1>4, <2>0 DEF Enough
  <2>2. /\ mem'[c] = Received(c, n) /\ pc'[c] = "recv" /\ calc'[c] = [calc[c] EXCEPT !.cut = TRUE]
    BY <1>0, <1>2, <2>1, Names DEF TypeOK, Short
  <2>3. /\ calc'[c] \in Sum /\ calc'[c].cut = TRUE /\ calc'[c].lhs = calc[c].lhs /\ calc'[c].rhs = calc[c].rhs
    BY <1>3, <2>2 DEF Sum
  <2>4. ClientInvariant(c)'
    <3>1. Answered(c)' = Answered(c)
      <4> DEFINE a == IF Replied(c) THEN mem[Server].length ELSE 0
      <4>1. a \in Nat
        BY <1>0, Types, Sizes
      <4>2. Answered(c) = Len(w) + a + T
        BY <1>2, AskedIs
      <4>3. Answered(c)' = Len(wire'[Down(c)]) + a + (T + n)
        BY <1>4, <1>7, <1>10, <2>2, AskedIsNext
      <4> HIDE DEF a
      <4> QED
        BY <1>3, <1>5, <4>1, <4>2, <4>3
    <3>2. KnownEnds(c)'
      BY <1>0, <1>2, <1>7, <1>10, <2>2 DEF ClientInvariant, KnownEnds
    <3>3. Len(wire'[Down(c)]) + mem'[c].total_read <= WideWidth
      BY <1>3, <1>4, <1>5, <2>2, Sizes
    <3>4. BufferBounds(c)'
      BY <1>0, <1>2, <1>7, <1>10, <2>2, <3>3 DEF ClientInvariant, BufferBounds
    <3>5. Live(c)' => InStepWith(c)'
      BY <1>10, <1>11, <2>2, <3>1 DEF InStepWith
    <3>6. ReplyIsWhole(c)' /\ NothingIsMixed(c)' /\ SumIsRight(c)'
      BY <1>0, <1>2, <1>7, <1>10, <2>3 DEF ClientInvariant, ReplyIsWhole, NothingIsMixed, SumIsRight
    <3> QED
      BY <3>2, <3>4, <3>5, <3>6 DEF ClientInvariant
  <2> QED
    <3>1. pc'[c] \in {"start", "accept", "prompt", "send", "recv", "dead"} /\ mem'[c] \in Memory
      BY <1>4, <2>2
    <3>2. \A d \in Clients : ClientInvariant(d)'
      BY <1>9, <2>4
    <3> QED
      BY <1>5, <1>6, <1>7, <1>8, <2>3, <3>1, <3>2, Names, StreamNames, OnlyTypes, Zenon
<1>13. CASE ~(T + n < WideWidth)
  <2>0. T + n = WideWidth /\ n = Len(w)
    BY <1>3, <1>13, Sizes, SMTT(30)
  <2>1. /\ mem' = [mem EXCEPT ![c] = Cleared]
        /\ pc' = [pc EXCEPT ![c] = "prompt"]
        /\ calc' = [calc EXCEPT ![c].shown = Decode(SubSeq(Received(c, n).recv_buffer, 1, WideWidth))]
    <3>1. Received(c, n).total_read = WideWidth /\ WideWidth >= WideWidth
      BY <1>4, <2>0, Sizes
    <3> QED
      BY <1>1, <3>1, Zenon
  <2> DEFINE v == Decode(SubSeq(Received(c, n).recv_buffer, 1, WideWidth))
  <2>2. v \in Nat
    <3>1. Received(c, n).recv_buffer \in [1 .. RequestLen -> Byte]
      BY <1>4 DEF Memory
    <3>2. SubSeq(Received(c, n).recv_buffer, 1, WideWidth) \in Seq(Byte)
      <4>1. \A i \in 1 .. WideWidth : Received(c, n).recv_buffer[i] \in Byte
        BY <3>1, Sizes
      <4> QED
        BY <4>1, SubSeqProperties, Sizes
    <3> QED
      BY <3>2, DecodeType
  <2>3. ~calc[c].cut => v = calc[c].lhs + calc[c].rhs
    <3>1. SubSeq(w, 1, n) = w
      BY <1>3, <2>0, Pieces
    <3> QED
      BY <1>2, <1>3, <1>4, <3>1, ReplyIsRead
  <2> HIDE DEF v
  <2>4. mem'[c] = Cleared /\ pc'[c] = "prompt" /\ calc'[c] = [calc[c] EXCEPT !.shown = v]
    BY <1>0, <2>1, Names DEF TypeOK, v
  <2>5. /\ calc'[c] \in Sum /\ calc'[c].cut = calc[c].cut /\ calc'[c].shown = v
        /\ calc'[c].lhs = calc[c].lhs /\ calc'[c].rhs = calc[c].rhs
    BY <1>3, <2>2, <2>4 DEF Sum
  <2>6. wire'[Down(c)] = <<>>
    BY <1>3, <1>5, <2>0, EmptyIff
  <2>7. ~Replied(c)
    <3> SUFFICES ASSUME Replied(c) PROVE FALSE
      OBVIOUS
    <3>1. Len(w) + mem[Server].length + T = WideWidth
      BY <1>2, Answering
    <3>2. mem[Server].length \in Nat /\ mem[Server].length > 0
      BY <1>0, Sizes DEF ClientInvariant, BufferBounds
    <3> QED
      BY <1>3, <2>0, <3>1, <3>2
  <2>8. ClientInvariant(c)'
    <3>1. Answered(c)' = 0
      BY <1>10, <2>4, <2>6, <2>7, EmptySeq, AskedIsNext
    <3>2. KnownEnds(c)'
      BY <1>0, <1>2, <1>7, <1>10, <2>4, <2>6 DEF ClientInvariant, KnownEnds
    <3>3. BufferBounds(c)'
      BY <1>0, <1>2, <1>7, <1>10, <2>4, <2>7 DEF ClientInvariant, BufferBounds
    <3>4. Live(c)' => InStepWith(c)'
      BY <1>10, <1>11, <2>4, <3>1 DEF InStepWith
    <3>5. ReplyIsWhole(c)' /\ NothingIsMixed(c)' /\ SumIsRight(c)'
      BY <1>0, <1>2, <1>7, <1>10, <2>3, <2>4, <2>5, <2>7
         DEF ClientInvariant, ReplyIsWhole, NothingIsMixed, SumIsRight
    <3> QED
      BY <3>2, <3>3, <3>4, <3>5 DEF ClientInvariant
  <2> QED
    <3>1. pc'[c] \in {"start", "accept", "prompt", "send", "recv", "dead"} /\ mem'[c] \in Memory
      BY <2>4, ClearedType
    <3>2. \A d \in Clients : ClientInvariant(d)'
      BY <1>9, <2>8
    <3> QED
      BY <1>5, <1>6, <1>7, <1>8, <2>5, <3>1, <3>2, Names, StreamNames, OnlyTypes, Zenon
<1> QED
  BY <1>12, <1>13

\* The whole request of an uncut calculation is answered with its reply.
LEMMA RequestIsAnswered ==
  ASSUME Inv, NEW c \in Clients, pc[c] = "recv", ~calc[c].cut, Read(c), wire[Up(c)] # <<>>
  PROVE  /\ Len(wire[Up(c)]) = RequestLen
         /\ \A buf \in [1 .. RequestLen -> Byte] :
              Encode(Result(Overwrite(buf, wire[Up(c)])), WideWidth) = Reply(c)
<1>0. ClientInvariant(c) /\ TypeOK
  BY DEF Inv, CalcInvariant
<1> DEFINE a == calc[c].lhs
           b == calc[c].rhs
           r == Encode(a, Width) \o <<Plus>> \o Encode(b, Width)
<1>1. wire[Up(c)] = r
  BY <1>0 DEF ClientInvariant, NothingIsMixed, Request, Read, Held
<1>2. a \in Nat /\ b \in Nat /\ Shifted(a, Width) = 0 /\ Shifted(b, Width) = 0
  BY <1>0, Types DEF ClientInvariant, SumIsRight
<1>3. r \in Seq(Byte) /\ Len(r) = RequestLen /\ Result(r) = a + b
  BY <1>2, RequestIsRead
<1> HIDE DEF r
<1>4. \A buf \in [1 .. RequestLen -> Byte] : Overwrite(buf, r) = r
  BY <1>3, WholeIsRead, Sizes
<1> QED
  BY <1>1, <1>3, <1>4, Zenon DEF Reply

\* The server's memory when it starts to answer.
LEMMA AnswerType ==
  ASSUME NEW m \in Memory, NEW s \in Seq(Byte)
  PROVE  /\ [m EXCEPT !.send_buffer = s, !.length = WideWidth] \in Memory
         /\ [m EXCEPT !.send_buffer = s, !.length = WideWidth].send_buffer = s
         /\ [m EXCEPT !.send_buffer = s, !.length = WideWidth].length = WideWidth
<1>1. WideWidth \in 0 .. RequestLen
  BY Sizes
<1> QED
  BY <1>1 DEF Memory

LEMMA ResultType ==
  ASSUME NEW buf \in [1 .. RequestLen -> Byte]
  PROVE  Result(buf) \in Nat
<1>1. \A i \in 1 .. RequestLen : buf[i] \in Byte
  OBVIOUS
<1>2. /\ RequestLen \in Int /\ 1 \in Int /\ Width \in Int /\ Width + 2 \in Int
      /\ \A i \in 1 .. Width : i \in 1 .. RequestLen
      /\ \A i \in Width + 2 .. RequestLen : i \in 1 .. RequestLen
  BY Sizes, Positive
<1>3. SubSeq(buf, 1, Width) \in Seq(Byte)
  BY <1>1, <1>2, SubSeqProperties
<1>4. SubSeq(buf, Width + 2, RequestLen) \in Seq(Byte)
  BY <1>1, <1>2, SubSeqProperties
<1>5. Decode(SubSeq(buf, 1, Width)) \in Nat /\ Decode(SubSeq(buf, Width + 2, RequestLen)) \in Nat
  BY <1>3, <1>4, DecodeType
<1> QED
  BY <1>5 DEF Result

LEMMA ReadRequestInv ==
  ASSUME Inv, ReadRequest
  PROVE  Inv'
<1>a. pc[Server] = "recv" /\ ServerInvariant /\ TypeOK
  BY DEF ReadRequest, Inv, CalcInvariant
<1>b. PICK c \in Clients : cur = c
  BY <1>a DEF ServerInvariant, TypeOK
<1>0. ClientInvariant(c) /\ Read(c) /\ Held(c) /\ c \notin backlog
  BY <1>a, <1>b DEF Inv, CalcInvariant, Read, Held, ServerInvariant
<1> DEFINE w == wire[Up(c)]
           T == mem[Server].total_read
<1>1. PICK n \in 1 .. Len(w) :
        LET m == Received(Server, n)
        IN  /\ Short(c, m.total_read < RequestLen)
            /\ IF ~(m.total_read >= RequestLen)
                 THEN /\ mem' = [mem EXCEPT ![Server] = m]
                      /\ wire' = [wire EXCEPT ![Up(c)] = SubSeq(@, n + 1, Len(@))]
                      /\ UNCHANGED <<pc, cur, ear>>
                 ELSE IF m.total_read # RequestLen
                 THEN /\ mem' = [mem EXCEPT ![Server] = m]
                      /\ wire' = [wire EXCEPT ![Up(c)] = <<>>]
                      /\ CloseClient(n < Len(wire[Up(c)]))
                 ELSE /\ wire' = [wire EXCEPT ![Up(c)] = SubSeq(@, n + 1, Len(@))]
                      /\ mem' = [mem EXCEPT ![Server] =
                                   [m EXCEPT !.send_buffer = Encode(Result(m.recv_buffer), WideWidth),
                                             !.length = WideWidth]]
                      /\ pc' = [pc EXCEPT ![Server] = "send"]
                      /\ UNCHANGED <<cur, ear>>
  BY <1>b, ServerStreams DEF ReadRequest, Consume, Enough
<1> DEFINE m == Received(Server, n)
<1>2. UNCHANGED <<accepting, backlog>>
  BY DEF ReadRequest
<1>3. /\ w \in Seq(Byte) /\ Len(w) \in Nat /\ n \in 1 .. Len(w) /\ T \in Nat /\ w # <<>>
      /\ mem[Server] \in Memory /\ calc[c] \in Sum
      /\ mem[Server].recv_buffer \in [1 .. RequestLen -> Byte]
      /\ Asked(c) = Len(w) + T /\ Len(w) + T <= RequestLen
  BY <1>a, <1>0, <1>1, Types, EmptyIff, AskedIs DEF ClientInvariant, BufferBounds
<1>4. /\ m \in Memory /\ m.total_read = T + n
      /\ m.recv_buffer = Overwrite(mem[Server].recv_buffer, SubSeq(w, 1, n))
  BY <1>b, <1>3, ServerStreams, Receives
<1> HIDE DEF m
<1>5. \/ /\ T + n < RequestLen
         /\ mem' = [mem EXCEPT ![Server] = m] /\ UNCHANGED <<pc, cur, ear>>
         /\ wire' = [wire EXCEPT ![Up(c)] = SubSeq(@, n + 1, Len(@))]
      \/ /\ T + n = RequestLen /\ n = Len(w)
         /\ mem' = [mem EXCEPT ![Server] =
                      [m EXCEPT !.send_buffer = Encode(Result(m.recv_buffer), WideWidth),
                                !.length = WideWidth]]
         /\ pc' = [pc EXCEPT ![Server] = "send"]
         /\ UNCHANGED <<cur, ear>>
         /\ wire' = [wire EXCEPT ![Up(c)] = SubSeq(@, n + 1, Len(@))]
  <2>1. CASE T + n < RequestLen
    <3>1. ~(m.total_read >= RequestLen)
      BY <1>3, <1>4, <2>1, Sizes
    <3> QED
      BY <1>1, <2>1, <3>1, Zenon DEF m
  <2>2. CASE ~(T + n < RequestLen)
    <3>0. T + n = RequestLen /\ n = Len(w) /\ RequestLen >= RequestLen
      <4>1. /\ RequestLen \in Nat /\ Len(w) \in Nat /\ T \in Nat /\ n \in 1 .. Len(w)
            /\ Len(w) + T <= RequestLen
        BY <1>3, Sizes
      <4> HIDE DEF T, w
      <4> QED
        BY <2>2, <4>1
    <3>1. T + n = RequestLen /\ n = Len(w) /\ m.total_read >= RequestLen /\ m.total_read = RequestLen
      BY <1>4, <3>0
    <3> QED
      BY <1>1, <3>1, Zenon DEF m
  <2> QED
    BY <2>1, <2>2
<1>6. /\ wire' = [wire EXCEPT ![Up(c)] = SubSeq(@, n + 1, Len(@))]
      /\ wire'[Up(c)] \in Seq(Byte) /\ Len(wire'[Up(c)]) = Len(w) - n
  <2>1. wire' = [wire EXCEPT ![Up(c)] = SubSeq(@, n + 1, Len(@))]
    BY <1>5
  <2> QED
    BY <1>a, <1>3, <2>1, Rest, StreamNames DEF TypeOK
<1>7. /\ calc'[c] = [calc[c] EXCEPT !.cut = @ \/ T + n < RequestLen]
      /\ calc' = [calc EXCEPT ![c] = calc'[c]] /\ \A d \in Clients : d # c => calc'[d] = calc[d]
  BY <1>a, <1>1, <1>4 DEF Short, TypeOK, m
<1>8. Only(Server, c, Up(c), Up(c))
  <2>1. /\ mem \in [Ends -> Memory] /\ wire \in [Streams -> Seq(Byte)]
        /\ ear \in [Streams -> {"open", "fin", "rst", "broken"}]
        /\ pc \in [Ends -> {"start", "accept", "prompt", "send", "recv", "dead"}]
    BY Parts
  <2>2. /\ \A f \in Ends : f # Server => pc'[f] = pc[f] /\ mem'[f] = mem[f]
        /\ pc' = [pc EXCEPT ![Server] = pc'[Server]] /\ mem' = [mem EXCEPT ![Server] = mem'[Server]]
    BY <1>5, <2>1, Names
  <2>3. /\ \A s \in Streams : s # Up(c) => wire'[s] = wire[s]
        /\ wire' = [wire EXCEPT ![Up(c)] = wire'[Up(c)]]
        /\ ear' = [ear EXCEPT ![Up(c)] = ear'[Up(c)]]
        /\ UNCHANGED <<cur, ear>>
    BY <1>5, <1>6, <2>1, StreamNames
  <2> QED
    BY <1>2, <1>7, <2>2, <2>3 DEF Only
<1>9. /\ wire'[Down(c)] = wire[Down(c)] /\ pc'[c] = pc[c] /\ mem'[c] = mem[c]
      /\ UNCHANGED <<cur, ear, backlog>> /\ ear'[Up(c)] \in {"open", "fin", "rst", "broken"}
  <2>1. ear[Up(c)] \in {"open", "fin", "rst", "broken"}
    BY <1>a, Types
  <2> QED
    BY <1>5, <1>8, <2>1, Names, StreamNames DEF Only
<1>10. /\ calc'[c] \in Sum
       /\ calc'[c].lhs = calc[c].lhs /\ calc'[c].rhs = calc[c].rhs /\ calc'[c].shown = calc[c].shown
       /\ ~calc'[c].cut => ~calc[c].cut /\ ~(T + n < RequestLen)
  <2>1. (T + n < RequestLen) \in BOOLEAN
    OBVIOUS
  <2> QED
    BY <1>3, <1>7, <2>1 DEF Sum
<1>11. \A d \in Clients : d # c => ClientInvariant(d)'
  BY <1>a, <1>b, <1>8, Names, OthersKept
<1>12. ear[Up(c)] \notin {"rst", "broken"}
  BY <1>0, <1>3 DEF ClientInvariant, ReplyIsWhole
<1>13. Held(c)' /\ (Live(c)' => Live(c))
  BY <1>a, <1>b, <1>9 DEF Held, Live
<1>14. CASE T + n < RequestLen
  <2>1. mem'[Server] = m /\ pc'[Server] = "recv"
    BY <1>a, <1>5, <1>14, Names DEF TypeOK
  <2>2. ServerInvariant'
    BY <1>a, <1>9, <2>1 DEF ServerInvariant
  <2>3. Read(c)' /\ ~Replied(c)' /\ ~Replied(c)
    BY <1>a, <1>b, <1>9, <2>1 DEF Read, Replied
  <2>4. Asked(c)' = Asked(c) /\ Answered(c)' = Answered(c)
    <3>1. Asked(c)' = (Len(w) - n) + (T + n)
      BY <1>4, <1>6, <2>1, <2>3, AskedIsNext
    <3> QED
      BY <1>3, <1>9, <2>3, <3>1, AskedIs, AskedIsNext
  <2>5. calc'[c].cut
    BY <1>3, <1>10, <1>14
  <2>6. ClientInvariant(c)'
    <3>1. KnownEnds(c)'
      BY <1>0, <1>9, <1>13 DEF ClientInvariant, KnownEnds
    <3>2. BufferBounds(c)'
      BY <1>0, <1>3, <1>9, <2>3, <2>4 DEF ClientInvariant, BufferBounds
    <3>3. Live(c)' => InStepWith(c)'
      BY <1>0, <1>9, <1>13, <2>4 DEF ClientInvariant, InStepWith
    <3>4. ReplyIsWhole(c)' /\ NothingIsMixed(c)' /\ SumIsRight(c)'
      BY <1>0, <1>9, <1>10, <1>12, <2>3, <2>5 DEF ClientInvariant, ReplyIsWhole, NothingIsMixed, SumIsRight
    <3> QED
      BY <3>1, <3>2, <3>3, <3>4 DEF ClientInvariant
  <2>7. pc'[Server] \in {"start", "accept", "prompt", "send", "recv", "dead"} /\ mem'[Server] \in Memory
    BY <1>4, <2>1
  <2>8. \A d \in Clients : ClientInvariant(d)'
    BY <1>11, <2>6
  <2> QED
    BY <1>6, <1>8, <1>9, <1>10, <2>2, <2>7, <2>8, Names, StreamNames, OnlyTypes, Zenon
<1>15. CASE ~(T + n < RequestLen)
  <2> DEFINE s == Encode(Result(m.recv_buffer), WideWidth)
  <2>1. mem'[Server] = [m EXCEPT !.send_buffer = s, !.length = WideWidth] /\ pc'[Server] = "send"
    BY <1>a, <1>5, <1>15, Names DEF TypeOK
  <2>2. T + n = RequestLen /\ n = Len(w)
    BY <1>5, <1>15
  <2>3. s \in Seq(Byte) /\ Len(s) = WideWidth
    <3>1. m.recv_buffer \in [1 .. RequestLen -> Byte]
      BY <1>4 DEF Memory
    <3> QED
      BY <3>1, ResultType, EncodeType, Positive
  <2>4. mem'[Server] \in Memory /\ mem'[Server].send_buffer = s /\ mem'[Server].length = WideWidth
    BY <1>4, <2>1, <2>3, AnswerType, ZenonT(40)
  <2>5. ServerInvariant'
    BY <1>a, <1>9, <2>1 DEF ServerInvariant
  <2>6. ~Read(c)' /\ Replied(c)' /\ ~Replied(c)
    BY <1>a, <1>b, <1>9, <2>1 DEF Read, Replied
  <2>7. wire'[Up(c)] = <<>> /\ Len(wire'[Up(c)]) = 0
    BY <1>3, <1>6, <2>2, EmptyIff
  <2>8. Asked(c) = RequestLen
    BY <1>3, <2>2
  <2>9. /\ pc[c] = "recv" \/ pc[c] = "dead"
        /\ pc[c] = "recv" => Answered(c) = 0
        /\ wire[Down(c)] = <<>> /\ Len(wire[Down(c)]) = 0
    <3>1. pc[c] # "prompt" /\ pc[c] # "send"
      <4>1. pc[c] = "send" => mem[c].length \in Nat \ {0}
        BY <1>a, <1>0, Types, Sizes DEF ClientInvariant, BufferBounds
      <4>2. pc[c] = "send" => Asked(c) = RequestLen - mem[c].length
        BY <1>0, Standing
      <4>3. pc[c] # "prompt"
        BY <1>0, <1>3, Standing
      <4> QED
        BY <2>8, <4>1, <4>2, <4>3, Sizes
    <3>2. pc[c] = "recv" \/ pc[c] = "dead"
      BY <1>0, <3>1, Standing
    <3>3. pc[c] = "recv" => Answered(c) = 0
      BY <1>0, <2>8, Standing, Sizes
    <3>4. pc[c] = "recv" => Len(wire[Down(c)]) = 0
      <4>1. pc[c] = "recv" => Answered(c) = Len(wire[Down(c)]) + 0 + mem[c].total_read
        BY <2>6, AskedIs
      <4>2. Len(wire[Down(c)]) \in Nat /\ mem[c].total_read \in Nat
        BY <1>a, Types
      <4> QED
        BY <3>3, <4>1, <4>2
    <3>5. wire[Down(c)] \in Seq(Byte) /\ (pc[c] # "recv" => wire[Down(c)] = <<>>)
      BY <1>a, <1>0, Types DEF ClientInvariant, KnownEnds
    <3> QED
      BY <3>2, <3>3, <3>4, <3>5, EmptyIff
  <2>10. Asked(c)' = 0 /\ (pc[c] = "recv" => Answered(c)' = WideWidth)
    <3>1. Asked(c)' = 0
      BY <2>6, <2>7, AskedIsNext
    <3>2. ASSUME pc[c] = "recv" PROVE Answered(c)' = WideWidth
      <4>1. Answered(c)' = 0 + WideWidth + mem[c].total_read
        BY <1>9, <2>4, <2>6, <2>9, <3>2, AskedIsNext
      <4>2. 0 = 0 + 0 + mem[c].total_read
        BY <2>6, <2>9, <3>2, AskedIs
      <4>3. mem[c].total_read \in Nat
        BY <1>a, Types
      <4> QED
        BY <4>1, <4>2, <4>3, Sizes
    <3> QED
      BY <3>1, <3>2
  <2> HIDE DEF s
  <2>11. ASSUME pc[c] = "recv", ~calc[c].cut PROVE s = Reply(c)
    <3>1. SubSeq(w, 1, n) = w
      BY <1>3, <2>2, Pieces
    <3>2. Encode(Result(Overwrite(mem[Server].recv_buffer, w)), WideWidth) = Reply(c)
      BY <1>0, <1>3, <2>11, RequestIsAnswered
    <3> QED
      BY <1>4, <3>1, <3>2 DEF s
  <2>12. ClientInvariant(c)'
    <3>1. KnownEnds(c)'
      BY <1>0, <1>9, <1>13, <2>9 DEF ClientInvariant, KnownEnds
    <3>2. BufferBounds(c)'
      <4>1. WideWidth \in 1 .. WideWidth /\ 0 <= RequestLen
        BY Sizes
      <4>2. /\ pc[c] = "recv" => Len(wire[Down(c)]) + mem[c].total_read <= WideWidth
            /\ pc[c] # "send"
        BY <1>0, <2>9 DEF ClientInvariant, BufferBounds
      <4> QED
        BY <1>9, <2>3, <2>4, <2>7, <2>10, <4>1, <4>2 DEF BufferBounds
    <3>3. Live(c)' => InStepWith(c)'
      BY <1>9, <2>9, <2>10 DEF Live, InStepWith
    <3>4. ReplyIsWhole(c)'
      BY <1>9, <1>12, <2>4, <2>6, <2>9 DEF ReplyIsWhole
    <3>5. NothingIsMixed(c)'
      <4> SUFFICES ASSUME ~calc'[c].cut PROVE NothingIsMixed(c)'
        BY DEF NothingIsMixed
      <4>1. ~calc[c].cut /\ Reply(c)' = Reply(c)
        BY <1>10 DEF Reply
      <4>2. pc[c] = "recv" => mem[c].total_read = 0
        BY <1>0, <4>1 DEF ClientInvariant, NothingIsMixed
      <4> QED
        BY <1>9, <2>4, <2>6, <2>7, <2>9, <2>11, <4>1, <4>2 DEF NothingIsMixed
    <3>6. SumIsRight(c)'
      BY <1>0, <1>10 DEF ClientInvariant, SumIsRight
    <3> QED
      BY <3>1, <3>2, <3>3, <3>4, <3>5, <3>6 DEF ClientInvariant
  <2>13. pc'[Server] \in {"start", "accept", "prompt", "send", "recv", "dead"}
    BY <2>1
  <2>14. \A d \in Clients : ClientInvariant(d)'
    BY <1>11, <2>12
  <2> QED
    BY <1>6, <1>8, <1>9, <1>10, <2>4, <2>5, <2>13, <2>14, Names, StreamNames, OnlyTypes, Zenon
<1> QED
  BY <1>14, <1>15

\* A client that the server does not hold and has let know so, or that never
\* had a connection, keeps what is its own.
LEMMA LetGo ==
  ASSUME Inv, NEW c \in Clients,
         pc'[c] = pc[c], mem'[c] = mem[c], calc'[c] = calc[c],
         wire'[Down(c)] = wire[Down(c)], ear'[Up(c)] = ear[Up(c)],
         cur' # c, c \notin backlog', ear'[Down(c)] # "open" \/ pc'[Server] = "dead",
         pc[c] = "start" => wire'[Up(c)] = <<>> /\ ear'[Down(c)] = "open"
  PROVE  ClientInvariant(c)'
<1>0. ClientInvariant(c)
  BY DEF Inv, CalcInvariant
<1>1. ~Held(c)' /\ ~Read(c)' /\ ~Replied(c)' /\ ~Live(c)'
  BY DEF Held, Read, Replied, Live, Down
<1>2. Request(c)' = Request(c) /\ Reply(c)' = Reply(c)
  BY DEF Request, Reply
<1>3. KnownEnds(c)'
  BY <1>0, <1>1 DEF ClientInvariant, KnownEnds
<1>4. BufferBounds(c)' /\ ReplyIsWhole(c)'
  BY <1>0, <1>1 DEF ClientInvariant, BufferBounds, ReplyIsWhole
<1>5. NothingIsMixed(c)' /\ SumIsRight(c)'
  BY <1>0, <1>1, <1>2 DEF ClientInvariant, NothingIsMixed, SumIsRight
<1> QED
  BY <1>1, <1>3, <1>4, <1>5 DEF ClientInvariant

LEMMA LoseClientInv ==
  ASSUME Inv, LoseClient
  PROVE  Inv'
<1>a. pc[Server] \in {"recv", "send"} /\ ServerInvariant /\ TypeOK
  BY DEF LoseClient, Inv, CalcInvariant
<1>b. PICK c \in Clients : cur = c
  BY <1>a DEF ServerInvariant, TypeOK
<1>0. ClientInvariant(c) /\ Held(c) /\ c \notin backlog
  BY <1>a, <1>b DEF Inv, CalcInvariant, Held, ServerInvariant
<1>1. /\ cur' = None /\ pc' = [pc EXCEPT ![Server] = "accept"]
      /\ \E k \in {"fin", "rst"} :
           ear' = [ear EXCEPT ![Down(c)] = IF @ = "open" THEN k ELSE @]
      /\ UNCHANGED <<accepting, mem, calc, backlog, wire>>
  BY <1>b, ServerStreams DEF LoseClient, CloseClient
<1>2. ear[Down(c)] = "open" /\ pc[c] # "start"
  BY <1>0 DEF ClientInvariant, KnownEnds
<1>3. PICK k \in {"fin", "rst"} : ear' = [ear EXCEPT ![Down(c)] = k]
  BY <1>1, <1>2
<1>4. /\ pc'[Server] = "accept" /\ ear'[Down(c)] \in {"rst", "fin"} /\ ear'[Up(c)] = ear[Up(c)]
      /\ \A f \in Ends : f # Server => pc'[f] = pc[f]
      /\ \A d \in Clients : d # c => ear'[Up(d)] = ear[Up(d)] /\ ear'[Down(d)] = ear[Down(d)]
  <2>1. pc'[Server] = "accept" /\ \A f \in Ends : f # Server => pc'[f] = pc[f]
    BY <1>a, <1>1, Names DEF TypeOK
  <2>2. ear \in [Streams -> {"open", "fin", "rst", "broken"}]
    BY <1>a DEF TypeOK
  <2> QED
    BY <1>3, <2>1, <2>2, StreamNames
<1>5. /\ pc' \in [Ends -> {"start", "accept", "prompt", "send", "recv", "dead"}]
      /\ ear' \in [Streams -> {"open", "fin", "rst", "broken"}]
  BY <1>1, <1>3, Parts
<1>6. ServerInvariant'
  BY <1>a, <1>1, <1>4, Names DEF ServerInvariant, TypeOK
<1>7. ASSUME NEW d \in Clients, d # c PROVE ClientInvariant(d)'
  <2>1. Untouched(d)
    BY <1>a, <1>b, <1>1, <1>4, <1>7, Names DEF Untouched
  <2> QED
    BY <2>1, Frame DEF Inv, CalcInvariant
<1>8. ClientInvariant(c)'
  BY <1>0, <1>1, <1>2, <1>4, Names, LetGo
<1> QED
  BY <1>1, <1>5, <1>6, <1>7, <1>8, Parts, PartsNext

LEMMA AcceptInv ==
  ASSUME Inv, NEW c \in Clients, Accept(c)
  PROVE  Inv'
<1>0. ClientInvariant(c) /\ ServerInvariant /\ TypeOK
  BY DEF Inv, CalcInvariant
<1>1. /\ pc[Server] = "accept" /\ c \in backlog /\ backlog' = backlog \ {c}
      /\ calc' = calc /\ accepting' \in {"first", "works", "drops", "fails"} /\ cur = None /\ Held(c)
  BY <1>0 DEF Accept, ServerInvariant, Held, TypeOK
<1>2. ear[Down(c)] = "open" /\ pc[c] # "start" /\ ear[Up(c)] \in {"open", "fin"} /\ wire[Down(c)] = <<>>
  BY <1>0, <1>1 DEF ClientInvariant, KnownEnds
<1>3. CASE accepting \in {"first", "works"}
  <2>0. /\ cur' = c /\ pc' = [pc EXCEPT ![Server] = "recv"] /\ UNCHANGED <<wire, ear>>
        /\ \E buf \in {mem[Server].recv_buffer} \cup {Filled(b) : b \in Leftover} :
             mem' = [mem EXCEPT ![Server].recv_buffer = buf, ![Server].total_read = 0]
    BY <1>3 DEF Accept
  <2>1. PICK buf \in {mem[Server].recv_buffer} \cup {Filled(b) : b \in Leftover} :
             /\ cur' = c /\ pc' = [pc EXCEPT ![Server] = "recv"] /\ UNCHANGED <<wire, ear>>
             /\ mem' = [mem EXCEPT ![Server].recv_buffer = buf, ![Server].total_read = 0]
    BY <2>0
  <2>2. /\ pc'[Server] = "recv"
        /\ mem'[Server] = [mem[Server] EXCEPT !.recv_buffer = buf, !.total_read = 0]
        /\ \A f \in Ends : f # Server => pc'[f] = pc[f] /\ mem'[f] = mem[f]
        /\ mem[Server] \in Memory
    <3>1. mem \in [Ends -> Memory]
      BY Parts
    <3> QED
      BY <1>0, <2>1, <3>1, Names DEF TypeOK
  <2>3. mem'[Server] \in Memory /\ mem'[Server].total_read = 0
    <3>1. 0 \in Nat
      OBVIOUS
    <3>2. buf \in [1 .. RequestLen -> Byte]
      BY <2>2, CalcAssumption DEF Filled, Memory
    <3> QED
      BY <2>2, <3>1, <3>2 DEF Memory
  <2>4. /\ pc' \in [Ends -> {"start", "accept", "prompt", "send", "recv", "dead"}]
        /\ mem' \in [Ends -> Memory]
    BY <2>1, <2>2, <2>3, Names, Parts
  <2>5. ServerInvariant'
    BY <1>0, <1>1, <2>1, <2>2, Names DEF ServerInvariant
  <2>6. ASSUME NEW d \in Clients, d # c PROVE ClientInvariant(d)'
    <3>1. Untouched(d)
      BY <1>1, <2>1, <2>2, <2>6, Names DEF Untouched
    <3> QED
      BY <3>1, Frame DEF Inv, CalcInvariant
  <2>7. ClientInvariant(c)'
    <3>1. /\ Held(c)' /\ Read(c)' /\ ~Replied(c)' /\ c \notin backlog'
          /\ Live(c)' => Live(c)
          /\ pc'[c] = pc[c] /\ mem'[c] = mem[c] /\ calc'[c] = calc[c]
          /\ Request(c)' = Request(c) /\ Reply(c)' = Reply(c)
      BY <1>1, <2>1, <2>2, Names DEF Held, Read, Replied, Live, Request, Reply
    <3>2. Asked(c)' = Asked(c) /\ Answered(c)' = Answered(c)
      <4>1. ~Read(c) /\ ~Replied(c)
        BY <1>1, Names DEF Read, Replied
      <4> QED
        BY <2>1, <2>3, <3>1, <4>1, AskedIs, AskedIsNext
    <3>3. KnownEnds(c)'
      BY <1>0, <1>1, <1>2, <2>1, <3>1 DEF ClientInvariant, KnownEnds
    <3>4. BufferBounds(c)'
      BY <1>0, <1>1, <2>1, <3>1, <3>2 DEF ClientInvariant, BufferBounds
    <3>5. Live(c)' => InStepWith(c)'
      BY <1>0, <3>1, <3>2 DEF ClientInvariant, InStepWith
    <3>6. ReplyIsWhole(c)' /\ NothingIsMixed(c)' /\ SumIsRight(c)'
      BY <1>0, <1>1, <1>2, <2>1, <2>3, <3>1
         DEF ClientInvariant, ReplyIsWhole, NothingIsMixed, SumIsRight
    <3> QED
      BY <3>3, <3>4, <3>5, <3>6 DEF ClientInvariant
  <2> QED
    BY <1>1, <2>1, <2>4, <2>5, <2>6, <2>7, Parts, PartsNext
<1>4. CASE accepting \notin {"first", "works"}
  <2>1. /\ ear' = [ear EXCEPT ![Down(c)] = Hangup(Server, c)]
        /\ wire' = [wire EXCEPT ![Up(c)] = <<>>]
        /\ UNCHANGED <<cur, pc, mem>>
    BY <1>4 DEF Accept, Up, Down
  <2>2. Hangup(Server, c) = "rst"
    BY <1>1, <1>2 DEF Hangup, Down
  <2>3. /\ wire \in [Streams -> Seq(Byte)] /\ ear \in [Streams -> {"open", "fin", "rst", "broken"}]
        /\ <<>> \in Seq(Byte)
    BY Parts, EmptySeq
  <2>4. /\ wire' \in [Streams -> Seq(Byte)] /\ ear' \in [Streams -> {"open", "fin", "rst", "broken"}]
        /\ ear'[Down(c)] = "rst" /\ ear'[Up(c)] = ear[Up(c)] /\ wire'[Down(c)] = wire[Down(c)]
        /\ \A d \in Clients : d # c => /\ wire'[Up(d)] = wire[Up(d)] /\ wire'[Down(d)] = wire[Down(d)]
                                       /\ ear'[Up(d)] = ear[Up(d)] /\ ear'[Down(d)] = ear[Down(d)]
    BY <2>1, <2>2, <2>3, StreamNames
  <2>5. ServerInvariant'
    BY <1>0, <1>1, <2>1 DEF ServerInvariant
  <2>6. ASSUME NEW d \in Clients, d # c PROVE ClientInvariant(d)'
    <3>1. Untouched(d)
      BY <1>1, <2>1, <2>4, <2>6, Names DEF Untouched
    <3> QED
      BY <3>1, Frame DEF Inv, CalcInvariant
  <2>7. ClientInvariant(c)'
    BY <1>1, <1>2, <2>1, <2>4, Names, LetGo
  <2> QED
    BY <1>1, <2>1, <2>4, <2>5, <2>6, <2>7, Parts, PartsNext
<1> QED
  BY <1>3, <1>4

LEMMA ClientDieInv ==
  ASSUME Inv, NEW c \in Clients, pc[c] \notin {"start", "dead"}, Die(c)
  PROVE  Inv'
<1>0. ClientInvariant(c) /\ ServerInvariant /\ TypeOK
  BY DEF Inv, CalcInvariant
<1>1. /\ pc' = [pc EXCEPT ![c] = "dead"] /\ mem' = [mem EXCEPT ![c] = Cleared]
      /\ ear' = [s \in Streams |-> IF s = Up(c) THEN Hangup(c, s[1]) ELSE ear[s]]
      /\ wire' = [s \in Streams |-> IF s = Down(c) THEN <<>> ELSE wire[s]]
      /\ calc' = [calc EXCEPT ![c] = [NoSum EXCEPT !.cut = calc[c].cut]]
      /\ UNCHANGED <<cur, backlog, accepting>>
  BY Names DEF Die, Up, Down
<1>2. ear[Up(c)] = "open"
  BY <1>0 DEF ClientInvariant, KnownEnds
<1>3. /\ Hangup(c, c) = IF wire[Down(c)] # <<>> THEN "rst" ELSE "fin"
      /\ Hangup(c, c) \in {"rst", "fin"}
  BY <1>2, Names DEF Hangup, Up, Down
<1>4. /\ ear'[Up(c)] = Hangup(c, c) /\ wire'[Down(c)] = <<>>
      /\ \A s \in Streams : (s # Down(c) => wire'[s] = wire[s]) /\ (s # Up(c) => ear'[s] = ear[s])
      /\ wire' = [wire EXCEPT ![Down(c)] = wire'[Down(c)]] /\ ear' = [ear EXCEPT ![Up(c)] = ear'[Up(c)]]
  BY <1>0, <1>1, StreamNames DEF TypeOK
<1>5. /\ pc'[c] = "dead" /\ mem'[c] = Cleared /\ calc'[c] = [NoSum EXCEPT !.cut = calc[c].cut]
      /\ \A f \in Ends : f # c => pc'[f] = pc[f] /\ mem'[f] = mem[f]
      /\ \A d \in Clients : d # c => calc'[d] = calc[d]
      /\ pc' = [pc EXCEPT ![c] = pc'[c]] /\ mem' = [mem EXCEPT ![c] = mem'[c]]
      /\ calc' = [calc EXCEPT ![c] = calc'[c]]
  BY <1>0, <1>1, Names DEF TypeOK
<1>6. Only(c, c, Down(c), Up(c))
  BY <1>1, <1>4, <1>5 DEF Only
<1>7. /\ calc'[c] \in Sum /\ calc'[c].lhs = 0 /\ calc'[c].rhs = 0 /\ calc'[c].shown = None
      /\ calc'[c].cut = calc[c].cut
  <2>1. calc[c].cut \in BOOLEAN
    BY <1>0, Types
  <2> QED
    BY <1>5, <2>1, NoSumType DEF Sum, NoSum
<1>8. /\ pc'[Server] = pc[Server] /\ mem'[Server] = mem[Server]
      /\ wire'[Up(c)] = wire[Up(c)] /\ ear'[Down(c)] = ear[Down(c)]
  BY <1>4, <1>5, Names, StreamNames
<1>9. ServerInvariant'
  BY <1>0, <1>1, <1>8 DEF ServerInvariant
<1>10. \A d \in Clients : d # c => ClientInvariant(d)'
  BY <1>6, Names, OthersKept
<1>11. ClientInvariant(c)'
  <2>1. /\ Held(c)' <=> Held(c)
        /\ Read(c)' <=> Read(c)
        /\ Replied(c)' <=> Replied(c)
        /\ ~Live(c)'
    BY <1>1, <1>5, <1>8 DEF Held, Read, Replied, Live
  <2>2. Asked(c)' = Asked(c)
    BY <1>8, <2>1, AskedIs, AskedIsNext
  <2>3. KnownEnds(c)'
    BY <1>0, <1>1, <1>3, <1>4, <1>5, <1>8, <2>1 DEF ClientInvariant, KnownEnds
  <2>4. BufferBounds(c)'
    BY <1>0, <1>5, <1>8, <2>1, <2>2 DEF ClientInvariant, BufferBounds
  <2>5. Read(c) /\ wire[Down(c)] # <<>> => wire[Up(c)] = <<>>
    <3> SUFFICES ASSUME Read(c), wire[Down(c)] # <<>> PROVE wire[Up(c)] = <<>>
      OBVIOUS
    <3>1. pc[c] = "recv" /\ Held(c) /\ ~Replied(c)
      BY <1>0 DEF ClientInvariant, KnownEnds, Held, Read, Replied
    <3>2. /\ Len(wire[Down(c)]) \in Nat \ {0} /\ Len(wire[Up(c)]) \in Nat /\ wire[Up(c)] \in Seq(Byte)
          /\ mem[c].total_read \in Nat /\ mem[Server].total_read \in Nat
      BY <1>0, Types, EmptyIff
    <3>3. Asked(c) = Len(wire[Up(c)]) + mem[Server].total_read
          /\ Answered(c) = Len(wire[Down(c)]) + 0 + mem[c].total_read
      BY <3>1, AskedIs
    <3>4. Asked(c) = 0
      BY <3>1, <3>2, <3>3, Standing
    <3> QED
      BY <3>2, <3>3, <3>4, EmptyIff
  <2>6. ReplyIsWhole(c)'
    BY <1>0, <1>3, <1>4, <1>7, <1>8, <2>1, <2>5 DEF ClientInvariant, ReplyIsWhole
  <2>7. NothingIsMixed(c)' /\ SumIsRight(c)'
    BY <1>5, <1>7, NothingShifts DEF NothingIsMixed, SumIsRight
  <2> QED
    BY <2>1, <2>3, <2>4, <2>6, <2>7 DEF ClientInvariant
<1>12. /\ pc'[c] \in {"start", "accept", "prompt", "send", "recv", "dead"} /\ mem'[c] \in Memory
       /\ wire'[Down(c)] \in Seq(Byte) /\ ear'[Up(c)] \in {"open", "fin", "rst", "broken"}
  BY <1>3, <1>4, <1>5, ClearedType, EmptySeq
<1>13. \A d \in Clients : ClientInvariant(d)'
  BY <1>10, <1>11
<1> QED
  BY <1>6, <1>7, <1>9, <1>12, <1>13, Names, StreamNames, OnlyTypes, Zenon

LEMMA ServerDieInv ==
  ASSUME Inv, Die(Server)
  PROVE  Inv'
<1>0. ServerInvariant /\ TypeOK
  BY DEF Inv, CalcInvariant
<1> DEFINE others == backlog \cup ({cur} \ {None})
<1>1. /\ pc' = [pc EXCEPT ![Server] = "dead"] /\ mem' = [mem EXCEPT ![Server] = Cleared]
      /\ ear' = [s \in Streams |->
                   IF \E c \in others : s = <<c, "down">> THEN Hangup(Server, s[1]) ELSE ear[s]]
      /\ wire' = [s \in Streams |-> IF \E c \in others : s = <<c, "up">> THEN <<>> ELSE wire[s]]
      /\ cur' = None /\ backlog' = {} /\ UNCHANGED <<calc, accepting>>
  BY DEF Die
<1>2. others \subseteq Clients
  BY <1>0 DEF TypeOK
<1>3. \A c \in Clients : c \in others <=> Held(c)
  BY Names DEF Held
<1> HIDE DEF others
<1>4. ASSUME NEW d \in Clients
      PROVE  /\ wire'[Up(d)] = IF Held(d) THEN <<>> ELSE wire[Up(d)]
             /\ wire'[Down(d)] = wire[Down(d)] /\ ear'[Up(d)] = ear[Up(d)]
             /\ ear'[Down(d)] = IF Held(d) THEN Hangup(Server, d) ELSE ear[Down(d)]
  <2>1. Up(d) \in Streams /\ Down(d) \in Streams /\ Up(d) = <<d, "up">> /\ Down(d) = <<d, "down">>
    BY StreamNames DEF Up, Down
  <2>2. /\ (\E c \in others : Up(d) = <<c, "up">>) <=> Held(d)
        /\ (\E c \in others : Down(d) = <<c, "down">>) <=> Held(d)
        /\ ~\E c \in others : Up(d) = <<c, "down">>
        /\ ~\E c \in others : Down(d) = <<c, "up">>
        /\ Down(d)[1] = d
    BY <1>2, <1>3, <2>1
  <2> QED
    BY <1>1, <2>1, <2>2
<1>5. /\ pc'[Server] = "dead"
      /\ \A c \in Clients : pc'[c] = pc[c] /\ mem'[c] = mem[c]
      /\ pc' \in [Ends -> {"start", "accept", "prompt", "send", "recv", "dead"}]
      /\ mem' \in [Ends -> Memory]
  BY <1>1, Parts, ClearedType, Names
<1>6. wire' \in [Streams -> Seq(Byte)] /\ ear' \in [Streams -> {"open", "fin", "rst", "broken"}]
  <2>1. /\ wire \in [Streams -> Seq(Byte)] /\ ear \in [Streams -> {"open", "fin", "rst", "broken"}]
        /\ <<>> \in Seq(Byte)
    BY Parts, EmptySeq
  <2>2. \A c \in Clients : Hangup(Server, c) \in {"open", "fin", "rst", "broken"}
    <3> TAKE c \in Clients
    <3>1. ear[Down(c)] \in {"open", "fin", "rst", "broken"}
      BY <1>0, Types
    <3> QED
      BY <3>1 DEF Hangup, Down
  <2>3. \A s \in Streams : s[1] \in Clients
    BY DEF Streams
  <2>4. \A s \in Streams : Hangup(Server, s[1]) \in {"open", "fin", "rst", "broken"}
    BY <2>2, <2>3
  <2> QED
    BY <1>1, <2>1, <2>4
<1>7. ServerInvariant'
  BY <1>1, <1>5, Names DEF ServerInvariant
<1>8. ASSUME NEW d \in Clients PROVE ClientInvariant(d)'
  <2>1. pc[d] = "start" => ~Held(d) /\ wire[Up(d)] = <<>> /\ ear[Down(d)] = "open"
    BY DEF Inv, CalcInvariant, ClientInvariant, KnownEnds
  <2>2. pc[d] = "start" => wire'[Up(d)] = <<>> /\ ear'[Down(d)] = "open"
    BY <1>4, <2>1
  <2> QED
    BY <1>1, <1>4, <1>5, <2>2, Names, LetGo
<1> QED
  BY <1>1, <1>5, <1>6, <1>7, <1>8, Parts, PartsNext

LEMMA StutterInv ==
  ASSUME Inv, AcceptFails \/ UNCHANGED vars
  PROVE  Inv'
<1>1. /\ UNCHANGED <<pc, cur, mem, calc, backlog, wire, ear>>
      /\ accepting' \in {accepting, "fails"}
  BY DEF AcceptFails, vars
<1>2. ServerInvariant'
  BY <1>1 DEF Inv, CalcInvariant, ServerInvariant
<1>3. ASSUME NEW d \in Clients PROVE ClientInvariant(d)'
  <2>1. Untouched(d)
    BY <1>1 DEF Untouched
  <2> QED
    BY <2>1, Frame DEF Inv, CalcInvariant
<1> QED
  BY <1>1, <1>2, <1>3, Parts, PartsNext

LEMMA DieInv ==
  ASSUME Inv, NEW e \in Ends, Kill(e) \/ SigPipe(e)
  PROVE  Inv'
<1>1. Die(e) /\ pc[e] \notin {"start", "dead"}
  BY DEF Kill, SigPipe
<1>2. CASE e = Server
  BY <1>1, <1>2, ServerDieInv
<1>3. CASE e \in Clients
  BY <1>1, <1>3, ClientDieInv
<1> QED
  BY <1>2, <1>3 DEF Ends

LEMMA NextInv == Inv /\ [Next]_vars => Inv'
<1> SUFFICES ASSUME Inv, [Next]_vars PROVE Inv'
  OBVIOUS
<1>1. CASE Listen
  BY <1>1, ListenInv
<1>2. CASE ServerStep
  <2>1. CASE \E c \in Clients : Accept(c)
    BY <2>1, AcceptInv
  <2>2. CASE ReadRequest
    BY <2>2, ReadRequestInv
  <2>3. CASE SendPiece(Server)
    BY <2>3, ServerSendInv
  <2>4. CASE LoseClient
    BY <2>4, LoseClientInv
  <2>5. CASE SigPipe(Server)
    BY <2>5, Names, DieInv
  <2> QED
    BY <1>2, <2>1, <2>2, <2>3, <2>4, <2>5 DEF ServerStep
<1>3. ASSUME NEW c \in Clients, Connect(c) \/ Prompt(c) \/ ClientStep(c) PROVE Inv'
  <2>1. CASE Connect(c)
    BY <2>1, ConnectInv
  <2>2. CASE Prompt(c)
    BY <2>2, PromptInv
  <2>3. CASE SendPiece(c)
    BY <2>3, ClientSendInv
  <2>4. CASE ReadReply(c)
    BY <2>4, ReadReplyInv
  <2>5. CASE SeeReset(c)
    BY <2>5, SeeResetInv
  <2>6. CASE SigPipe(c)
    BY <2>6, Names, DieInv
  <2> QED
    BY <1>3, <2>1, <2>2, <2>3, <2>4, <2>5, <2>6 DEF ClientStep
<1>4. CASE \E e \in Ends : Kill(e)
  BY <1>4, DieInv
<1>5. CASE AcceptFails \/ AllDead \/ UNCHANGED vars
  BY <1>5, StutterInv DEF AllDead
<1> QED
  BY <1>1, <1>2, <1>3, <1>4, <1>5 DEF Next

\* The inductive invariant holds: types, what the two ends know of each other,
\* how far they are in their buffers, and what an uncut exchange holds.
THEOREM CalcIsInvariant == Spec => []Inv
<1> QED
  BY InitInv, NextInv, PTL DEF Spec

\* The locals of client.c and server.c keep their types: no buffer is written
\* behind its end and every byte that is sent is a byte.
THEOREM TypeCorrect == Spec => []TypeOK
<1>1. Inv => TypeOK
  BY DEF Inv
<1> QED
  BY <1>1, CalcIsInvariant, PTL

\* However send and recv cut the bytes up, the two loops of client.c and
\* server.c never disagree about which calculation they are in.
THEOREM AlwaysInStep == Spec => []InStep
<1>1. Inv => InStep
  BY DEF Inv, CalcInvariant, ClientInvariant, InStep
<1> QED
  BY <1>1, CalcIsInvariant, PTL

\* The sum that client.c prints is the sum of the numbers entered, whatever the
\* size of a byte and the width of an operand, if no send or recv was short.
THEOREM UncutSumsAreRight == Spec => []SumsAreRight
<1>1. Inv => SumsAreRight
  BY DEF Inv, CalcInvariant, ClientInvariant, SumIsRight, SumsAreRight
<1> QED
  BY <1>1, CalcIsInvariant, PTL

\* A client that goes away makes send of server.c fail, or ends it with
\* SIGPIPE, only in the middle of a reply: when a part of it, and not all, was
\* sent.  Before the first byte of a reply the client cannot have left unread
\* data behind, and nothing that was sent after its end can be known of yet.
THEOREM OnlyACutReplyKills == Spec => []OnlyCutRepliesKill
<1>1. ASSUME Inv PROVE OnlyCutRepliesKill
  <2> SUFFICES ASSUME pc[Server] = "send", ear[In(Server)] \in {"rst", "broken"} 
                                 PROVE  mem[Server].length < WideWidth
    BY DEF OnlyCutRepliesKill
  <2>1. cur \in Clients
    BY <1>1 DEF Inv, TypeOK, CalcInvariant, ServerInvariant
  <2>2. Replied(cur) /\ ReplyIsWhole(cur) /\ In(Server) = Up(cur)
    BY <1>1, <2>1, ServerStreams DEF Inv, CalcInvariant, ClientInvariant, Replied
  <2>3. mem[Server].length \in 1 .. WideWidth /\ mem[Server].length # WideWidth
    BY <1>1, <2>1, <2>2 DEF Inv, CalcInvariant, ClientInvariant, BufferBounds, ReplyIsWhole
  <2> QED
    BY <2>3, Sizes
<1> QED
  BY <1>1, CalcIsInvariant, PTL

=============================================================================
