---------------------------- MODULE CPeerProofs ----------------------------
(***************************************************************************)
(* Theorems about CPeerFetch, for every set of peers, names and files and  *)
(* every width of the fields of an answer.                                 *)
(***************************************************************************)
EXTENDS CPeerFetch, ByteSequences

-----------------------------------------------------------------------------
(* The connection to the registry                                          *)

Waiting == pc \in {"id", "ip", "port"}

\* The requests that the program can send, and the answers to a SEARCH.
Requests == {join_request}
            \cup {publish_request(dir) : dir \in Dirs}
            \cup {search_request(n) : n \in Names}

Answers == {Reply[q] : q \in Owners} \cup {NotFound}

ConnTypes ==
  /\ fileName \in Names \cup {None}
  /\ up \in Seq(Requests)
  /\ line # "open" => up = <<>>

\* A SEARCH is under way only while the peer waits for its answer, and then it
\* is the last request.
SearchIsLast ==
  \A i \in 1 .. Len(up) : up[i].op = "search" =>
    i = Len(up) /\ pc = "id" /\ down = <<>> /\ up[i] = search_request(fileName)

\* What was received of the answer and what was not are the answer together.
AnswerIsWhole ==
  /\ got \in [1 .. 3 -> Seq(Nat)]
  /\ ~Waiting => down = <<>>
  /\ pc = "id" => shown = None
  /\ pc = "id" /\ down # <<>> => down = answer /\ answer \in Answers
  /\ pc = "ip" =>
       /\ down \in Seq(Nat) /\ answer \in Answers
       /\ Len(got[1]) = IdLen /\ got[1] \o down = answer
  /\ pc = "port" =>
       /\ down \in Seq(Nat) /\ answer \in Answers
       /\ Len(got[1]) = IdLen /\ Len(got[2]) = IpLen
       /\ (got[1] \o got[2]) \o down = answer
  /\ shown # None => shown = answer /\ answer \in Answers

\* Why the registry has not answered.
SilenceIsExplained ==
  pc = "id" /\ line = "open" /\ down = <<>> /\ ~swallowed =>
    \/ up # <<>> /\ up[Len(up)] = search_request(fileName)
    \/ up = <<>> /\ fileName \in Names
       /\ (~joined \/ NameLen[fileName] + 1 >= SearchLimit)

\* The peer that FETCH contacts.
TargetIsNamed ==
  /\ target # None => \E q \in Owners : target = Address(Reply[q])
  /\ pc = "connect" /\ shown # None /\ Usable(answer) => target = Address(answer)

ConnInv ==
  /\ ConnTypes
  /\ ~torn => SearchIsLast /\ AnswerIsWhole /\ SilenceIsExplained /\ TargetIsNamed

-----------------------------------------------------------------------------
(* The file                                                                *)

FileOf == Content[source][fileName]

\* What was received and what is under way are a start of the file, and the
\* whole of it if the contacted peer sent the whole.
FileIsOnTheWay ==
  /\ sent = "error" => file = <<>> /\ (feed = <<>> \/ (firstChunk /\ feed = <<1>>))
  /\ sent # "error" /\ FileOf = None => sent = "part" /\ file = <<>> /\ feed = <<>>
  /\ sent # "error" /\ FileOf # None /\ firstChunk =>
       file = <<>> /\ \E r \in Seq(Nat) : feed \o r = <<0>> \o FileOf /\ (sent = "whole" => r = <<>>)
  /\ sent # "error" /\ FileOf # None /\ ~firstChunk =>
       \E r \in Seq(Nat) : file \o (feed \o r) = FileOf /\ (sent = "whole" => r = <<>>)

FileInv ==
  /\ pc \in {"receive", "connect"} => cmd = "fetch"
  /\ pc = "receive" => source # None
  /\ cmd = "fetch" => fileName \in Names
  /\ cmd = "fetch" /\ pc \in {"id", "ip", "port", "connect", "receive"} => said # "fetched"
  /\ cmd = "fetch" /\ pc \in {"id", "ip", "port", "connect"} => source = None
  /\ cmd = "fetch" /\ source # None =>
       /\ source \in Owners
       /\ file \in Seq(Nat) /\ feed \in Seq(Nat)
       /\ said = "fetched" => feed = <<>>
       /\ FileIsOnTheWay
-----------------------------------------------------------------------------
(* Requests and answers                                                    *)

LEMMA Widths ==
  /\ IdLen \in Nat \ {0} /\ IpLen \in Nat \ {0} /\ PortLen \in Nat \ {0}
  /\ AnswerLen \in Nat \ {0} /\ AnswerLen = IdLen + IpLen + PortLen
BY CPeerAssumption DEF AnswerLen

LEMMA NameLenType == ASSUME NEW n \in Names PROVE NameLen[n] \in Nat
<1>1. NameLen[n] \in 1 .. 100
  BY CPeerAssumption, Zenon
<1>2. 1 .. 100 \subseteq Nat
  OBVIOUS
<1> QED
  BY <1>1, <1>2, Zenon

\* Every answer has the bytes of its three fields.
LEMMA AnswerType == ASSUME NEW a \in Answers PROVE a \in Seq(Nat) /\ Len(a) = AnswerLen
<1>1. a \in [1 .. AnswerLen -> Nat]
  BY CPeerAssumption, Widths DEF Answers, NotFound
<1> QED
  BY <1>1, Widths

\* One round of the loop of publish, for a name of d characters.
Round(l, d) ==
  IF l.full \/ ~Fits(l.offset, d) THEN [l EXCEPT !.full = TRUE]
  ELSE [l EXCEPT !.offset = @ + d + 1]

Start == [offset |-> 5, full |-> FALSE]

Rounds(f, dir, k) == f = [j \in 0 .. k |-> IF j = 0 THEN Start ELSE Round(f[j - 1], dir[j])]

LEMMA RoundsExist == ASSUME NEW dir \in Seq(Nat) PROVE \E f : Rounds(f, dir, Len(dir))
<1> DEFINE S == {k \in Nat : \E f : Rounds(f, dir, k)}
<1>1. 0 \in S
  <2>1. Rounds([j \in 0 .. 0 |-> Start], dir, 0)
    BY DEF Rounds
  <2> QED
    BY <2>1
<1>2. ASSUME NEW k \in Nat, k \in S PROVE k + 1 \in S
  <2>1. PICK f : Rounds(f, dir, k)
    BY <1>2
  <2> DEFINE h == [j \in 0 .. k + 1 |-> IF j = k + 1 THEN Round(f[k], dir[k + 1]) ELSE f[j]]
  <2>2. \A j \in 0 .. k + 1 : h[j] = IF j = 0 THEN Start ELSE Round(h[j - 1], dir[j])
    BY <2>1 DEF Rounds
  <2>3. Rounds(h, dir, k + 1)
    BY <2>2 DEF Rounds
  <2> HIDE DEF h
  <2> QED
    BY <2>3
<1> HIDE DEF S
<1>3. Len(dir) \in S
  BY <1>1, <1>2, Induction, SMTT(40)
<1> QED
  BY <1>3 DEF S

LEMMA OffsetIs ==
  ASSUME NEW dir \in Seq(Nat)
  PROVE  \E f : Rounds(f, dir, Len(dir)) /\ Offset(dir) = f[Len(dir)].offset
<1> DEFINE after[k \in 0 .. Len(dir)] ==
             IF k = 0 THEN [offset |-> 5, full |-> FALSE]
             ELSE LET l == after[k - 1] IN
                  IF l.full \/ ~Fits(l.offset, dir[k]) THEN [l EXCEPT !.full = TRUE]
                  ELSE [l EXCEPT !.offset = @ + dir[k] + 1]
<1>1. Offset(dir) = after[Len(dir)].offset
  BY DEF Offset
<1>2. Rounds(after, dir, Len(dir))
  BY RoundsExist DEF Rounds, Round, Start
<1> HIDE DEF after
<1> QED
  BY <1>1, <1>2

LEMMA RoomLeft ==
  ASSUME NEW o \in 5 .. BufferSize - 1, NEW d \in 1 .. 255, Fits(o, d)
  PROVE  o + d + 1 \in 5 .. BufferSize - 1
BY DEF Fits, BufferSize

\* publish never fills its buffer, whatever is in the directory.
LEMMA OffsetBound == ASSUME NEW dir \in Dirs PROVE Offset(dir) \in 5 .. BufferSize - 1
<1>1. dir \in Seq(1 .. 255) /\ dir \in Seq(Nat)
  <2>1. dir \in Seq(1 .. 255)
    BY CPeerAssumption, Zenon
  <2>2. 1 .. 255 \subseteq Nat
    OBVIOUS
  <2> QED
    BY <2>1, <2>2, SeqMonotonic, Zenon
<1>2. PICK f : Rounds(f, dir, Len(dir)) /\ Offset(dir) = f[Len(dir)].offset
  BY <1>1, OffsetIs
<1> DEFINE L == [offset : 5 .. BufferSize - 1, full : BOOLEAN]
           S == {k \in Nat : k <= Len(dir) => f[k] \in L}
<1>3. Start \in L
  BY DEF Start, BufferSize
<1>4. ASSUME NEW l \in L, NEW d \in 1 .. 255 PROVE Round(l, d) \in L
  <2>1. CASE l.full \/ ~Fits(l.offset, d)
    <3>1. Round(l, d) = [l EXCEPT !.full = TRUE]
      BY <2>1 DEF Round
    <3> QED
      BY <3>1, ZenonT(40)
  <2>2. CASE ~(l.full \/ ~Fits(l.offset, d))
    <3> DEFINE e == l.offset + d + 1
    <3>1. l.offset \in 5 .. BufferSize - 1
      OBVIOUS
    <3>2. e \in 5 .. BufferSize - 1
      <4>1. Fits(l.offset, d)
        BY <2>2, Zenon
      <4> QED
        BY <3>1, <4>1, RoomLeft, Zenon
    <3>3. Round(l, d) = [l EXCEPT !.offset = e]
      BY <2>2, Zenon DEF Round
    <3> HIDE DEF e
    <3> QED
      BY <3>2, <3>3, ZenonT(40)
  <2> QED
    BY <2>1, <2>2
<1>5. 0 \in S
  BY <1>2, <1>3 DEF Rounds
<1>6. ASSUME NEW k \in Nat, k \in S, k + 1 <= Len(dir) PROVE f[k + 1] \in L
  <2>1. f[k + 1] = Round(f[k], dir[k + 1])
    BY <1>2, <1>6 DEF Rounds
  <2>2. f[k] \in L
    BY <1>1, <1>6
  <2>3. dir[k + 1] \in 1 .. 255
    <3>1. k + 1 \in 1 .. Len(dir)
      BY <1>1, <1>6
    <3> QED
      BY <1>1, <3>1, ElementOfSeq
  <2> HIDE DEF L
  <2> QED
    BY <1>4, <2>1, <2>2, <2>3, Zenon
<1>7. \A k \in Nat : k \in S => k + 1 \in S
  BY <1>6
<1> HIDE DEF S, L
<1>8. Len(dir) \in S
  BY <1>1, <1>5, <1>7, Induction, SMTT(40)
<1>9. f[Len(dir)] \in L
  BY <1>1, <1>8 DEF S
<1> QED
  BY <1>2, <1>9 DEF L

LEMMA RequestType ==
  ASSUME NEW m \in Requests
  PROVE  /\ m.op \in {"join", "publish", "search"}
         /\ m.op = "publish" => m.len < PublishLimit
         /\ m.op = "search" => \E n \in Names : m = search_request(n)
<1>1. CASE m = join_request
  BY <1>1 DEF join_request
<1>2. ASSUME NEW dir \in Dirs, m = publish_request(dir)
      PROVE  m.op = "publish" /\ m.len < PublishLimit
  <2>1. Offset(dir) \in 5 .. BufferSize - 1
    BY OffsetBound
  <2>2. m.op = "publish" /\ m.len = Offset(dir) - 1
    BY <1>2 DEF publish_request
  <2> QED
    BY <2>1, <2>2 DEF BufferSize, PublishLimit
<1>3. ASSUME NEW n \in Names, m = search_request(n)
      PROVE  m.op = "search"
  BY <1>3 DEF search_request
<1> QED
  BY <1>1, <1>2, <1>3 DEF Requests

LEMMA SearchType ==
  ASSUME NEW n
  PROVE  LET m == search_request(n)
         IN  m.op = "search" /\ m.len = NameLen[n] + 1 /\ m.name = n /\ m.eightbit = EightBit[n]
BY DEF search_request

-----------------------------------------------------------------------------
(* ConnInv is inductive                                                    *)

LEMMA ConnStutter == ASSUME ConnInv, UNCHANGED fetchVars PROVE ConnInv'
BY DEF ConnInv, ConnTypes, SearchIsLast, AnswerIsWhole, SilenceIsExplained, TargetIsNamed,
       Waiting, fetchVars, vars

\* A step that has nothing to do with the registry.
LEMMA QuietStep ==
  ASSUME ConnInv, UNCHANGED <<fileName, got, shown, up, down, line, joined>>,
         UNCHANGED <<answer, torn, swallowed, target>>,
         ~Waiting, ~Waiting', pc' # "connect" \/ pc' = pc
  PROVE  ConnInv'
<1>1. ConnTypes'
  BY DEF ConnInv, ConnTypes
<1>2. ASSUME ~torn' PROVE SearchIsLast' /\ AnswerIsWhole'
  BY <1>2 DEF ConnInv, SearchIsLast, AnswerIsWhole, Waiting
<1>3. ASSUME ~torn' PROVE SilenceIsExplained' /\ TargetIsNamed'
  BY <1>3 DEF ConnInv, SilenceIsExplained, TargetIsNamed, Waiting
<1> QED
  BY <1>1, <1>2, <1>3 DEF ConnInv

LEMMA MainConn == ASSUME ConnInv, main PROVE ConnInv'
BY QuietStep DEF main, Unrelated, Connect, network, history, Waiting

LEMMA ExitConn == ASSUME ConnInv, Exit \/ EndOfInput, UNCHANGED target PROVE ConnInv'
BY QuietStep DEF Exit, EndOfInput, network, history, Waiting

LEMMA ContactPeerConn == ASSUME ConnInv, ContactPeer PROVE ConnInv'
BY QuietStep DEF ContactPeer, network, history, Waiting

LEMMA OverrunConn == ASSUME ConnInv, OverrunFetchBuffer PROVE ConnInv'
BY QuietStep DEF OverrunFetchBuffer, network, history, Waiting

LEMMA ContactFailsConn == ASSUME ConnInv, ContactFails PROVE ConnInv'
BY QuietStep DEF ContactFails, network, history, Waiting

LEMMA ReceiveChunkConn == ASSUME ConnInv, ReceiveChunk PROVE ConnInv'
BY QuietStep DEF ReceiveChunk, vars, Waiting

LEMMA EndOfFileConn == ASSUME ConnInv, EndOfFile PROVE ConnInv'
BY QuietStep DEF EndOfFile, network, history, Waiting

\* A request is added to those under way, or lost.
LEMMA Queued ==
  ASSUME ConnTypes, NEW m \in Requests
  PROVE  /\ Append(up, m) \in Seq(Requests)
         /\ Len(up) \in Nat
         /\ Len(Append(up, m)) = Len(up) + 1
         /\ \A i \in 1 .. Len(up) : Append(up, m)[i] = up[i]
         /\ Append(up, m)[Len(up) + 1] = m
<1>1. up \in Seq(Requests)
  BY DEF ConnTypes
<1> QED
  BY <1>1

LEMMA Triple ==
  ASSUME NEW S, NEW a \in S
  PROVE  <<a, a, a>> \in [1 .. 3 -> S]
OBVIOUS

LEMMA NoBytesType == NoBytes \in [1 .. 3 -> Seq(Nat)]
BY Triple, Empty, Zenon DEF NoBytes

LEMMA SentConn ==
  ASSUME ConnInv, NEW m \in Requests, m.op # "search", Send(m, "prompt", "prompt"),
         UNCHANGED <<cmd, fileName, shown, answer, swallowed, target>>
  PROVE  ConnInv'
<1>1. /\ pc = "prompt" /\ pc' \in {"prompt", "dead"}
      /\ got' = NoBytes /\ UNCHANGED <<down, joined, torn>>
  BY DEF Send
<1>2. \/ line = "open" /\ line' = "open" /\ up' = Append(up, m)
      \/ line # "open" /\ line' # "open" /\ up' = up
  BY DEF Send
<1>3. ConnTypes'
  BY <1>2, Queued DEF ConnInv, ConnTypes
<1>4. ASSUME ~torn' PROVE SearchIsLast'
  <2>1. \A i \in 1 .. Len(up) : up[i].op # "search"
    BY <1>1, <1>4 DEF ConnInv, SearchIsLast
  <2>2. \A i \in 1 .. Len(up') : up'[i].op # "search"
    <3>1. CASE up' = up
      BY <2>1, <3>1
    <3>2. CASE up' = Append(up, m)
      <4> TAKE i \in 1 .. Len(up')
      <4>1. i \in 1 .. Len(up) \/ i = Len(up) + 1
        BY <3>2, Queued DEF ConnInv
      <4> QED
        BY <2>1, <3>2, <4>1, Queued, Zenon DEF ConnInv
    <3> QED
      BY <1>2, <3>1, <3>2
  <2> QED
    BY <2>2 DEF SearchIsLast
<1>5. ASSUME ~torn' PROVE AnswerIsWhole'
  <2>1. NoBytes \in [1 .. 3 -> Seq(Nat)]
    BY NoBytesType
  <2> QED
    BY <1>1, <1>5, <2>1 DEF ConnInv, AnswerIsWhole, Waiting
<1>6. ASSUME ~torn' PROVE SilenceIsExplained' /\ TargetIsNamed'
  BY <1>1, <1>6 DEF ConnInv, SilenceIsExplained, TargetIsNamed
<1> QED
  BY <1>3, <1>4, <1>5, <1>6 DEF ConnInv

LEMMA AskConn ==
  ASSUME ConnInv, NEW n \in Names, NEW how, NEW back \in {"prompt", "connect"}, Ask(n, how, back),
         UNCHANGED target
  PROVE  ConnInv'
<1> DEFINE m == search_request(n)
<1>0. m \in Requests /\ m.op = "search"
  BY SearchType DEF Requests
<1>1. /\ pc = "prompt" /\ pc' \in {"id", "prompt", "connect", "dead"}
      /\ got' = NoBytes /\ UNCHANGED <<down, joined, torn>>
      /\ fileName' = n /\ shown' = None /\ answer' = None /\ swallowed' = FALSE
  BY DEF Ask, Send
<1>2. \/ line = "open" /\ line' = "open" /\ pc' = "id" /\ up' = Append(up, m)
      \/ line # "open" /\ line' # "open" /\ up' = up
  BY DEF Ask, Send
<1> HIDE DEF m
<1>3. ConnTypes'
  BY <1>0, <1>1, <1>2, Queued DEF ConnInv, ConnTypes
<1>4. ASSUME ~torn' PROVE SearchIsLast'
  <2>1. /\ \A i \in 1 .. Len(up) : up[i].op # "search"
        /\ down' = <<>>
    BY <1>1, <1>4 DEF ConnInv, SearchIsLast, AnswerIsWhole, Waiting
  <2>2. CASE up' = up
    BY <2>1, <2>2 DEF SearchIsLast
  <2>3. CASE up' = Append(up, m) /\ pc' = "id"
    <3>1. Len(up') = Len(up) + 1 /\ up'[Len(up) + 1] = m /\ Len(up) \in Nat
          /\ \A i \in 1 .. Len(up) : up'[i] = up[i]
      BY <1>0, <2>3, Queued, Zenon DEF ConnInv
    <3>2. ASSUME NEW i \in 1 .. Len(up'), up'[i].op = "search" PROVE i = Len(up') /\ up'[i] = m
      <4>1. i \in 1 .. Len(up) \/ i = Len(up) + 1
        BY <3>1
      <4> QED
        BY <2>1, <3>1, <3>2, <4>1, Zenon
    <3> QED
      BY <1>1, <2>1, <2>3, <3>2 DEF SearchIsLast, m
  <2> QED
    BY <1>2, <2>2, <2>3
<1>5. ASSUME ~torn' PROVE AnswerIsWhole'
  <2>1. NoBytes \in [1 .. 3 -> Seq(Nat)]
    BY NoBytesType
  <2>2. down' = <<>>
    BY <1>1, <1>5 DEF ConnInv, AnswerIsWhole, Waiting
  <2> QED
    BY <1>1, <1>5, <2>1, <2>2 DEF AnswerIsWhole, Waiting
<1>6. ASSUME ~torn' PROVE SilenceIsExplained'
  <2>1. ASSUME line' = "open" PROVE up' # <<>> /\ up'[Len(up')] = m
    BY <1>0, <1>2, <2>1, Queued DEF ConnInv
  <2> QED
    BY <1>1, <2>1 DEF SilenceIsExplained, m
<1>7. ASSUME ~torn' PROVE TargetIsNamed'
  BY <1>1, <1>7 DEF ConnInv, TargetIsNamed
<1> QED
  BY <1>3, <1>4, <1>5, <1>6, <1>7 DEF ConnInv

\* A recv that does not tear the answer takes a whole field, or finds the end
\* of the stream.
LEMMA RecvIs ==
  ASSUME NEW want \in Nat \ {0}, down \in Seq(Nat), NEW s \in Prefixes(down), Recv(want, s), ~torn'
  PROVE  /\ ~torn
         /\ \/ down = <<>> /\ s = <<>> /\ down' = <<>> /\ line # "open" /\ line' # "open"
            \/ /\ down # <<>> /\ s # <<>> /\ line' = line
               /\ s \in Seq(Nat) /\ Len(s) = want
               /\ down' \in Seq(Nat) /\ Joins(s, down', down)
<1>1. CASE down = <<>>
  BY <1>1 DEF Recv
<1>2. CASE down # <<>>
  <2>1. /\ s # <<>> /\ Len(s) <= want /\ ~(torn \/ Len(s) < want)
        /\ down' = SubSeq(down, Len(s) + 1, Len(down)) /\ line' = line
    BY <1>2 DEF Recv
  <2>2. PICK k \in 0 .. Len(down) : s = SubSeq(down, 1, k)
    BY DEF Prefixes
  <2>3. s \in Seq(Nat) /\ Len(s) = k
    BY <2>2, Split, Zenon
  <2>4. down' \in Seq(Nat) /\ Joins(s, down', down)
    BY <2>1, <2>2, <2>3, Split, Zenon DEF Joins
  <2>5. Len(s) = want
    BY <2>1, <2>3
  <2> QED
    BY <1>2, <2>1, <2>3, <2>4, <2>5, Zenon
<1> QED
  BY <1>1, <1>2

LEMMA RecvTypes ==
  ASSUME ConnInv, NEW want, NEW s, Recv(want, s), UNCHANGED <<fileName, up>>
  PROVE  ConnTypes' /\ (torn => torn')
BY DEF ConnInv, ConnTypes, Recv

LEMMA RecvIdConn == ASSUME ConnInv, RecvId, UNCHANGED target PROVE ConnInv'
<1>1. PICK s \in Prefixes(down) :
        /\ Recv(IdLen, s)
        /\ pc' = (IF s = <<>> THEN Back ELSE "ip")
        /\ got' = [got EXCEPT ![1] = s]
  BY DEF RecvId
<1>2. pc = "id" /\ UNCHANGED <<fileName, shown, up, joined, answer, swallowed>>
  BY DEF RecvId
<1>3. ConnTypes' /\ (torn => torn')
  BY <1>1, <1>2, RecvTypes
<1>4. ASSUME ~torn' PROVE SearchIsLast' /\ AnswerIsWhole' /\ SilenceIsExplained' /\ TargetIsNamed'
  <2>1. SearchIsLast /\ AnswerIsWhole /\ TargetIsNamed
    BY <1>3, <1>4 DEF ConnInv
  <2>2. down \in Seq(Nat) /\ shown' = None
    BY <1>2, <2>1, AnswerType, Empty DEF AnswerIsWhole
  <2>3. \/ down = <<>> /\ s = <<>> /\ down' = <<>> /\ line # "open" /\ line' # "open"
        \/ /\ down # <<>> /\ s # <<>> /\ line' = line
           /\ s \in Seq(Nat) /\ Len(s) = IdLen
           /\ down' \in Seq(Nat) /\ Joins(s, down', down)
    BY <1>1, <1>4, <2>2, RecvIs, Widths
  <2>4. CASE down = <<>>
    <3>1. s = <<>> /\ down' = <<>> /\ pc' \in {"connect", "prompt"} /\ line # "open"
      BY <1>1, <2>3, <2>4 DEF Back
    <3>2. up' = <<>>
      BY <1>2, <3>1 DEF ConnInv, ConnTypes
    <3>3. got' \in [1 .. 3 -> Seq(Nat)]
      BY <1>1, <2>1, <3>1, Empty DEF AnswerIsWhole
    <3>4. SearchIsLast'
      BY <3>2 DEF SearchIsLast
    <3>5. AnswerIsWhole'
      BY <2>2, <3>1, <3>3 DEF AnswerIsWhole, Waiting
    <3> QED
      BY <2>1, <2>2, <3>1, <3>4, <3>5 DEF SilenceIsExplained, TargetIsNamed
  <2>5. CASE down # <<>>
    <3>1. /\ s \in Seq(Nat) /\ Len(s) = IdLen /\ down' \in Seq(Nat) /\ s \o down' = down
          /\ pc' = "ip"
      BY <1>1, <2>3, <2>5 DEF Joins
    <3>2. down = answer /\ answer \in Answers
      BY <1>2, <2>1, <2>5 DEF AnswerIsWhole
    <3>3. got' \in [1 .. 3 -> Seq(Nat)] /\ got'[1] = s
      BY <1>1, <2>1, <3>1 DEF AnswerIsWhole
    <3>4. SearchIsLast'
      BY <1>2, <2>1, <2>5 DEF SearchIsLast
    <3>5. got'[1] \o down' = answer'
      BY <1>2, <3>1, <3>2, <3>3, Zenon
    <3>6. AnswerIsWhole'
      BY <1>2, <2>2, <3>1, <3>2, <3>3, <3>5 DEF AnswerIsWhole, Waiting
    <3> QED
      BY <2>1, <3>1, <3>4, <3>6 DEF SilenceIsExplained, TargetIsNamed
  <2> QED
    BY <2>4, <2>5
<1> QED
  BY <1>3, <1>4 DEF ConnInv

LEMMA RecvIpConn == ASSUME ConnInv, RecvIp, UNCHANGED target PROVE ConnInv'
<1>1. PICK s \in Prefixes(down) : Recv(IpLen, s) /\ got' = [got EXCEPT ![2] = s]
  BY DEF RecvIp
<1>2. /\ pc = "ip" /\ pc' = "port"
      /\ UNCHANGED <<fileName, shown, up, joined, answer, swallowed>>
  BY DEF RecvIp
<1>3. ConnTypes' /\ (torn => torn')
  BY <1>1, <1>2, RecvTypes
<1>4. ASSUME ~torn' PROVE SearchIsLast' /\ AnswerIsWhole' /\ SilenceIsExplained' /\ TargetIsNamed'
  <2> DEFINE g == got[1]
             a == g \o s
  <2>1. SearchIsLast /\ AnswerIsWhole /\ TargetIsNamed
    BY <1>3, <1>4 DEF ConnInv
  <2>2. /\ down \in Seq(Nat) /\ answer \in Answers /\ g \in Seq(Nat)
        /\ Len(g) = IdLen /\ g \o down = answer
    BY <1>2, <2>1 DEF AnswerIsWhole
  <2>3. down # <<>>
    <3>1. Len(g \o down) = Len(g) + Len(down) /\ Len(down) \in Nat
      BY <2>2, Concat
    <3>2. Len(answer) = AnswerLen
      BY <2>2, AnswerType
    <3>3. Len(down) = IpLen + PortLen
      BY <2>2, <3>1, <3>2, Widths
    <3> QED
      BY <3>3, Widths
  <2>4. s \in Seq(Nat) /\ Len(s) = IpLen /\ down' \in Seq(Nat) /\ Joins(s, down', down)
    BY <1>1, <1>4, <2>2, <2>3, RecvIs, Widths
  <2>5. got' \in [1 .. 3 -> Seq(Nat)] /\ got'[1] = g /\ got'[2] = s
    BY <1>1, <2>1, <2>4 DEF AnswerIsWhole
  <2>6. Joins(g, s, a) /\ Joins(g, down, answer)
    BY <2>2 DEF Joins
  <2> HIDE DEF g, a
  <2>7. Joins(a, down', answer)
    BY <2>2, <2>4, <2>6, Regroup
  <2>8. (got'[1] \o got'[2]) \o down' = answer
    BY <2>5, <2>6, <2>7, Zenon DEF Joins
  <2>9. SearchIsLast'
    BY <1>2, <2>1 DEF SearchIsLast
  <2>10. AnswerIsWhole'
    BY <1>2, <2>1, <2>2, <2>4, <2>5, <2>8 DEF AnswerIsWhole, Waiting
  <2> QED
    BY <1>2, <2>1, <2>9, <2>10 DEF SilenceIsExplained, TargetIsNamed
<1> QED
  BY <1>3, <1>4 DEF ConnInv

\* The last recv of an answer that was not torn completes it.
LEMMA LastField ==
  ASSUME ConnInv, RecvPort, ~torn'
  PROVE  ~torn /\ shown' = answer /\ answer \in Answers /\ down' = <<>> /\ got' = NoBytes
<1>1. PICK s \in Prefixes(down) :
        /\ Recv(PortLen, s)
        /\ shown' = IF Complete(got[1] \o got[2] \o s) THEN got[1] \o got[2] \o s ELSE None
        /\ got' = NoBytes
  BY DEF RecvPort
<1> DEFINE a == got[1] \o got[2]
<1>2. pc = "port" /\ ~torn
  BY <1>1, RecvTypes DEF RecvPort
<1>3. /\ got[1] \in Seq(Nat) /\ got[2] \in Seq(Nat) /\ answer \in Answers /\ down \in Seq(Nat)
      /\ Len(got[1]) = IdLen /\ Len(got[2]) = IpLen /\ a \o down = answer
  BY <1>2 DEF ConnInv, AnswerIsWhole
<1>4. a \in Seq(Nat) /\ Len(a) = IdLen + IpLen
  BY <1>3, Concat
<1> HIDE DEF a
<1>5. answer \in Seq(Nat) /\ Len(answer) = AnswerLen
  BY <1>3, AnswerType
<1>6. Len(down) = PortLen
  <2>1. Len(a \o down) = Len(a) + Len(down) /\ Len(down) \in Nat
    BY <1>3, <1>4, Concat
  <2> QED
    BY <1>3, <1>4, <1>5, <2>1, Widths
<1>7. s \in Seq(Nat) /\ Len(s) = PortLen /\ down' \in Seq(Nat) /\ Joins(s, down', down)
  <2>1. down # <<>>
    BY <1>6, Widths
  <2> QED
    BY <1>1, <1>3, <2>1, RecvIs, Widths
<1>8. down' = <<>> /\ s = down
  <2>1. Len(s \o down') = Len(s) + Len(down') /\ Len(down') \in Nat
    BY <1>7, Concat, LenProperties, Zenon
  <2>2. Len(down') = 0
    <3>1. Len(s \o down') = Len(down)
      BY <1>7, Zenon DEF Joins
    <3> QED
      BY <1>6, <1>7, <2>1, <3>1, Widths
  <2>3. down' = <<>>
    BY <1>7, <2>2
  <2>4. s \o <<>> = s
    BY <1>7, Unit
  <2> QED
    BY <1>7, <2>3, <2>4, Zenon DEF Joins
<1>9. Complete(a \o s)
  BY <1>3, <1>5, <1>8, Widths DEF Complete
<1>10. shown' = a \o s
  BY <1>1, <1>9 DEF a
<1> QED
  BY <1>1, <1>2, <1>3, <1>8, <1>10

\* An answer that says something names a peer.
LEMMA UsableIsReply == ASSUME NEW r \in Answers, Usable(r) PROVE \E q \in Owners : r = Reply[q]
<1> SUFFICES ASSUME r = NotFound PROVE FALSE
  BY DEF Answers
<1>1. IdLen \in Nat /\ IdLen <= AnswerLen
  BY Widths
<1>2. NotFound \in Seq(Nat) /\ Len(NotFound) = AnswerLen /\ \A i \in 1 .. AnswerLen : NotFound[i] = 0
  BY AnswerType DEF NotFound
<1>3. Len(Id(NotFound)) = IdLen /\ \A i \in 1 .. IdLen : Id(NotFound)[i] = NotFound[i]
  BY <1>1, <1>2 DEF Id
<1>4. \A i \in 1 .. Len(Id(NotFound)) : Id(NotFound)[i] = 0
  BY <1>1, <1>2, <1>3
<1> QED
  BY <1>4 DEF Usable, NonZero

LEMMA RecvPortConn ==
  ASSUME ConnInv, RecvPort,
         \/ cmd # "fetch" /\ target' = target
         \/ target' = Remember(shown')
  PROVE  ConnInv'
<1>1. /\ pc = "port" /\ pc' \in {"prompt", "connect"} /\ (cmd # "fetch" => pc' = "prompt")
      /\ UNCHANGED <<fileName, up, joined, answer, swallowed>>
  BY DEF RecvPort, Back
<1>2. ConnTypes' /\ (torn => torn')
  BY <1>1, RecvTypes DEF RecvPort
<1>3. ASSUME ~torn' PROVE SearchIsLast' /\ AnswerIsWhole' /\ SilenceIsExplained' /\ TargetIsNamed'
  <2>1. SearchIsLast /\ TargetIsNamed
    BY <1>2, <1>3 DEF ConnInv
  <2>2. shown' = answer /\ answer \in Answers /\ down' = <<>> /\ got' = NoBytes
    BY <1>3, LastField
  <2>3. SearchIsLast'
    BY <1>1, <2>1 DEF SearchIsLast
  <2>4. AnswerIsWhole'
    BY <1>1, <2>2, NoBytesType DEF AnswerIsWhole, Waiting
  <2>5. ASSUME target' # None PROVE \E q \in Owners : target' = Address(Reply[q])
    <3>1. CASE target' = target
      BY <2>1, <2>5, <3>1 DEF TargetIsNamed
    <3>2. CASE target' # target
      <4>1. Usable(answer) /\ target' = Address(answer)
        BY <2>2, <3>2 DEF Remember
      <4>2. PICK q \in Owners : answer = Reply[q]
        BY <2>2, <4>1, UsableIsReply
      <4> QED
        BY <4>1, <4>2, Zenon
    <3> QED
      BY <3>1, <3>2
  <2>6. ASSUME pc' = "connect", Usable(answer) PROVE target' = Address(answer)
    BY <1>1, <2>2, <2>6 DEF Remember
  <2>7. TargetIsNamed'
    <3>1. answer' = answer
      BY <1>1
    <3> QED
      BY <2>5, <2>6, <3>1, Zenon DEF TargetIsNamed
  <2> QED
    BY <1>1, <2>3, <2>4, <2>7 DEF SilenceIsExplained
<1> QED
  BY <1>2, <1>3 DEF ConnInv

LEMMA LoseLineConn == ASSUME ConnInv, LoseLine, UNCHANGED target PROVE ConnInv'
<1>1. /\ line' # "open" /\ up' = <<>>
      /\ UNCHANGED <<pc, fileName, got, shown, down, answer, torn>>
  BY DEF LoseLine, peerState, history
<1>2. ConnTypes'
  <2>1. <<>> \in Seq(Requests)
    OBVIOUS
  <2> QED
    BY <1>1, <2>1 DEF ConnInv, ConnTypes
<1>3. ASSUME ~torn' PROVE SearchIsLast' /\ AnswerIsWhole' /\ SilenceIsExplained' /\ TargetIsNamed'
  BY <1>1, <1>3, SMTT(40) DEF ConnInv, SearchIsLast, AnswerIsWhole, SilenceIsExplained, TargetIsNamed, Waiting
<1> QED
  BY <1>2, <1>3 DEF ConnInv

-----------------------------------------------------------------------------
(* The registry takes requests                                             *)

\* The registry received the first k requests.
LEMMA Shorter ==
  ASSUME ConnTypes, NEW k \in 1 .. Len(up), up' = SubSeq(up, k + 1, Len(up))
  PROVE  /\ up' \in Seq(Requests)
         /\ Len(up) \in Nat /\ Len(up') = Len(up) - k
         /\ \A i \in 1 .. Len(up') : i + k \in 1 .. Len(up) /\ up'[i] = up[i + k]
         /\ up[1] \in Requests
<1>1. up \in Seq(Requests) /\ Len(up) \in Nat /\ k + 1 \in Int
  BY DEF ConnTypes
<1>2. \A i \in k + 1 .. Len(up) : up[i] \in Requests
  BY <1>1
<1> QED
  BY <1>1, <1>2

\* A JOIN or a PUBLISH is taken, and whatever came in with it.
LEMMA TakenConn ==
  ASSUME ConnInv, NEW k \in 1 .. Len(up), up[1].op # "search", Taken(k),
         UNCHANGED <<down, answer, torn, target>>
  PROVE  ConnInv'
<1>1. /\ up' = SubSeq(up, k + 1, Len(up))
      /\ swallowed' = (swallowed \/ \E i \in 2 .. k : up[i].op = "search")
      /\ UNCHANGED <<pc, fileName, got, shown, line>>
  BY DEF Taken, peerState
<1>2. /\ up' \in Seq(Requests) /\ Len(up) \in Nat /\ Len(up') = Len(up) - k
      /\ \A i \in 1 .. Len(up') : i + k \in 1 .. Len(up) /\ up'[i] = up[i + k]
  BY <1>1, Shorter DEF ConnInv
<1>3. ConnTypes'
  <2>1. ASSUME line # "open" PROVE FALSE
    BY <1>2, <2>1 DEF ConnInv, ConnTypes
  <2> QED
    BY <1>1, <1>2, <2>1 DEF ConnInv, ConnTypes
<1>4. ASSUME ~torn' PROVE SearchIsLast' /\ AnswerIsWhole' /\ SilenceIsExplained' /\ TargetIsNamed'
  <2>1. SearchIsLast /\ AnswerIsWhole /\ SilenceIsExplained /\ TargetIsNamed
    BY <1>4 DEF ConnInv
  <2>2. SearchIsLast'
    <3>1. ASSUME NEW i \in 1 .. Len(up'), up'[i].op = "search"
          PROVE  i = Len(up') /\ pc = "id" /\ down = <<>> /\ up'[i] = search_request(fileName)
      <4>1. i + k \in 1 .. Len(up) /\ up[i + k].op = "search" /\ up'[i] = up[i + k]
        BY <1>2, <3>1
      <4>2. i + k = Len(up) /\ pc = "id" /\ down = <<>> /\ up[i + k] = search_request(fileName)
        BY <2>1, <4>1, Zenon DEF SearchIsLast
      <4>3. i = Len(up')
        <5>1. Len(up') \in Nat
          BY <1>2, LenProperties, Zenon
        <5>2. i \in Nat /\ k \in Nat
          BY <1>2, <5>1
        <5>3. Len(up') = Len(up) - k /\ Len(up) \in Nat /\ i + k = Len(up)
          BY <1>2, <4>2, Zenon
        <5> QED
          BY <5>2, <5>3
      <4> QED
        BY <4>1, <4>2, <4>3, Zenon
    <3> QED
      BY <1>1, <3>1 DEF SearchIsLast
  <2>3. AnswerIsWhole' /\ TargetIsNamed'
    BY <1>1, <2>1 DEF AnswerIsWhole, TargetIsNamed, Waiting
  <2>4. SilenceIsExplained'
    <3> SUFFICES ASSUME pc = "id", line = "open", down = <<>>, ~swallowed'
                 PROVE  up' # <<>> /\ up'[Len(up')] = search_request(fileName)
      BY <1>1 DEF SilenceIsExplained
    <3>1. up[Len(up)] = search_request(fileName)
      <4>1. up # <<>>
        BY <1>2
      <4>2. ~swallowed
        BY <1>1, Zenon
      <4> QED
        BY <2>1, <4>1, <4>2, Zenon DEF SilenceIsExplained
    <3>2. up[Len(up)].op = "search"
      BY <3>1, SearchType
    <3>3. Len(up) # k
      <4> SUFFICES ASSUME Len(up) = k PROVE FALSE
        OBVIOUS
      <4>1. Len(up) # 1
        BY <3>2
      <4>2. Len(up) \in 2 .. k
        BY <1>2, <4>1
      <4> QED
        BY <1>1, <3>2, <4>2, Zenon
    <3>4. Len(up') \in 1 .. Len(up') /\ Len(up') + k = Len(up)
      BY <1>2, <3>3
    <3>5. up'[Len(up')] = up[Len(up)]
      BY <1>2, <3>4, Zenon
    <3>6. up' # <<>>
      BY <3>4
    <3> QED
      BY <3>1, <3>5, <3>6, Zenon
  <2> QED
    BY <2>2, <2>3, <2>4
<1> QED
  BY <1>3, <1>4 DEF ConnInv

\* The handler of one request is given its length.
LEMMA ReceivedOne == Received(1) = up[1].len
<1> DEFINE size[i \in 1 .. 1] == IF i = 1 THEN up[1].len ELSE size[i - 1] + up[i].len + 1
           f == [i \in 1 .. 1 |-> up[1].len]
<1>1. Received(1) = size[1]
  BY DEF Received
<1>2. f = [i \in 1 .. 1 |-> IF i = 1 THEN up[1].len ELSE f[i - 1] + up[i].len + 1]
  OBVIOUS
<1>3. size = [i \in 1 .. 1 |-> IF i = 1 THEN up[1].len ELSE size[i - 1] + up[i].len + 1]
  <2> HIDE DEF f
  <2> QED
    BY <1>2
<1> HIDE DEF size
<1>4. size[1] = up[1].len
  BY <1>3
<1> QED
  BY <1>1, <1>4

LEMMA EightBitsOfOne == EightBits(1) = up[1].eightbit
<1> DEFINE sum[i \in 1 .. 1] == IF i = 1 THEN up[1].eightbit ELSE sum[i - 1] + up[i].eightbit
           f == [i \in 1 .. 1 |-> up[1].eightbit]
<1>1. EightBits(1) = sum[1]
  BY DEF EightBits
<1>2. f = [i \in 1 .. 1 |-> IF i = 1 THEN up[1].eightbit ELSE f[i - 1] + up[i].eightbit]
  OBVIOUS
<1>3. sum = [i \in 1 .. 1 |-> IF i = 1 THEN up[1].eightbit ELSE sum[i - 1] + up[i].eightbit]
  <2> HIDE DEF f
  <2> QED
    BY <1>2
<1> HIDE DEF sum
<1> QED
  BY <1>1, <1>3

\* No more answers than the one.
LEMMA NoExtra ==
  ASSUME NEW d, d = <<>>, NEW r \in Seq(Nat)
  PROVE  d \o FlattenSeq([i \in 1 .. 0 |-> NotFound]) \o r = r
<1> DEFINE e == [i \in 1 .. 0 |-> NotFound]
<1>1. e = <<>>
  OBVIOUS
<1>2. FlattenSeq(e) = <<>>
  BY <1>1 DEF FlattenSeq
<1> HIDE DEF e
<1>3. <<>> \o <<>> = <<>> /\ <<>> \o r = r
  BY Unit, Empty
<1> QED
  BY <1>2, <1>3, Zenon DEF e

LEMMA TakeSearchConn ==
  ASSUME ConnInv, NEW k \in 1 .. Len(up), TakeSearch(k), UNCHANGED target
  PROVE  ConnInv'
<1> DEFINE extra == EightBits(k) + (IF up[k].op = "join" THEN IdTail ELSE 0)
<1>1. /\ up' = SubSeq(up, k + 1, Len(up))
      /\ swallowed' = (swallowed \/ \E i \in 2 .. k : up[i].op = "search")
      /\ UNCHANGED <<pc, fileName, got, shown, line, joined>>
  BY DEF TakeSearch, Taken, peerState
<1>2. /\ up' \in Seq(Requests) /\ Len(up) \in Nat /\ Len(up') = Len(up) - k /\ up[1] \in Requests
  BY <1>1, Shorter DEF ConnInv
<1>3. up[1].op = "search" /\ up \in Seq(Requests) /\ up # <<>>
  BY <1>2 DEF TakeSearch, ConnInv, ConnTypes
<1>4. ConnTypes'
  <2>1. line = "open"
    BY <1>3 DEF ConnInv, ConnTypes
  <2> QED
    BY <1>1, <1>2, <2>1 DEF ConnInv, ConnTypes
<1>5. \/ /\ joined /\ Received(k) < SearchLimit
         /\ \E r \in Answers :
              /\ down' = down \o FlattenSeq([i \in 1 .. extra |-> NotFound]) \o r
              /\ answer' = r
              /\ torn' = (torn \/ extra > 0)
      \/ /\ ~(joined /\ Received(k) < SearchLimit)
         /\ UNCHANGED <<down, answer, torn>>
  <2>1. Head(up) = up[1]
    BY <1>3
  <2> QED
    BY <2>1 DEF TakeSearch, Answers
<1>6. ASSUME ~torn' PROVE SearchIsLast' /\ AnswerIsWhole' /\ SilenceIsExplained' /\ TargetIsNamed'
  <2>1. ~torn /\ SearchIsLast /\ AnswerIsWhole /\ SilenceIsExplained /\ TargetIsNamed
    <3>1. ~torn
      BY <1>5, <1>6, Zenon
    <3> QED
      BY <3>1 DEF ConnInv
  <2>2. Len(up) = 1 /\ pc = "id" /\ down = <<>> /\ up[1] = search_request(fileName)
    <3>1. 1 \in 1 .. Len(up)
      BY <1>2
    <3> QED
      BY <1>3, <2>1, <3>1, Zenon DEF SearchIsLast
  <2>3. k = 1 /\ up' = <<>>
    <3>1. k = 1
      BY <2>2
    <3>2. Len(up') = 0
      BY <1>2, <2>2, <3>1
    <3> QED
      BY <1>2, <3>1, <3>2, EmptySeq, Zenon
  <2>4. fileName \in Names /\ up[1].name = fileName /\ up[1].len = NameLen[fileName] + 1
    <3>1. PICK n \in Names : up[1] = search_request(n)
      BY <1>2, <1>3, RequestType
    <3>2. up[1].name = n /\ up[1].name = fileName
      BY <2>2, <3>1, SearchType
    <3> QED
      BY <2>2, <3>1, <3>2, SearchType
  <2>5. Received(k) = NameLen[fileName] + 1
    BY <2>3, <2>4, ReceivedOne
  <2>6. shown = None
    BY <2>1, <2>2 DEF AnswerIsWhole
  <2>7. SearchIsLast'
    BY <2>3 DEF SearchIsLast
  <2>8. CASE UNCHANGED <<down, answer, torn>> /\ ~(joined /\ Received(k) < SearchLimit)
    <3>1. AnswerIsWhole' /\ TargetIsNamed'
      BY <1>1, <2>1, <2>8 DEF AnswerIsWhole, TargetIsNamed, Waiting
    <3>2. ~joined \/ NameLen[fileName] + 1 >= SearchLimit
      <4>1. NameLen[fileName] \in Nat
        BY <2>4, NameLenType, Zenon
      <4>2. ASSUME joined PROVE NameLen[fileName] + 1 >= SearchLimit
        <5>1. ~(NameLen[fileName] + 1 < SearchLimit)
          BY <2>5, <2>8, <4>2, Zenon
        <5> QED
          BY <4>1, <5>1 DEF SearchLimit
      <4> QED
        BY <4>2
    <3>3. SilenceIsExplained'
      BY <1>1, <2>3, <2>4, <3>2, Zenon DEF SilenceIsExplained
    <3> QED
      BY <2>7, <3>1, <3>3
  <2>9. ASSUME NEW r \in Answers,
               down' = down \o FlattenSeq([i \in 1 .. extra |-> NotFound]) \o r,
               answer' = r, torn' = (torn \/ extra > 0)
        PROVE  SearchIsLast' /\ AnswerIsWhole' /\ SilenceIsExplained' /\ TargetIsNamed'
    <3>1. r \in Seq(Nat) /\ Len(r) = AnswerLen
      BY AnswerType
    <3>2. extra = 0
      <4>1. EightBit[fileName] \in Nat /\ up[k].op # "join"
        BY <1>3, <2>3, <2>4, CPeerAssumption
      <4>2. extra = EightBit[fileName] + 0
        BY <2>2, <2>3, <4>1, EightBitsOfOne, SearchType
      <4>3. ~(extra > 0)
        BY <1>6, <2>9
      <4> QED
        BY <4>1, <4>2, <4>3
    <3> HIDE DEF extra
    <3>3. down' = r
      BY <2>2, <2>9, <3>1, <3>2, NoExtra
    <3>4. r # <<>>
      BY <3>1, Widths
    <3>5. AnswerIsWhole'
      BY <1>1, <2>1, <2>2, <2>6, <2>9, <3>3 DEF AnswerIsWhole, Waiting
    <3>6. SilenceIsExplained' /\ TargetIsNamed'
      BY <1>1, <2>1, <2>2, <3>3, <3>4 DEF SilenceIsExplained, TargetIsNamed
    <3> QED
      BY <2>7, <3>5, <3>6
  <2> QED
    BY <1>5, <2>8, <2>9
<1> QED
  BY <1>4, <1>6 DEF ConnInv

LEMMA RegistryConn == ASSUME ConnInv, Registry, UNCHANGED target PROVE ConnInv'
<1>1. PICK k \in 1 .. Len(up) : TakeJoin(k) \/ TakePublish(k) \/ TakeSearch(k)
  BY DEF Registry
<1>2. Head(up) = up[1]
  BY DEF ConnInv, ConnTypes
<1>3. CASE TakeJoin(k)
  BY <1>2, <1>3, TakenConn DEF TakeJoin
<1>4. CASE TakePublish(k)
  BY <1>2, <1>4, TakenConn DEF TakePublish
<1> QED
  BY <1>1, <1>3, <1>4, TakeSearchConn

-----------------------------------------------------------------------------
LEMMA ConnInit == FetchInit => ConnInv
<1> SUFFICES ASSUME FetchInit PROVE ConnInv
  OBVIOUS
<1>1. /\ pc = "start" /\ fileName = None /\ got = NoBytes /\ shown = None /\ up = <<>>
      /\ down = <<>> /\ target = None
  BY DEF FetchInit, Init
<1>2. ConnTypes
  <2>1. <<>> \in Seq(Requests)
    OBVIOUS
  <2> QED
    BY <1>1, <2>1 DEF ConnTypes
<1>3. SearchIsLast /\ SilenceIsExplained /\ TargetIsNamed
  BY <1>1 DEF SearchIsLast, SilenceIsExplained, TargetIsNamed
<1>4. AnswerIsWhole
  BY <1>1, NoBytesType DEF AnswerIsWhole, Waiting
<1> QED
  BY <1>2, <1>3, <1>4 DEF ConnInv

LEMMA CommandsConn == ASSUME ConnInv, Commands PROVE ConnInv'
<1>1. CASE \E n \in Names : fetch(n)
  BY <1>1, AskConn DEF fetch
<1>2. CASE SameCommands
  <2>1. UNCHANGED target
    BY <1>2 DEF SameCommands, Unrelated
  <2>2. CASE join
    <3>1. join_request \in Requests /\ join_request.op # "search"
      BY DEF Requests, join_request
    <3> QED
      BY <2>1, <2>2, <3>1, SentConn DEF join
  <2>3. CASE publish
    <3>1. PICK dir \in Dirs : Send(publish_request(dir), "prompt", "prompt")
      BY <2>3 DEF publish
    <3>2. publish_request(dir) \in Requests /\ publish_request(dir).op # "search"
      BY DEF Requests, publish_request
    <3> QED
      BY <2>1, <2>3, <3>1, <3>2, SentConn DEF publish
  <2>4. CASE \E n \in Names : search(n)
    BY <2>1, <2>4, AskConn DEF search
  <2>5. CASE Exit \/ EndOfInput
    BY <2>1, <2>5, ExitConn
  <2> QED
    BY <1>2, <2>2, <2>3, <2>4, <2>5 DEF SameCommands, Unrelated, print_options
<1> QED
  BY <1>1, <1>2 DEF Commands

LEMMA PeerRunsConn == ASSUME ConnInv, PeerRuns PROVE ConnInv'
<1>1. CASE RecvFields
  BY <1>1, RecvIdConn, RecvIpConn DEF RecvFields, Unrelated
<1>2. CASE ShowAnswer
  BY <1>2, RecvPortConn DEF ShowAnswer, Unrelated
<1>3. CASE UseAnswer
  BY <1>3, RecvPortConn DEF UseAnswer
<1> QED
  BY <1>1, <1>2, <1>3, ContactPeerConn, OverrunConn, ContactFailsConn, ReceiveChunkConn,
     EndOfFileConn DEF PeerRuns

LEMMA ConnNext == ConnInv /\ [FetchNext]_fetchVars => ConnInv'
<1> SUFFICES ASSUME ConnInv, [FetchNext]_fetchVars PROVE ConnInv'
  OBVIOUS
<1>1. CASE UNCHANGED fetchVars
  BY <1>1, ConnStutter
<1>2. CASE Unrelated(Registry)
  BY <1>2, RegistryConn DEF Unrelated
<1>3. CASE Unrelated(LoseLine)
  BY <1>3, LoseLineConn DEF Unrelated
<1>4. CASE Idle
  BY <1>4, ConnStutter DEF Idle
<1> QED
  BY <1>1, <1>2, <1>3, <1>4, MainConn, CommandsConn, PeerRunsConn DEF FetchNext

\* The connection invariant holds in every reachable state, whatever the
\* registry answers, however its answers are cut and whenever it goes away.
THEOREM ConnectionConsistent == FetchSpec => []ConnInv
BY ConnInit, ConnNext, PTL DEF FetchSpec

\* searching reads the three fields of its own answer, and leaves nothing in
\* the stream for the next command, unless one of its recv calls was short.
THEOREM AnswersStayInStep == FetchSpec => []FieldsInStep
<1>1. ASSUME ConnInv PROVE FieldsInStep
  <2> SUFFICES ASSUME ~torn PROVE Len(down) \in Due /\ (shown # None => shown = answer)
    BY <1>1 DEF ConnInv, FieldsInStep, SearchIsLast
  <2>1. AnswerIsWhole
    BY <1>1 DEF ConnInv
  <2>2. ASSUME answer \in Answers PROVE answer \in Seq(Nat) /\ Len(answer) = AnswerLen
    BY <2>2, AnswerType
  <2>3. CASE ~Waiting
    <3>1. down = <<>>
      BY <2>1, <2>3 DEF AnswerIsWhole
    <3> QED
      BY <2>1, <2>3, <3>1 DEF Due, Waiting, AnswerIsWhole
  <2>4. CASE pc = "id"
    <3>1. down = <<>> \/ Len(down) = AnswerLen
      BY <2>1, <2>2, <2>4 DEF AnswerIsWhole
    <3> QED
      BY <2>1, <2>4, <3>1 DEF Due, AnswerIsWhole
  <2>5. CASE pc = "ip"
    <3>1. /\ got[1] \in Seq(Nat) /\ down \in Seq(Nat) /\ Len(got[1]) = IdLen
          /\ answer \in Answers /\ got[1] \o down = answer
      BY <2>1, <2>5 DEF AnswerIsWhole
    <3>2. Len(got[1] \o down) = Len(got[1]) + Len(down) /\ Len(down) \in Nat
      BY <3>1, Concat, LenProperties, Zenon
    <3>3. Len(down) = IpLen + PortLen
      BY <2>2, <3>1, <3>2, Widths
    <3> QED
      BY <2>1, <2>5, <3>3 DEF Due, AnswerIsWhole
  <2>6. CASE pc = "port"
    <3> DEFINE a == got[1] \o got[2]
    <3>1. /\ got[1] \in Seq(Nat) /\ got[2] \in Seq(Nat) /\ down \in Seq(Nat)
          /\ Len(got[1]) = IdLen /\ Len(got[2]) = IpLen
          /\ answer \in Answers /\ a \o down = answer
      BY <2>1, <2>6 DEF AnswerIsWhole
    <3>2. a \in Seq(Nat) /\ Len(a) = IdLen + IpLen
      BY <3>1, Concat
    <3> HIDE DEF a
    <3>3. Len(a \o down) = Len(a) + Len(down) /\ Len(down) \in Nat
      BY <3>1, <3>2, Concat, LenProperties, Zenon
    <3>4. Len(down) = PortLen
      BY <2>2, <3>1, <3>2, <3>3, Widths
    <3> QED
      BY <2>1, <2>6, <3>4 DEF Due, AnswerIsWhole
  <2> QED
    BY <2>3, <2>4, <2>5, <2>6 DEF Waiting
<1> QED
  BY <1>1, ConnectionConsistent, PTL

\* FETCH connects to the peer that the registry has named to it, or else to
\* one that it named before, unless an answer was torn.
THEOREM ContactsWereNamed == FetchSpec => []ContactsAreNamed
<1>1. ConnInv => ContactsAreNamed
  BY DEF ConnInv, ContactsAreNamed, TargetIsNamed
<1> QED
  BY <1>1, ConnectionConsistent, PTL

\* No directory makes publish send more than handle_publish takes.
THEOREM PublishFits == FetchSpec => []PublishIsAdmitted
<1>1. ASSUME ConnInv PROVE PublishIsAdmitted
  <2>1. up \in Seq(Requests)
    BY <1>1 DEF ConnInv, ConnTypes
  <2>2. \A i \in 1 .. Len(up) : up[i] \in Requests
    BY <2>1, ElementOfSeq, Zenon
  <2> QED
    BY <2>2, RequestType, Zenon DEF PublishIsAdmitted
<1> QED
  BY <1>1, ConnectionConsistent, PTL

\* A SEARCH that the registry never answers was refused or swallowed.
THEOREM SilenceHasAReason == FetchSpec => []WaitsAreExplained
<1>1. ASSUME ConnInv, FieldsInStep PROVE WaitsAreExplained
  <2> SUFFICES ASSUME Hangs, ~swallowed, ~torn
               PROVE  ~joined \/ NameLen[fileName] + 1 >= SearchLimit
    BY DEF WaitsAreExplained
  <2>1. Len(down) \in Due /\ down = <<>> /\ SilenceIsExplained
    BY <1>1 DEF ConnInv, FieldsInStep, Hangs
  <2>2. Len(down) = 0
    BY <2>1
  <2>3. pc = "id"
    <3>1. 0 # IpLen + PortLen /\ 0 # PortLen
      BY Widths
    <3> QED
      BY <2>1, <2>2, <3>1 DEF Due, Hangs
  <2> QED
    BY <2>1, <2>3 DEF Hangs, SilenceIsExplained
<1> QED
  BY <1>1, ConnectionConsistent, AnswersStayInStep, PTL

-----------------------------------------------------------------------------
(* FileInv is inductive                                                    *)

Asking == pc \in {"id", "ip", "port", "connect"}

\* A step that leaves the file alone.
LEMMA FileFrame ==
  ASSUME FileInv, UNCHANGED <<cmd, fileName, file, firstChunk, feed, source, sent, said>>,
         \/ pc' = pc
         \/ /\ pc' # "receive"
            /\ pc' = "connect" => cmd = "fetch"
            /\ Asking' => Asking
  PROVE  FileInv'
<1>1. FileIsOnTheWay' = FileIsOnTheWay
  BY DEF FileIsOnTheWay, FileOf
<1>2. \/ pc' = pc
      \/ pc' \notin {"receive", "id", "ip", "port", "connect"}
      \/ /\ pc' # "receive" /\ (pc' = "connect" => cmd = "fetch")
         /\ pc \in {"id", "ip", "port", "connect"}
  BY DEF Asking
<1>3. /\ pc' \in {"receive", "connect"} => cmd' = "fetch"
      /\ pc' = "receive" => source' # None
      /\ cmd' = "fetch" => fileName' \in Names
      /\ cmd' = "fetch" /\ pc' = "receive" => said' # "fetched"
      /\ cmd' = "fetch" /\ pc' \in {"id", "ip", "port", "connect"} => source' = None
  BY <1>2 DEF FileInv
<1>4. ASSUME cmd = "fetch", pc \in {"id", "ip", "port", "connect"} PROVE said' # "fetched"
  BY <1>4 DEF FileInv
<1>5. cmd' = "fetch" /\ source' # None =>
       /\ source' \in Owners
       /\ file' \in Seq(Nat) /\ feed' \in Seq(Nat)
       /\ said' = "fetched" => feed' = <<>>
       /\ FileIsOnTheWay'
  BY <1>1 DEF FileInv
<1> QED
  BY <1>2, <1>3, <1>4, <1>5 DEF FileInv

LEMMA AskFile ==
  ASSUME FileInv, NEW n \in Names, search(n) \/ fetch(n)
  PROVE  FileInv'
<1>1. CASE search(n)
  <2>1. cmd' = "search" /\ pc' \in {"id", "prompt", "dead"}
    BY <1>1 DEF search, Ask, Send
  <2> QED
    BY <2>1 DEF FileInv
<1>2. CASE fetch(n)
  <2>1. /\ cmd' = "fetch" /\ pc' \in {"id", "connect", "dead"} /\ fileName' = n
        /\ source' = None /\ said' = None
    BY <1>2 DEF fetch, Ask, Send
  <2>2. None # "fetched"
    BY CPeerAssumption
  <2> QED
    BY <2>1, <2>2 DEF FileInv
<1> QED
  BY <1>1, <1>2

\* The contacted peer has sent something.
LEMMA ContactPeerFile == ASSUME FileInv, ContactPeer PROVE FileInv'
<1>1. /\ pc = "connect" /\ pc' = "receive" /\ file' = <<>> /\ firstChunk' = TRUE
      /\ UNCHANGED <<cmd, fileName, said>>
  BY DEF ContactPeer
<1>2. cmd = "fetch" /\ fileName \in Names /\ said # "fetched"
  BY <1>1 DEF FileInv
<1>3. PICK q \in Owners : /\ source' = q
                          /\ \E s \in Sendings(q, fileName) :
                               feed' = s.bytes /\ ending' = s.how /\ sent' = s.sent
  BY DEF ContactPeer
<1>4. PICK s \in Sendings(q, fileName) : feed' = s.bytes /\ sent' = s.sent
  BY <1>3
<1> DEFINE c == Content[q][fileName]
           w == <<0>> \o c
<1>5. c \in Seq(Nat) \cup {None} /\ FileOf' = c /\ q # None
  BY <1>1, <1>2, <1>3, ContentAssumption, CPeerAssumption DEF FileOf
<1>6. c # None => w \in Seq(Nat) /\ Len(w) = Len(c) + 1 /\ Len(c) \in Nat
  BY <1>5
<1>7. \/ s.sent = "part" /\ c = None /\ s.bytes = <<>>
      \/ s.sent = "part" /\ c # None /\ \E k \in 0 .. Len(c) : s.bytes = SubSeq(w, 1, k)
      \/ s.sent = "error" /\ s.bytes = <<1>>
      \/ s.sent = "whole" /\ c # None /\ s.bytes = w
  BY DEF Sendings
<1> HIDE DEF c, w
<1>8. feed' \in Seq(Nat)
  <2>1. ASSUME c # None, NEW k \in 0 .. Len(c) PROVE SubSeq(w, 1, k) \in Seq(Nat)
    <3>1. k \in 0 .. Len(w)
      BY <1>6, <2>1
    <3> QED
      BY <1>6, <2>1, <3>1, Split, Zenon
  <2>2. <<>> \in Seq(Nat) /\ <<1>> \in Seq(Nat)
    BY Empty, Bytes
  <2> QED
    BY <1>4, <1>6, <1>7, <2>1, <2>2, Zenon
<1>9. ASSUME sent' # "error", c # None
      PROVE  \E r \in Seq(Nat) : feed' \o r = w /\ (sent' = "whole" => r = <<>>)
  <2>1. CASE s.sent = "whole"
    <3>1. w \o <<>> = w /\ <<>> \in Seq(Nat)
      BY <1>6, <1>9, Unit, Empty, Zenon
    <3>2. feed' = w
      BY <1>4, <1>7, <2>1
    <3> QED
      BY <3>1, <3>2, Zenon
  <2>2. CASE s.sent = "part"
    <3>1. PICK k \in 0 .. Len(c) : s.bytes = SubSeq(w, 1, k)
      BY <1>7, <1>9, <2>2
    <3>2. k \in 0 .. Len(w)
      BY <1>6, <1>9
    <3>3. SubSeq(w, 1, k) \o SubSeq(w, k + 1, Len(w)) = w /\ SubSeq(w, k + 1, Len(w)) \in Seq(Nat)
      BY <1>6, <1>9, <3>2, Split, Zenon
    <3>4. feed' = SubSeq(w, 1, k) /\ sent' = "part"
      BY <1>4, <2>2, <3>1
    <3> QED
      BY <3>3, <3>4
  <2> QED
    BY <1>4, <1>7, <1>9, <2>1, <2>2
<1>10. FileIsOnTheWay'
  <2>1. sent' = "error" => feed' = <<1>>
    BY <1>4, <1>7
  <2>2. sent' # "error" /\ c = None => sent' = "part" /\ feed' = <<>>
    BY <1>4, <1>7
  <2>3. \A r : (feed' \o r = w) = (feed' \o r = <<0>> \o c)
    BY DEF w
  <2> QED
    BY <1>1, <1>5, <1>9, <2>1, <2>2, <2>3, Zenon DEF FileIsOnTheWay
<1> QED
  BY <1>1, <1>2, <1>3, <1>5, <1>8, <1>10, Empty DEF FileInv

LEMMA ErrorArrives ==
  ASSUME sent' = "error", file' = <<>>, feed' = <<>>
  PROVE  FileIsOnTheWay'
<1>1. ~(sent' # "error")
  OBVIOUS
<1>2. file' = <<>> /\ (feed' = <<>> \/ (firstChunk' /\ feed' = <<1>>))
  BY Zenon
<1> QED
  BY <1>1, <1>2, Zenon DEF FileIsOnTheWay

\* fetch writes what it received, without the result code.
LEMMA ReceiveChunkFile == ASSUME FileInv, ReceiveChunk PROVE FileInv'
<1>1. PICK chunk \in Prefixes(feed) \ {<<>>} :
        /\ file' = file \o Data(chunk)
        /\ feed' = SubSeq(feed, Len(chunk) + 1, Len(feed))
  BY DEF ReceiveChunk
<1>2. /\ pc = "receive" /\ firstChunk' = FALSE
      /\ UNCHANGED <<pc, cmd, fileName, said, source, sent>>
  BY DEF ReceiveChunk, vars
<1> DEFINE c == FileOf
           d == feed'
<1>3. /\ cmd = "fetch" /\ source # None /\ source \in Owners /\ fileName \in Names
      /\ file \in Seq(Nat) /\ feed \in Seq(Nat) /\ said # "fetched" /\ FileIsOnTheWay
  BY <1>2 DEF FileInv
<1>4. chunk \in Seq(Nat) /\ chunk # <<>> /\ d \in Seq(Nat) /\ Joins(chunk, d, feed)
  <2>1. PICK k \in 0 .. Len(feed) : chunk = SubSeq(feed, 1, k)
    BY <1>1 DEF Prefixes
  <2>2. chunk \in Seq(Nat) /\ Len(chunk) = k
    BY <1>3, <2>1, Split, Zenon
  <2> QED
    BY <1>1, <1>3, <2>1, <2>2, Split, Zenon DEF Joins
<1>5. feed # <<>>
  <2> SUFFICES ASSUME feed = <<>> PROVE FALSE
    OBVIOUS
  <2>1. PICK k \in 0 .. Len(feed) : chunk = SubSeq(feed, 1, k)
    BY <1>1 DEF Prefixes
  <2>2. k = 0
    <3>1. Len(feed) = 0
      OBVIOUS
    <3> QED
      BY <3>1
  <2>3. Len(chunk) = 0
    BY <1>3, <2>1, <2>2, Split
  <2> QED
    BY <1>4, <2>3
<1>6. Data(chunk) = IF firstChunk THEN Tail(chunk) ELSE chunk
  BY DEF Data
<1>7. Data(chunk) \in Seq(Nat) /\ file' \in Seq(Nat)
  BY <1>1, <1>3, <1>4, <1>6, HeadOff, Concat, Zenon
<1>8. FileOf' = c
  BY <1>2 DEF FileOf
<1> HIDE DEF c
<1>9. c # None => c \in Seq(Nat)
  BY <1>3, ContentAssumption DEF c, FileOf
<1>10. CASE sent = "error"
  <2>1. file = <<>> /\ feed = <<1>> /\ firstChunk
    BY <1>3, <1>5, <1>10 DEF FileIsOnTheWay
  <2>2. Joins(Tail(chunk), d, <<>>)
    <3>1. <<1>> \o <<>> = <<1>> /\ <<>> \in Seq(Nat)
      BY Unit, Empty, Bytes
    <3>2. chunk \o d = <<1>> \o <<>>
      BY <1>4, <2>1, <3>1, Zenon DEF Joins
    <3> QED
      BY <1>4, <3>1, <3>2, TailOfPrefix
  <2>3. Tail(chunk) = <<>> /\ d = <<>>
    <3> DEFINE t == Tail(chunk)
    <3>1. t \in Seq(Nat) /\ t \o d = <<>>
      BY <1>4, <2>2, HeadOff, Zenon DEF Joins
    <3> HIDE DEF t, d
    <3>2. Len(t \o d) = Len(t) + Len(d) /\ Len(t) \in Nat /\ Len(d) \in Nat
      BY <1>4, <3>1, Concat, LenProperties, Zenon
    <3>3. Len(t) = 0 /\ Len(d) = 0
      BY <3>1, <3>2
    <3> QED
      BY <1>4, <3>1, <3>3 DEF t
  <2>4. file' = <<>>
    <3>1. <<>> \o <<>> = <<>>
      BY Unit, Empty
    <3> QED
      BY <1>1, <1>6, <2>1, <2>3, <3>1, Zenon
  <2>5. FileIsOnTheWay'
    <3>1. sent' = "error" /\ feed' = <<>>
      BY <1>2, <1>10, <2>3
    <3> QED
      BY <2>4, <3>1, ErrorArrives
  <2> QED
    BY <1>2, <1>3, <1>4, <1>7, <2>5 DEF FileInv
<1>11. CASE sent # "error"
  <2>1. c # None
    BY <1>3, <1>5, <1>11 DEF FileIsOnTheWay, c
  <2>2. \E r \in Seq(Nat) : Joins(file', d \o r, c) /\ (sent = "whole" => r = <<>>)
    <3>1. CASE firstChunk
      <4>1. PICK r \in Seq(Nat) : feed \o r = <<0>> \o c /\ (sent = "whole" => r = <<>>)
        BY <1>3, <1>11, <2>1, <3>1 DEF FileIsOnTheWay, c
      <4> DEFINE y == d \o r
      <4>2. y \in Seq(Nat) /\ Joins(d, r, y)
        BY <1>4, Concat, Zenon DEF Joins
      <4> HIDE DEF y
      <4>3. Joins(chunk, y, chunk \o y)
        BY DEF Joins
      <4>4. Joins(feed, r, chunk \o y)
        BY <1>4, <4>2, <4>3, Regroup
      <4>5. chunk \o y = <<0>> \o c
        BY <4>1, <4>4 DEF Joins
      <4>6. Joins(Tail(chunk), y, c)
        BY <1>4, <1>9, <2>1, <4>2, <4>5, TailOfPrefix
      <4>7. file' = Tail(chunk)
        <5>1. file = <<>> /\ <<>> \o Tail(chunk) = Tail(chunk)
          BY <1>3, <1>4, <1>11, <2>1, <3>1, HeadOff, Unit, Zenon DEF FileIsOnTheWay, c
        <5> QED
          BY <1>1, <1>6, <3>1, <5>1, Zenon
      <4> QED
        BY <4>1, <4>6, <4>7, Zenon DEF y
    <3>2. CASE ~firstChunk
      <4>1. PICK r \in Seq(Nat) : file \o (feed \o r) = c /\ (sent = "whole" => r = <<>>)
        BY <1>3, <1>11, <2>1, <3>2 DEF FileIsOnTheWay, c
      <4> DEFINE y == d \o r
                 z == chunk \o y
      <4>2. y \in Seq(Nat) /\ Joins(d, r, y) /\ Joins(chunk, y, z)
        BY <1>4, Concat, Zenon DEF Joins
      <4> HIDE DEF y, z
      <4>3. Joins(feed, r, z)
        BY <1>4, <4>2, Regroup
      <4>4. Joins(file, z, c)
        BY <4>1, <4>3, Zenon DEF Joins
      <4>5. Joins(file, chunk, file')
        BY <1>1, <1>6, <3>2, Zenon DEF Joins
      <4>6. Joins(file', y, c)
        BY <1>3, <1>4, <4>2, <4>4, <4>5, Regroup
      <4> QED
        BY <4>1, <4>6, Zenon DEF y
    <3> QED
      BY <3>1, <3>2
  <2>3. FileIsOnTheWay'
    BY <1>2, <1>8, <1>11, <2>1, <2>2, Zenon DEF FileIsOnTheWay, Joins
  <2> QED
    BY <1>2, <1>3, <1>4, <1>7, <2>3 DEF FileInv
<1> QED
  BY <1>10, <1>11

LEMMA EndOfFileFile == ASSUME FileInv, EndOfFile PROVE FileInv'
<1>1. /\ pc' = "prompt" /\ feed = <<>>
      /\ UNCHANGED <<cmd, fileName, file, firstChunk, feed, source, sent>>
  BY DEF EndOfFile, transfer
<1>2. FileIsOnTheWay' = FileIsOnTheWay
  BY <1>1 DEF FileIsOnTheWay, FileOf
<1> QED
  BY <1>1, <1>2 DEF FileInv

LEMMA ContactFailsFile == ASSUME FileInv, ContactFails PROVE FileInv'
<1>1. /\ pc = "connect" /\ pc' = "prompt" /\ said' = "failed"
      /\ UNCHANGED <<cmd, fileName, file, firstChunk, feed, source, sent>>
  BY DEF ContactFails, transfer
<1>2. FileIsOnTheWay' = FileIsOnTheWay
  BY <1>1 DEF FileIsOnTheWay, FileOf
<1> QED
  BY <1>1, <1>2 DEF FileInv

-----------------------------------------------------------------------------
LEMMA FileInit == FetchInit => FileInv
BY DEF FetchInit, Init, FileInv

LEMMA CommandsFile == ASSUME FileInv, Commands PROVE FileInv'
<1>1. CASE \E n \in Names : fetch(n)
  BY <1>1, AskFile
<1>2. CASE SameCommands
  <2>1. UNCHANGED <<file, firstChunk, feed, source, sent, said>>
    BY <1>2 DEF SameCommands, Unrelated, transfer
  <2>2. CASE join \/ publish \/ Exit \/ EndOfInput
    <3>1. pc' \in {"prompt", "spin", "dead"} /\ UNCHANGED <<cmd, fileName>>
      BY <2>2 DEF join, publish, Exit, EndOfInput, Send
    <3> QED
      BY <2>1, <3>1, FileFrame DEF Asking
  <2>3. CASE \E n \in Names : search(n)
    BY <2>3, AskFile
  <2> QED
    BY <1>2, <2>2, <2>3 DEF SameCommands, Unrelated, print_options
<1> QED
  BY <1>1, <1>2 DEF Commands

LEMMA FileNext == FileInv /\ [FetchNext]_fetchVars => FileInv'
<1> SUFFICES ASSUME FileInv, [FetchNext]_fetchVars PROVE FileInv'
  OBVIOUS
<1>1. CASE UNCHANGED fetchVars
  BY <1>1, FileFrame DEF fetchVars, vars, transfer
<1>2. CASE Unrelated(Registry)
  <2>1. UNCHANGED <<pc, cmd, fileName, file, firstChunk, feed, source, sent, said>>
    BY <1>2 DEF Unrelated, Registry, TakeJoin, TakePublish, TakeSearch, Taken, peerState, transfer
  <2> QED
    BY <2>1, FileFrame
<1>3. CASE Unrelated(LoseLine)
  BY <1>3, FileFrame DEF Unrelated, LoseLine, peerState, transfer
<1>4. CASE Idle
  BY <1>4, FileFrame DEF Idle, fetchVars, vars, transfer
<1>5. CASE main
  BY <1>5, FileFrame DEF main, Unrelated, Connect, transfer, Asking
<1>6. CASE RecvFields
  <2>1. /\ pc \in {"id", "ip"} /\ pc' \in {"ip", "port", Back}
        /\ UNCHANGED <<cmd, fileName, file, firstChunk, feed, source, sent, said>>
    BY <1>6 DEF RecvFields, Unrelated, RecvId, RecvIp, transfer
  <2> QED
    BY <2>1, FileFrame DEF Asking, Back
<1>7. CASE ShowAnswer \/ UseAnswer
  <2>1. /\ pc = "port" /\ pc' = Back
        /\ UNCHANGED <<cmd, fileName, file, firstChunk, feed, source, sent, said>>
    BY <1>7 DEF ShowAnswer, UseAnswer, Unrelated, RecvPort, transfer
  <2> QED
    BY <2>1, FileFrame DEF Asking, Back
<1>8. CASE OverrunFetchBuffer
  BY <1>8, FileFrame DEF OverrunFetchBuffer, transfer, Asking
<1> QED
  BY <1>1, <1>2, <1>3, <1>4, <1>5, <1>6, <1>7, <1>8, CommandsFile, ContactPeerFile, ContactFailsFile,
     ReceiveChunkFile, EndOfFileFile DEF FetchNext, PeerRuns

\* What is written and what is under way are a start of the contacted peer's
\* file in every reachable state.
THEOREM FileConsistent == FetchSpec => []FileInv
BY FileInit, FileNext, PTL DEF FetchSpec

LEMMA Starts == ASSUME NEW s \in Seq(Nat), NEW t \in Seq(Nat) PROVE IsPrefix(s, s \o t)
<1>1. Len(s) \in Nat /\ Len(t) \in Nat /\ Len(s \o t) = Len(s) + Len(t) /\ s \o t \in Seq(Nat)
  BY Concat, LenProperties, Zenon
<1>2. Len(s) <= Len(s \o t) /\ Len(s) \in 0 .. Len(s \o t)
  BY <1>1
<1> DEFINE u == s \o t
           p == SubSeq(u, 1, Len(s))
<1>3. p \in Seq(Nat) /\ Len(p) = Len(s) /\ \A i \in 1 .. Len(s) : p[i] = u[i]
  BY <1>1, <1>2, Split, Zenon
<1>4. \A i \in 1 .. Len(s) : u[i] = s[i]
  BY Concat, Zenon
<1>5. \A i \in 1 .. Len(s) : p[i] = s[i]
  BY <1>3, <1>4, Zenon
<1>6. p = s
  <2> HIDE DEF p
  <2> QED
    BY <1>3, <1>5, SeqEqual, Zenon
<1>7. SubSeq(s, 1, Len(s)) = s
  BY SubSeqFull, Zenon
<1> QED
  BY <1>2, <1>6, <1>7, Zenon DEF IsPrefix

\* The file that FETCH leaves is a start of the contacted peer's file, and all
\* of it when that peer sent the whole and FETCH reports success.
THEOREM FetchedFileIsThePeers == FetchSpec => []FileIsThePeers
<1>1. ASSUME FileInv PROVE FileIsThePeers
  <2> SUFFICES ASSUME cmd = "fetch", source # None
               PROVE  LET f == IF FileOf = None THEN <<>> ELSE FileOf
                      IN  /\ IsPrefix(file, f)
                          /\ said = "fetched" /\ sent = "whole" => file = f
    BY DEF FileIsThePeers, FileOf
  <2> DEFINE f == IF FileOf = None THEN <<>> ELSE FileOf
  <2>1. /\ source \in Owners /\ fileName \in Names /\ file \in Seq(Nat) /\ feed \in Seq(Nat)
        /\ said = "fetched" => feed = <<>>
        /\ FileIsOnTheWay
    BY <1>1 DEF FileInv
  <2>2. FileOf \in Seq(Nat) \cup {None} /\ f \in Seq(Nat)
    BY <2>1, ContentAssumption, Empty DEF FileOf
  <2>3. IsPrefix(<<>>, f)
    <3>1. IsPrefix(<<>>, <<>> \o f)
      BY <2>2, Starts, Empty, Zenon
    <3>2. <<>> \o f = f
      BY <2>2, Unit, Zenon
    <3> HIDE DEF f
    <3> QED
      BY <3>1, <3>2, Zenon
  <2>4. CASE file = <<>> /\ sent # "whole"
    BY <2>3, <2>4
  <2>5. CASE sent \notin {"error"} /\ FileOf # None /\ firstChunk
    <3>1. PICK r \in Seq(Nat) : feed \o r = <<0>> \o FileOf /\ (sent = "whole" => r = <<>>)
      BY <2>1, <2>5, Zenon DEF FileIsOnTheWay
    <3>2. file = <<>>
      BY <2>1, <2>5, Zenon DEF FileIsOnTheWay
    <3>3. ASSUME said = "fetched", sent = "whole" PROVE FALSE
      <4>1. feed = <<>> /\ r = <<>>
        BY <2>1, <3>1, <3>3
      <4>2. <<>> \o <<>> = <<>>
        BY Unit, Empty
      <4>3. <<0>> \o FileOf = <<>>
        BY <3>1, <4>1, <4>2, Zenon
      <4>4. FileOf \in Seq(Nat) /\ <<0>> \in Seq(Nat) /\ Len(<<0>>) = 1
        BY <2>2, <2>5, Bytes
      <4>5. Len(<<0>> \o FileOf) = Len(<<0>>) + Len(FileOf) /\ Len(FileOf) \in Nat
        BY <4>4, Concat, LenProperties, Zenon
      <4>6. Len(<<0>> \o FileOf) = 0
        BY <4>3, Empty
      <4> QED
        BY <4>4, <4>5, <4>6
    <3> QED
      BY <2>3, <3>2, <3>3
  <2>6. CASE sent # "error" /\ FileOf # None /\ ~firstChunk
    <3>1. PICK r \in Seq(Nat) : file \o (feed \o r) = FileOf /\ (sent = "whole" => r = <<>>)
      BY <2>1, <2>6, Zenon DEF FileIsOnTheWay
    <3>2. f = FileOf
      BY <2>6
    <3>3. IsPrefix(file, FileOf)
      <4>1. feed \o r \in Seq(Nat)
        BY <2>1, Concat, Zenon
      <4>2. IsPrefix(file, file \o (feed \o r))
        BY <2>1, <4>1, Starts, Zenon
      <4> QED
        BY <3>1, <4>2, Zenon
    <3>4. ASSUME said = "fetched", sent = "whole" PROVE file = FileOf
      <4>1. feed = <<>> /\ r = <<>>
        BY <2>1, <3>1, <3>4
      <4>2. <<>> \o <<>> = <<>> /\ file \o <<>> = file
        BY <2>1, Unit, Empty
      <4> QED
        BY <3>1, <4>1, <4>2, Zenon
    <3> QED
      BY <3>2, <3>3, <3>4
  <2>7. sent = "error" \/ FileOf = None => file = <<>> /\ sent # "whole"
    BY <2>1, Zenon DEF FileIsOnTheWay
  <2> QED
    BY <2>4, <2>5, <2>6, <2>7
<1> QED
  BY <1>1, FileConsistent, PTL

=============================================================================
