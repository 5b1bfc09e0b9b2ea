------------------------- MODULE PeerSessionProofs -------------------------
(***************************************************************************)
(* Theorems about PeerSession, for any number of peers, of requests on the *)
(* way, of slots and of names.                                             *)
(***************************************************************************)
EXTENDS PeerSession, RegistryProofs, ByteSequences

-----------------------------------------------------------------------------
(* The inductive invariant                                                 *)

AnyRequest == UNION {PeerRequests(p) : p \in Conns}

\* The peers' variables have their types, and what a peer sends is its own.
PeerTypes ==
  /\ typed \in [Conns -> Nat]
  /\ joined_registry \in [Conns -> BOOLEAN]
  /\ pc \in [Conns -> {"start", "prompt", "wait", "fetch", "exit", "done"}]
  /\ asked \in [Conns -> Names \cup {None}]
  /\ swallowed \in [Conns -> BOOLEAN]
  /\ up \in [Conns -> Seq(AnyRequest)]
  /\ \A p \in Conns : /\ up[p] \in Seq(PeerRequests(p))
                      /\ Len(up[p]) <= UpCap
                      /\ pc[p] = "wait" => asked[p] \in Names

\* The replies that the registry is about to send to p.
Held(p) == IF sending.to = p THEN sending.replies ELSE <<>>

IsSearch(m) == m # None /\ m.op = "search"

\* A SEARCH on its way is the last request, and its peer waits.
SearchIsLast(p) ==
  \A k \in 1 .. Len(up[p]) : up[p][k].op = "search" =>
    k = Len(up[p]) /\ pc[p] = "wait" /\ up[p][k] = search_request(asked[p])

\* Nothing follows a SEARCH that has arrived.
SearchIsAlone(p) ==
  IsSearch(inbox[p]) =>
    /\ up[p] = <<>> /\ outbox[p] = <<>> /\ Held(p) = <<>>
    /\ \E n \in Names : inbox[p] = search_request(n)
    /\ gone[p] = "rst" \/ (pc[p] = "wait" /\ inbox[p] = search_request(asked[p]))

\* One reply is under way at a time, to a peer that waits for it, unless the
\* connection is reset: then nobody will read it.
OneReply(p) ==
  /\ outbox[p] # <<>> => /\ Len(outbox[p]) = 1 /\ Held(p) = <<>> /\ pc[p] = "wait"
                         /\ up[p] = <<>> /\ inbox[p] = None
  /\ Held(p) # <<>> => /\ Len(Held(p)) = 1 /\ outbox[p] = <<>>
                       /\ pc[p] = "wait" \/ gone[p] = "rst"
                       /\ up[p] = <<>> /\ inbox[p] = None

\* How a connection begins and ends.
EndIsClean(p) ==
  /\ gone[p] = "rst" => up[p] = <<>> /\ outbox[p] = <<>>
  /\ gone[p] = "fin" => pc[p] = "done"
  /\ conn[p] = "idle" => gone[p] = "no" /\ pc[p] \in {"start", "done"}
  /\ conn[p] = "done" => gone[p] = "no" /\ inbox[p] = None /\ Held(p) = <<>>

\* Why a peer waits: its SEARCH or the reply is under way, or there is a
\* reason for which there is no reply.
WaitIsExplained(p) ==
  pc[p] = "wait" /\ ~Dead(p) =>
    \/ up[p] # <<>> /\ up[p][Len(up[p])] = search_request(asked[p])
    \/ IsSearch(inbox[p])
    \/ outbox[p] # <<>> \/ Held(p) # <<>>
    \/ up[p] = <<>> /\ swallowed[p]
    \/ up[p] = <<>> /\ inbox[p] = None /\ Len(asked[p]) + 1 >= SearchLimit
    \/ up[p] = <<>> /\ inbox[p] = None /\ conn[p] = "accepted" /\ ~Recorded(p)

\* What has arrived from p is about p.
RequestIsOwn(p) ==
  inbox[p] # None =>
    /\ inbox[p].op = "join" => inbox[p].id = peer_id[p]
    /\ inbox[p].op = "publish" =>
         inbox[p].strs = Fitting(shared_dir[p]) /\ inbox[p].count = Len(inbox[p].strs)

\* What an answer to the question of p may say.
Truthful(p, r) ==
  Found(r) =>
    /\ r.addr \in Conns
    /\ r.id = peer_id[r.addr]
    /\ \E f \in 1 .. Len(shared_dir[r.addr]) : NameMatches(shared_dir[r.addr][f], asked[p])

ReplyIsTrue(p) ==
  /\ outbox[p] # <<>> => Truthful(p, outbox[p][1])
  /\ Held(p) # <<>> /\ gone[p] # "rst" => Truthful(p, Held(p)[1])

PeerInv(p) ==
  /\ SearchIsLast(p)
  /\ SearchIsAlone(p)
  /\ OneReply(p)
  /\ EndIsClean(p)
  /\ WaitIsExplained(p)
  /\ RequestIsOwn(p)
  /\ ReplyIsTrue(p)

\* The slots say of a peer what that peer sends.
SlotInv ==
  \A i \in ActiveSlots :
    /\ clients[i].files # <<>> => clients[i].files = Fitting(shared_dir[clients[i].addr])
    /\ clients[i].id # 0 => clients[i].id = peer_id[clients[i].addr]

\* The slot of a descriptor that was closed at the limit is that of a peer
\* which was refused.
RefusedAreDone ==
  phase = "run" => \A i \in ActiveSlots :
    clients[i].addr \in Conns
      /\ (clients[i].sock \notin OpenFds => conn[clients[i].addr] = "done")

SessionInv == PeerTypes /\ SlotInv /\ RefusedAreDone /\ \A p \in Conns : PeerInv(p)


-----------------------------------------------------------------------------
(* What the peers send                                                     *)

\* What Encoded computes, name by name.
Lengths(f, s, k) == f = [n \in 0 .. k |-> IF n = 0 THEN 5 ELSE f[n - 1] + Len(s[n]) + 1]

LEMMA LengthsExist == ASSUME NEW s \in Seq(Names) PROVE \E f : Lengths(f, s, Len(s))
<1> DEFINE S == {k \in Nat : \E f : Lengths(f, s, k)}
<1>1. 0 \in S
  <2>1. Lengths([n \in 0 .. 0 |-> 5], s, 0)
    BY DEF Lengths
  <2> QED
    BY <2>1
<1>2. ASSUME NEW k \in Nat, k \in S PROVE k + 1 \in S
  <2>1. PICK f : Lengths(f, s, k)
    BY <1>2
  <2> DEFINE h == [n \in 0 .. k + 1 |-> IF n = k + 1 THEN f[k] + Len(s[k + 1]) + 1 ELSE f[n]]
  <2>2. \A n \in 0 .. k + 1 : h[n] = IF n = 0 THEN 5 ELSE h[n - 1] + Len(s[n]) + 1
    BY <2>1 DEF Lengths
  <2>3. Lengths(h, s, k + 1)
    BY <2>2 DEF Lengths
  <2> HIDE DEF h
  <2> QED
    BY <2>3
<1> HIDE DEF S
<1>3. Len(s) \in S
  BY <1>1, <1>2, Induction
<1> QED
  BY <1>3 DEF S

LEMMA EncodedIs ==
  ASSUME NEW s \in Seq(Names)
  PROVE  \E f : Lengths(f, s, Len(s)) /\ \A k : Encoded(s, k) = f[k]
<1> DEFINE f[n \in 0 .. Len(s)] == IF n = 0 THEN 5 ELSE f[n - 1] + Len(s[n]) + 1
<1>1. \A k : Encoded(s, k) = f[k]
  BY DEF Encoded
<1>2. Lengths(f, s, Len(s))
  BY LengthsExist DEF Lengths
<1> HIDE DEF f
<1> QED
  BY <1>1, <1>2

LEMMA EncodedType ==
  ASSUME NEW s \in Seq(Names)
  PROVE  Encoded(s, 0) = 5 /\ \A k \in 0 .. Len(s) : Encoded(s, k) \in Nat
<1>1. PICK f : Lengths(f, s, Len(s)) /\ \A k : Encoded(s, k) = f[k]
  BY EncodedIs
<1> DEFINE S == {k \in Nat : k <= Len(s) => f[k] \in Nat}
<1>2. f[0] = 5
  BY <1>1 DEF Lengths
<1>3. ASSUME NEW k \in Nat, k \in S, k + 1 <= Len(s) PROVE f[k + 1] \in Nat
  <2>1. f[k] \in Nat
    BY <1>3
  <2>2. s[k + 1] \in Seq(Nat)
    BY <1>3, DataAssumption
  <2>3. Len(s[k + 1]) \in Nat
    BY <2>2
  <2>4. f[k + 1] = f[k] + Len(s[k + 1]) + 1
    BY <1>1, <1>3 DEF Lengths
  <2> QED
    BY <2>1, <2>3, <2>4
<1>4. \A k \in Nat : k \in S => k + 1 \in S
  BY <1>3
<1>5. 0 \in S
  BY <1>2
<1> HIDE DEF S
<1>6. \A k \in Nat : k \in S
  BY <1>4, <1>5, Induction
<1>7. \A k \in 0 .. Len(s) : f[k] \in Nat
  BY <1>6 DEF S
<1> QED
  BY <1>1, <1>2, <1>7

\* Some number of names fits and one more does not.
LEMMA FittingExists ==
  ASSUME NEW s \in Seq(Names)
  PROVE  \E k \in 0 .. Len(s) : /\ Encoded(s, k) <= PublishCap
                                /\ k < Len(s) => Encoded(s, k + 1) > PublishCap
<1> DEFINE Big == {k \in 0 .. Len(s) : Encoded(s, k) > PublishCap}
<1>1. Len(s) \in Nat /\ PublishCap \in Nat /\ PublishCap >= 5
  BY PeersAssumption
<1>2. Encoded(s, 0) = 5 /\ \A k \in 0 .. Len(s) : Encoded(s, k) \in Nat
  BY EncodedType
<1>3. CASE Big = {}
  <2>1. Encoded(s, Len(s)) <= PublishCap
    BY <1>1, <1>2, <1>3
  <2> QED
    BY <1>1, <2>1
<1>4. CASE Big # {}
  <2>0. Big \in SUBSET Nat
    OBVIOUS
  <2>1. PICK m \in Big : \A k \in Big : m <= k
    <3> HIDE DEF Big
    <3> QED
      BY <1>4, <2>0, LeastElement
  <2>2. m \in 1 .. Len(s) /\ m - 1 \in 0 .. Len(s) /\ m - 1 \notin Big
    BY <1>1, <1>2, <2>1
  <2>3. Encoded(s, m - 1) <= PublishCap
    BY <1>1, <1>2, <2>2
  <2>4. m - 1 < Len(s) /\ (m - 1) + 1 = m /\ Encoded(s, m) > PublishCap
    BY <2>1, <2>2
  <2> QED
    BY <2>2, <2>3, <2>4
<1> QED
  BY <1>3, <1>4

\* A PUBLISH carries the beginning of the directory's listing.
LEMMA FittingIsPrefix ==
  ASSUME NEW s \in Seq(Names)
  PROVE  /\ Fitting(s) \in Seq(Names)
         /\ \A j \in 1 .. Len(Fitting(s)) : \E f \in 1 .. Len(s) : Fitting(s)[j] = s[f]
<1>1. PICK k \in 0 .. Len(s) : Fitting(s) = SubSeq(s, 1, k)
  BY FittingExists DEF Fitting
<1>2. /\ SubSeq(s, 1, k) \in Seq(Names) /\ Len(SubSeq(s, 1, k)) = k
      /\ \A j \in 1 .. k : SubSeq(s, 1, k)[j] = s[j]
  OBVIOUS
<1>3. 1 .. k \subseteq 1 .. Len(s)
  OBVIOUS
<1> QED
  BY <1>1, <1>2, <1>3

\* A SEARCH alone is taken as it was sent.
LEMMA CoalescedOne ==
  ASSUME NEW n \in Names
  PROVE  Coalesced(<<search_request(n)>>) = search_request(n)
<1> DEFINE m == search_request(n)
           ms == <<m>>
           behind[k \in 1 .. Len(ms)] == IF k = 1 THEN 0 ELSE behind[k - 1] + RequestSize(ms[k])
<1>1. Len(ms) = 1 /\ Head(ms) = m
  OBVIOUS
<1>2. m.op = "search" /\ m.len = Len(n) + 1 /\ Len(n) \in Nat
  BY DataAssumption DEF search_request
<1>3. behind[1] = 0
  <2>1. \E f : f = [k \in 1 .. Len(ms) |-> IF k = 1 THEN 0 ELSE f[k - 1] + RequestSize(ms[k])]
    <3> DEFINE f == [k \in 1 .. 1 |-> 0]
    <3>1. f = [k \in 1 .. Len(ms) |-> IF k = 1 THEN 0 ELSE f[k - 1] + RequestSize(ms[k])]
      BY <1>1
    <3> QED
      BY <3>1
  <2>2. behind = [k \in 1 .. Len(ms) |-> IF k = 1 THEN 0 ELSE behind[k - 1] + RequestSize(ms[k])]
    BY <2>1
  <2> QED
    BY <1>1, <2>2
<1>4. Coalesced(ms) = [m EXCEPT !.len = @ + behind[1]]
  BY <1>1, <1>2 DEF Coalesced
<1> HIDE DEF behind
<1>5. m.len + behind[1] = m.len
  BY <1>2, <1>3
<1>6. [m EXCEPT !.len = @ + behind[1]] = m
  BY <1>5 DEF search_request
<1> QED
  BY <1>4, <1>6

\* What follows a request in the same recv changes nothing but its length.
LEMMA CoalescedKeeps ==
  ASSUME NEW p \in Conns, NEW ms, Head(ms) \in PeerRequests(p)
  PROVE  /\ Coalesced(ms).op = Head(ms).op
         /\ Head(ms).op = "join" => Coalesced(ms).id = peer_id[p]
         /\ Head(ms).op = "publish" => /\ Coalesced(ms).strs = Fitting(shared_dir[p])
                                       /\ Coalesced(ms).count = Len(Fitting(shared_dir[p]))
<1> DEFINE behind[k \in 1 .. Len(ms)] ==
             IF k = 1 THEN 0 ELSE behind[k - 1] + RequestSize(ms[k])
           l == Head(ms).len + behind[Len(ms)]
<1>1. Coalesced(ms) = IF Head(ms).op = "other" THEN Head(ms)
                                               ELSE [Head(ms) EXCEPT !.len = l]
  BY DEF Coalesced
<1> HIDE DEF l
<1>2. CASE Head(ms) = join_request(p)
  BY <1>1, <1>2 DEF join_request
<1>3. CASE Head(ms) = register_request
  BY <1>1, <1>3 DEF register_request
<1>4. CASE Head(ms) = publish_request(p)
  BY <1>1, <1>4 DEF publish_request
<1>5. CASE \E n \in Names : Head(ms) = search_request(n)
  BY <1>1, <1>5 DEF search_request
<1> QED
  BY <1>2, <1>3, <1>4, <1>5 DEF PeerRequests

-----------------------------------------------------------------------------
(* The peers' types, and what they make of the registry's steps            *)

LEMMA InitPeers == ASSUME SessionInit PROVE PeerTypes
<1>1. \A p \in Conns : up[p] = <<>> /\ <<>> \in Seq(PeerRequests(p)) /\ Len(<<>>) <= UpCap
  BY PeersAssumption DEF SessionInit
<1>2. up \in [Conns -> Seq(AnyRequest)]
  BY DEF SessionInit
<1> QED
  BY <1>1, <1>2 DEF SessionInit, PeerTypes

\* The queue of one peer is replaced.
LEMMA QueueTyped ==
  ASSUME PeerTypes, NEW p \in Conns, NEW x \in Seq(PeerRequests(p)), Len(x) <= UpCap,
         up' = [up EXCEPT ![p] = x]
  PROVE  /\ up' \in [Conns -> Seq(AnyRequest)]
         /\ \A q \in Conns : up'[q] \in Seq(PeerRequests(q)) /\ Len(up'[q]) <= UpCap
<1>1. PeerRequests(p) \subseteq AnyRequest
  BY DEF AnyRequest
<1>2. x \in Seq(AnyRequest)
  BY <1>1
<1> QED
  BY <1>2 DEF PeerTypes

LEMMA WriteTyped ==
  ASSUME PeerTypes, NEW p \in Conns, NEW m \in PeerRequests(p), Write(p, m)
  PROVE  /\ up' \in [Conns -> Seq(AnyRequest)]
         /\ \A q \in Conns : up'[q] \in Seq(PeerRequests(q)) /\ Len(up'[q]) <= UpCap
<1>1. <<>> \in Seq(PeerRequests(p)) /\ Len(<<>>) <= UpCap
  BY PeersAssumption
<1>2. CASE Dead(p)
  BY <1>1, <1>2, QueueTyped DEF Write
<1>3. CASE ~Dead(p)
  <2>1. up[p] \in Seq(PeerRequests(p)) /\ Len(up[p]) < UpCap /\ UpCap \in Nat
    BY <1>3, PeersAssumption DEF Write, PeerTypes
  <2>2. Append(up[p], m) \in Seq(PeerRequests(p)) /\ Len(Append(up[p], m)) <= UpCap
    BY <2>1
  <2>3. up' = [up EXCEPT ![p] = Append(up[p], m)]
    BY <1>3 DEF Write
  <2> QED
    BY <2>2, <2>3, QueueTyped
<1> QED
  BY <1>2, <1>3

LEMMA CommandTyped ==
  ASSUME PeerTypes, NEW p \in Conns, PeerCommand(p)
  PROVE  PeerTypes'
<1>0. \A m \in {join_request(p), register_request, publish_request(p)} : m \in PeerRequests(p)
  BY DEF PeerRequests
<1>1. CASE Connects(p) \/ Panics(p) \/ Exit(p)
  BY <1>1 DEF PeerTypes, Connects, Panics, Exit
<1>2. ASSUME NEW m \in PeerRequests(p), JoinOrRegister(p, m) PROVE PeerTypes'
  <2>1. /\ up' \in [Conns -> Seq(AnyRequest)]
        /\ \A q \in Conns : up'[q] \in Seq(PeerRequests(q)) /\ Len(up'[q]) <= UpCap
    BY <1>2, WriteTyped DEF JoinOrRegister
  <2>2. typed' \in [Conns -> Nat] /\ UNCHANGED <<pc, asked, swallowed>>
    BY <1>2 DEF JoinOrRegister, Typed, PeerTypes
  <2>3. PICK ok \in {TRUE, FALSE} : joined_registry' = [joined_registry EXCEPT ![p] = @ \/ ok]
    BY <1>2 DEF JoinOrRegister, Written
  <2>4. joined_registry' \in [Conns -> BOOLEAN]
    BY <2>3, Zenon DEF PeerTypes
  <2> QED
    BY <2>1, <2>2, <2>4 DEF PeerTypes
<1>3. CASE send_join(p) \/ send_register(p)
  BY <1>0, <1>2, <1>3 DEF send_join, send_register
<1>4. CASE send_publish(p)
  <2>1. /\ up' \in [Conns -> Seq(AnyRequest)]
        /\ \A q \in Conns : up'[q] \in Seq(PeerRequests(q)) /\ Len(up'[q]) <= UpCap
    BY <1>0, <1>4, WriteTyped DEF send_publish
  <2>2. typed' \in [Conns -> Nat] /\ UNCHANGED <<pc, asked, swallowed, joined_registry>>
    BY <1>4 DEF send_publish, Typed, PeerTypes
  <2> QED
    BY <2>1, <2>2 DEF PeerTypes
<1>5. ASSUME NEW n \in Names, search_registry(p, n) PROVE PeerTypes'
  <2>0. search_request(n) \in PeerRequests(p)
    BY DEF PeerRequests
  <2>1. /\ up' \in [Conns -> Seq(AnyRequest)]
        /\ \A q \in Conns : up'[q] \in Seq(PeerRequests(q)) /\ Len(up'[q]) <= UpCap
    BY <1>5, <2>0, WriteTyped DEF search_registry
  <2>2. typed' \in [Conns -> Nat] /\ UNCHANGED <<swallowed, joined_registry>>
    BY <1>5 DEF search_registry, Typed, PeerTypes
  <2>3. /\ pc' = [pc EXCEPT ![p] = "wait"]
        /\ asked' = [asked EXCEPT ![p] = n]
    BY <1>5 DEF search_registry
  <2> QED
    BY <2>1, <2>2, <2>3 DEF PeerTypes
<1>6. CASE OtherCommand(p)
  BY <1>6 DEF OtherCommand, sessionVars, peerVars, PeerTypes
<1> QED
  BY <1>1, <1>3, <1>4, <1>5, <1>6 DEF PeerCommand

LEMMA RunTyped ==
  ASSUME PeerTypes, NEW p \in Conns, PeerRuns(p)
  PROVE  PeerTypes'
<1>1. <<>> \in Seq(PeerRequests(p)) /\ Len(<<>>) <= UpCap
  BY PeersAssumption
<1>2. CASE Answered(p)
  BY <1>2 DEF Answered, PeerTypes
<1>3. CASE FetchReturns(p)
  BY <1>3 DEF FetchReturns, PeerTypes
<1>4. CASE SearchFails(p) \/ Leaves(p)
  <2>1. up' = [up EXCEPT ![p] = <<>>]
    BY <1>4 DEF SearchFails, Leaves
  <2>2. /\ up' \in [Conns -> Seq(AnyRequest)]
        /\ \A q \in Conns : up'[q] \in Seq(PeerRequests(q)) /\ Len(up'[q]) <= UpCap
    BY <1>1, <2>1, QueueTyped
  <2>3. /\ UNCHANGED <<typed, joined_registry, swallowed>>
        /\ \E x \in {"prompt", "done"} : pc' = [pc EXCEPT ![p] = x]
        /\ asked' = asked \/ asked' = [asked EXCEPT ![p] = None]
    BY <1>4 DEF SearchFails, Leaves
  <2> QED
    BY <2>2, <2>3 DEF PeerTypes
<1> QED
  BY <1>2, <1>3, <1>4 DEF PeerRuns

\* The requests that arrive together and those that stay behind.
LEMMA Parts ==
  ASSUME PeerTypes, NEW p \in Conns, NEW k \in 1 .. Len(up[p])
  PROVE  /\ Len(up[p]) \in Nat
         /\ k \in 1 .. UpCap
         /\ SubSeq(up[p], 1, k) \in [1 .. k -> PeerRequests(p)]
         /\ Head(SubSeq(up[p], 1, k)) = up[p][1]
         /\ up[p][1] \in PeerRequests(p)
         /\ SubSeq(up[p], k + 1, Len(up[p])) \in Seq(PeerRequests(p))
         /\ Len(SubSeq(up[p], k + 1, Len(up[p]))) = Len(up[p]) - k
         /\ \A j \in 1 .. Len(up[p]) - k : SubSeq(up[p], k + 1, Len(up[p]))[j] = up[p][j + k]
<1> DEFINE u == up[p]
           S == PeerRequests(p)
<1>1. u \in Seq(S) /\ Len(u) <= UpCap /\ UpCap \in Nat
  BY PeersAssumption DEF PeerTypes
<1> HIDE DEF u, S
<1>k. k \in 1 .. Len(u)
  BY DEF u
<1>2. Len(u) \in Nat /\ k \in Int /\ 1 <= k /\ k <= Len(u) /\ k \in 1 .. Len(u)
  BY <1>1, <1>k
<1>3. k \in 1 .. UpCap
  BY <1>1, <1>2
<1>4. SubSeq(u, 1, k) \in Seq(S) /\ Len(SubSeq(u, 1, k)) = k /\ SubSeq(u, 1, k)[1] = u[1]
  BY <1>1, <1>2
<1>5. SubSeq(u, 1, k) \in [1 .. k -> S]
  BY <1>4, LenProperties, Zenon
<1>6. Head(SubSeq(u, 1, k)) = u[1] /\ u[1] \in S
  BY <1>1, <1>2, <1>4
<1>7. /\ SubSeq(u, k + 1, Len(u)) \in Seq(S) /\ Len(SubSeq(u, k + 1, Len(u))) = Len(u) - k
      /\ \A j \in 1 .. Len(u) - k : SubSeq(u, k + 1, Len(u))[j] = u[j + k]
  BY <1>1, <1>2
<1> QED
  BY <1>2, <1>3, <1>5, <1>6, <1>7 DEF u, S

LEMMA ArriveTyped ==
  ASSUME PeerTypes, NEW p \in Conns, Arrive(p)
  PROVE  PeerTypes'
<1>1. PICK k \in 1 .. Len(up[p]) :
        /\ up' = [up EXCEPT ![p] = SubSeq(up[p], k + 1, Len(up[p]))]
        /\ swallowed' = [swallowed EXCEPT ![p] = (k > 1 /\ up[p][k].op = "search")]
  BY DEF Arrive
<1>2. /\ SubSeq(up[p], k + 1, Len(up[p])) \in Seq(PeerRequests(p))
      /\ Len(SubSeq(up[p], k + 1, Len(up[p]))) = Len(up[p]) - k
      /\ Len(up[p]) \in Nat /\ k \in 1 .. Len(up[p])
  BY Parts
<1>3. Len(SubSeq(up[p], k + 1, Len(up[p]))) <= UpCap
  BY <1>2, PeersAssumption DEF PeerTypes
<1>4. /\ up' \in [Conns -> Seq(AnyRequest)]
      /\ \A q \in Conns : up'[q] \in Seq(PeerRequests(q)) /\ Len(up'[q]) <= UpCap
  BY <1>1, <1>2, <1>3, QueueTyped
<1>5. swallowed' \in [Conns -> BOOLEAN]
  BY <1>1, Zenon DEF PeerTypes
<1>6. UNCHANGED <<typed, pc, joined_registry, asked>>
  BY DEF Arrive
<1> QED
  BY <1>4, <1>5, <1>6 DEF PeerTypes

LEMMA BreaksTyped ==
  ASSUME PeerTypes, NEW p \in Conns, Breaks(p)
  PROVE  PeerTypes'
<1>1. <<>> \in Seq(PeerRequests(p)) /\ Len(<<>>) <= UpCap
  BY PeersAssumption
<1>2. up' = [up EXCEPT ![p] = <<>>] /\ UNCHANGED <<typed, pc, joined_registry, asked, swallowed>>
  BY DEF Breaks
<1>3. /\ up' \in [Conns -> Seq(AnyRequest)]
      /\ \A q \in Conns : up'[q] \in Seq(PeerRequests(q)) /\ Len(up'[q]) <= UpCap
  BY <1>1, <1>2, QueueTyped
<1> QED
  BY <1>2, <1>3 DEF PeerTypes

LEMMA PeersTyped == PeerTypes /\ [SessionNext]_sessionVars => PeerTypes'
<1> SUFFICES ASSUME PeerTypes, [SessionNext]_sessionVars PROVE PeerTypes'
  OBVIOUS
<1>1. CASE \E p \in Conns : PeerCommand(p) \/ PeerRuns(p) \/ Arrive(p) \/ Breaks(p)
  BY <1>1, CommandTyped, RunTyped, ArriveTyped, BreaksTyped
<1>2. CASE UNCHANGED peerVars
  BY <1>2 DEF peerVars, PeerTypes
<1>3. RegistryStep \/ Quiet \/ UNCHANGED sessionVars => UNCHANGED peerVars
  BY DEF RegistryStep, Quiet, sessionVars
<1> QED
  BY <1>1, <1>2, <1>3 DEF SessionNext

-----------------------------------------------------------------------------
(* The session drives the registry, and what is proved of it holds         *)

LEMMA StepIsARegistrys == PeerTypes /\ [SessionNext]_sessionVars => [Next]_vars
<1> SUFFICES ASSUME PeerTypes, [SessionNext]_sessionVars PROVE [Next]_vars
  OBVIOUS
<1>1. ASSUME NEW p \in Conns, Connect(p) \/ Close(p) \/ Reset(p) \/ TakeReply(p) PROVE Next
  BY <1>1 DEF Next, Environment
<1>2. ASSUME NEW p \in Conns, PeerCommand(p) PROVE [Next]_vars
  <2>1. Connect(p) \/ UNCHANGED vars
    BY <1>2 DEF PeerCommand, Connects, Panics, send_join, send_register, JoinOrRegister,
                send_publish, search_registry, Exit, OtherCommand, sessionVars
  <2> QED
    BY <1>1, <2>1
<1>3. ASSUME NEW p \in Conns, PeerRuns(p) PROVE [Next]_vars
  <2>1. TakeReply(p) \/ Close(p) \/ UNCHANGED vars
    BY <1>3 DEF PeerRuns, Answered, SearchFails, FetchReturns, Leaves
  <2> QED
    BY <1>1, <2>1
<1>4. ASSUME NEW p \in Conns, Breaks(p) PROVE [Next]_vars
  BY <1>1, <1>4 DEF Breaks
<1>5. ASSUME NEW p \in Conns, Arrive(p) PROVE [Next]_vars
  <2>1. PICK k \in 1 .. Len(up[p]) : Deliver(p, Coalesced(SubSeq(up[p], 1, k)))
    BY <1>5 DEF Arrive
  <2>2. k \in 1 .. UpCap /\ SubSeq(up[p], 1, k) \in [1 .. k -> PeerRequests(p)]
    BY Parts
  <2>3. Coalesced(SubSeq(up[p], 1, k)) \in Requests
    BY <2>2, SentAssumption
  <2> QED
    BY <2>1, <2>3 DEF Next, Environment
<1>6. CASE RegistryStep
  BY <1>6 DEF RegistryStep, Next
<1>7. CASE Quiet \/ UNCHANGED sessionVars
  BY <1>7 DEF Quiet, sessionVars
<1> QED
  BY <1>2, <1>3, <1>4, <1>5, <1>6, <1>7 DEF SessionNext

\* The registry's own invariants, and the peers' types.
Underneath == PeerTypes /\ TypeOK /\ TableInvariant /\ DirectoryInvariant

\* Peers talk to a registry of the kind that module Registry specifies, and
\* whatever is proved of it, for requests of any shape, holds of theirs.
THEOREM SessionIsARegistry == SessionSpec => Spec /\ []Underneath
<1>1. SessionInit => Init /\ PeerTypes
  BY InitPeers DEF SessionInit
<1>2. SessionSpec => []PeerTypes
  BY <1>1, PeersTyped, PTL DEF SessionSpec
<1>3. SessionSpec => Spec
  BY <1>1, <1>2, StepIsARegistrys, PTL DEF SessionSpec, Spec
<1>4. Spec => []DirectoryInvariant
  BY InitDirectory, NextDirectory, TypeCorrect, TableConsistent, PTL DEF Spec
<1> QED
  BY <1>2, <1>3, <1>4, TypeCorrect, TableConsistent, PTL DEF Underneath

-----------------------------------------------------------------------------
(* The conversation of one peer: the steps of the peer                     *)

\* A step that does not concern p.
Untouched(p) ==
  /\ pc'[p] = pc[p] /\ asked'[p] = asked[p] /\ swallowed'[p] = swallowed[p] /\ up'[p] = up[p]
  /\ conn'[p] = conn[p] /\ inbox'[p] = inbox[p] /\ gone'[p] = gone[p] /\ outbox'[p] = outbox[p]
  /\ Held(p)' = Held(p)
  /\ Recorded(p)' => Recorded(p)

LEMMA KeptInv == ASSUME NEW p \in Conns, PeerInv(p), Untouched(p) PROVE PeerInv(p)'
<1>1. SearchIsLast(p)'
  BY DEF Untouched, PeerInv, SearchIsLast
<1>2. SearchIsAlone(p)'
  BY DEF Untouched, PeerInv, SearchIsAlone, IsSearch
<1>3. OneReply(p)'
  BY DEF Untouched, PeerInv, OneReply
<1>4. EndIsClean(p)'
  BY DEF Untouched, PeerInv, EndIsClean
<1>5. WaitIsExplained(p)'
  BY DEF Untouched, PeerInv, WaitIsExplained, IsSearch, Dead
<1>6. RequestIsOwn(p)'
  BY DEF Untouched, PeerInv, RequestIsOwn
<1>7. ReplyIsTrue(p)'
  BY DEF Untouched, PeerInv, ReplyIsTrue, Truthful
<1> QED
  BY <1>1, <1>2, <1>3, <1>4, <1>5, <1>6, <1>7 DEF PeerInv

\* What a peer that does not wait knows.
LEMMA NotWaiting ==
  ASSUME NEW p \in Conns, PeerInv(p), pc[p] # "wait"
  PROVE  /\ outbox[p] = <<>>
         /\ Held(p) # <<>> => gone[p] = "rst" /\ Len(Held(p)) = 1 /\ inbox[p] = None
         /\ IsSearch(inbox[p]) => gone[p] = "rst" /\ Held(p) = <<>>
         /\ \A k \in 1 .. Len(up[p]) : up[p][k].op # "search"
BY DEF PeerInv, OneReply, SearchIsAlone, SearchIsLast

\* A step of a peer that neither waits before it nor after it.
LEMMA AwayInv ==
  ASSUME NEW p \in Conns, PeerInv(p), pc[p] # "wait", pc'[p] # "wait",
         inbox'[p] = inbox[p], gone'[p] = gone[p], outbox'[p] = outbox[p], Held(p)' = Held(p),
         conn'[p] = conn[p] \/ (conn[p] = "idle" /\ conn'[p] = "backlog"),
         gone[p] = "rst" => up'[p] = <<>>,
         \A k \in 1 .. Len(up'[p]) : up'[p][k].op # "search",
         gone[p] = "fin" => pc'[p] = "done",
         conn'[p] = "idle" => pc'[p] \in {"start", "done"}
  PROVE  PeerInv(p)'
<1>1. /\ outbox[p] = <<>>
      /\ Held(p) # <<>> => gone[p] = "rst" /\ Len(Held(p)) = 1 /\ inbox[p] = None
      /\ IsSearch(inbox[p]) => gone[p] = "rst" /\ Held(p) = <<>>
  BY NotWaiting
<1>2. SearchIsLast(p)'
  BY DEF SearchIsLast
<1>3. SearchIsAlone(p)'
  BY <1>1 DEF PeerInv, SearchIsAlone, IsSearch
<1>4. OneReply(p)'
  BY <1>1 DEF OneReply
<1>5. EndIsClean(p)'
  BY <1>1 DEF PeerInv, EndIsClean
<1>6. WaitIsExplained(p)'
  BY DEF WaitIsExplained
<1>7. RequestIsOwn(p)'
  BY DEF PeerInv, RequestIsOwn
<1>8. ReplyIsTrue(p)'
  BY <1>1 DEF ReplyIsTrue
<1> QED
  BY <1>2, <1>3, <1>4, <1>5, <1>6, <1>7, <1>8 DEF PeerInv

\* What stays when a peer types a command or the registry is not involved.
LEMMA RegistryRests ==
  ASSUME UNCHANGED vars, NEW q \in Conns
  PROVE  /\ conn'[q] = conn[q] /\ inbox'[q] = inbox[q] /\ gone'[q] = gone[q]
         /\ outbox'[q] = outbox[q] /\ Held(q)' = Held(q) /\ Recorded(q)' = Recorded(q)
BY DEF vars, Held, Recorded, ActiveSlots

\* A request other than SEARCH is written.
LEMMA WriteInv ==
  ASSUME PeerTypes, NEW p \in Conns, PeerInv(p), NEW m \in PeerRequests(p), m.op # "search",
         pc[p] = "prompt", Write(p, m), UNCHANGED <<vars, pc, asked, swallowed>>
  PROVE  PeerInv(p)' /\ \A q \in Conns \ {p} : Untouched(q)
<1>1. \A q \in Conns \ {p} : Untouched(q)
  <2>1. \A q \in Conns \ {p} : up'[q] = up[q]
    BY DEF Write, PeerTypes
  <2> QED
    BY <2>1, RegistryRests DEF Untouched
<1>2. gone[p] = "rst" => up'[p] = <<>>
  BY DEF Write, PeerTypes, Dead
<1>3. \A k \in 1 .. Len(up'[p]) : up'[p][k].op # "search"
  <2>1. CASE Dead(p)
    <3>1. up'[p] = <<>>
      BY <2>1 DEF Write, PeerTypes
    <3> QED
      BY <3>1
  <2>2. CASE ~Dead(p)
    <3>1. up'[p] = Append(up[p], m) /\ up[p] \in Seq(PeerRequests(p))
      BY <2>2 DEF Write, PeerTypes
    <3>2. \A k \in 1 .. Len(up[p]) : up[p][k].op # "search"
      BY NotWaiting
    <3> QED
      BY <3>1, <3>2
  <2> QED
    BY <2>1, <2>2
<1>4. gone[p] # "fin" /\ conn[p] # "idle"
  BY DEF PeerInv, EndIsClean
<1>5. /\ conn'[p] = conn[p] /\ inbox'[p] = inbox[p] /\ gone'[p] = gone[p]
      /\ outbox'[p] = outbox[p] /\ Held(p)' = Held(p) /\ pc'[p] = pc[p]
  BY RegistryRests
<1>6. PeerInv(p)'
  BY <1>2, <1>3, <1>4, <1>5, AwayInv
<1> QED
  BY <1>1, <1>6

\* SEARCH is written.
LEMMA SearchInv ==
  ASSUME PeerTypes, NEW p \in Conns, PeerInv(p), NEW n \in Names, search_registry(p, n)
  PROVE  PeerInv(p)' /\ \A q \in Conns \ {p} : Untouched(q)
<1> DEFINE m == search_request(n)
<1>1. /\ pc[p] = "prompt" /\ pc' = [pc EXCEPT ![p] = "wait"] /\ asked' = [asked EXCEPT ![p] = n]
      /\ UNCHANGED <<vars, joined_registry, swallowed>> /\ Write(p, m)
  BY DEF search_registry, Typed
<1>2. m.op = "search"
  BY DEF search_request
<1> HIDE DEF m
<1>3. pc'[p] = "wait" /\ asked'[p] = n /\ search_request(asked'[p]) = m
  BY <1>1 DEF PeerTypes, m
<1>4. \A q \in Conns \ {p} : Untouched(q)
  <2>1. \A q \in Conns \ {p} : up'[q] = up[q] /\ pc'[q] = pc[q] /\ asked'[q] = asked[q]
    BY <1>1 DEF Write, PeerTypes
  <2> QED
    BY <1>1, <2>1, RegistryRests DEF Untouched
<1>5. /\ conn'[p] = conn[p] /\ inbox'[p] = inbox[p] /\ gone'[p] = gone[p]
      /\ outbox'[p] = outbox[p] /\ Held(p)' = Held(p)
  BY <1>1, RegistryRests
<1>6. /\ outbox[p] = <<>>
      /\ Held(p) # <<>> => gone[p] = "rst" /\ Len(Held(p)) = 1 /\ inbox[p] = None
      /\ IsSearch(inbox[p]) => gone[p] = "rst" /\ Held(p) = <<>>
      /\ \A k \in 1 .. Len(up[p]) : up[p][k].op # "search"
  BY <1>1, NotWaiting
<1>7. Dead(p) => up'[p] = <<>>
  BY <1>1 DEF Write, PeerTypes
<1>8. ~Dead(p) => /\ up[p] \in Seq(PeerRequests(p)) /\ up'[p] = Append(up[p], m)
                  /\ m \in PeerRequests(p)
  BY <1>1 DEF Write, PeerTypes, PeerRequests, m
<1>9. SearchIsLast(p)'
  <2>1. CASE Dead(p)
    <3>1. Len(up'[p]) = 0
      BY <1>7, <2>1
    <3> QED
      BY <3>1 DEF SearchIsLast
  <2>2. CASE ~Dead(p)
    <3>1. \A k \in 1 .. Len(up'[p]) : k = Len(up'[p]) \/ (k \in 1 .. Len(up[p]) /\ up'[p][k] = up[p][k])
      BY <1>8, <2>2
    <3>2. up'[p][Len(up'[p])] = m
      BY <1>8, <2>2
    <3> QED
      BY <1>3, <1>6, <3>1, <3>2 DEF SearchIsLast
  <2> QED
    BY <2>1, <2>2
<1>10. SearchIsAlone(p)'
  BY <1>5, <1>6, <1>7 DEF PeerInv, SearchIsAlone, IsSearch, Dead
<1>11. OneReply(p)'
  BY <1>5, <1>6, <1>7 DEF OneReply, Dead
<1>12. EndIsClean(p)'
  BY <1>1, <1>5, <1>6, <1>7 DEF PeerInv, EndIsClean, Dead
<1>13. WaitIsExplained(p)'
  <2>1. CASE Dead(p)
    BY <1>5, <2>1 DEF WaitIsExplained, Dead
  <2>2. CASE ~Dead(p)
    <3>1. up'[p] # <<>> /\ up'[p][Len(up'[p])] = m
      BY <1>8, <2>2
    <3> QED
      BY <1>3, <3>1 DEF WaitIsExplained
  <2> QED
    BY <2>1, <2>2
<1>14. RequestIsOwn(p)'
  BY <1>5 DEF PeerInv, RequestIsOwn
<1>15. ReplyIsTrue(p)'
  BY <1>5, <1>6 DEF ReplyIsTrue
<1> QED
  BY <1>4, <1>9, <1>10, <1>11, <1>12, <1>13, <1>14, <1>15 DEF PeerInv

LEMMA ConnectsInv ==
  ASSUME TypeOK, PeerTypes, NEW p \in Conns, PeerInv(p), Connects(p)
  PROVE  PeerInv(p)' /\ \A q \in Conns \ {p} : Untouched(q)
<1>1. /\ pc[p] = "start" /\ pc' = [pc EXCEPT ![p] = "prompt"]
      /\ conn[p] = "idle" /\ conn' = [conn EXCEPT ![p] = "backlog"]
      /\ UNCHANGED <<inbox, gone, outbox, sending, clients, up, asked, swallowed>>
  BY DEF Connects, Connect, table
<1>2. pc'[p] = "prompt" /\ conn'[p] = "backlog" /\ gone[p] = "no"
  BY <1>1 DEF PeerTypes, TypeOK, PeerInv, EndIsClean
<1>3. \A q \in Conns : Held(q)' = Held(q) /\ Recorded(q)' = Recorded(q)
  BY <1>1 DEF Held, Recorded, ActiveSlots
<1>4. \A k \in 1 .. Len(up[p]) : up[p][k].op # "search"
  BY <1>1, NotWaiting
<1>5. PeerInv(p)'
  BY <1>1, <1>2, <1>3, <1>4, AwayInv
<1>6. \A q \in Conns \ {p} : Untouched(q)
  BY <1>1, <1>3 DEF Untouched, PeerTypes, TypeOK
<1> QED
  BY <1>5, <1>6

\* The steps of a peer that does not wait which touch no connection.
LEMMA LocalInv ==
  ASSUME PeerTypes, NEW p \in Conns, PeerInv(p),
         Panics(p) \/ FetchReturns(p) \/ Exit(p) \/ OtherCommand(p) \/ (Leaves(p) /\ Dead(p))
  PROVE  PeerInv(p)' /\ \A q \in Conns \ {p} : Untouched(q)
<1>1. /\ UNCHANGED <<vars, asked, swallowed>>
      /\ up' = up \/ up' = [up EXCEPT ![p] = <<>>]
      /\ \/ pc[p] \in {"start", "exit"} /\ pc' = [pc EXCEPT ![p] = "done"]
         \/ pc[p] = "fetch" /\ pc' = [pc EXCEPT ![p] = "prompt"]
         \/ pc[p] = "prompt" /\ pc' = [pc EXCEPT ![p] = "exit"]
         \/ pc[p] = "prompt" /\ pc' = pc
  BY DEF Panics, FetchReturns, Exit, OtherCommand, Leaves, sessionVars, peerVars
<1>2. \A q \in Conns \ {p} : Untouched(q)
  <2>1. \A q \in Conns \ {p} : up'[q] = up[q] /\ pc'[q] = pc[q]
    BY <1>1 DEF PeerTypes
  <2> QED
    BY <1>1, <2>1, RegistryRests DEF Untouched
<1>3. up'[p] = up[p] \/ up'[p] = <<>>
  BY <1>1 DEF PeerTypes
<1>4. \A k \in 1 .. Len(up[p]) : up[p][k].op # "search"
  BY <1>1, NotWaiting
<1>5. \A k \in 1 .. Len(up'[p]) : up'[p][k].op # "search"
  <2>1. CASE up'[p] = <<>>
    BY <2>1
  <2>2. CASE up'[p] = up[p]
    BY <1>4, <2>2, Zenon
  <2> QED
    BY <1>3, <2>1, <2>2
<1>6. pc[p] # "wait" /\ pc'[p] # "wait" /\ (pc'[p] = "done" \/ pc[p] \in {"fetch", "prompt"})
  BY <1>1 DEF PeerTypes
<1>7. /\ gone[p] = "rst" => up'[p] = <<>>
      /\ gone[p] = "fin" => pc'[p] = "done"
      /\ conn[p] = "idle" => pc'[p] \in {"start", "done"}
  BY <1>3, <1>6 DEF PeerInv, EndIsClean
<1>8. /\ conn'[p] = conn[p] /\ inbox'[p] = inbox[p] /\ gone'[p] = gone[p]
      /\ outbox'[p] = outbox[p] /\ Held(p)' = Held(p)
  BY <1>1, RegistryRests
<1>9. PeerInv(p)'
  BY <1>5, <1>6, <1>7, <1>8, AwayInv
<1> QED
  BY <1>2, <1>9

\* A sequence of one element.
LEMMA Single ==
  ASSUME NEW S, NEW s \in Seq(S), Len(s) = 1
  PROVE  Tail(s) = <<>> /\ Head(s) = s[1] /\ s[1] \in S /\ SubSeq(s, 1, 1) = <<s[1]>>
<1>1. s # <<>>
  OBVIOUS
<1>2. Tail(s) \in Seq(S) /\ Len(Tail(s)) = 0
  BY <1>1
<1>3. Tail(s) = <<>>
  BY <1>2, EmptySeq, Zenon
<1>4. s[1] \in S
  BY <1>1
<1>5. /\ SubSeq(s, 1, 1) \in Seq(S) /\ Len(SubSeq(s, 1, 1)) = 1 /\ SubSeq(s, 1, 1)[1] = s[1]
      /\ <<s[1]>> \in Seq(S) /\ Len(<<s[1]>>) = 1 /\ <<s[1]>>[1] = s[1]
  BY <1>4
<1>6. \A i \in 1 .. 1 : SubSeq(s, 1, 1)[i] = <<s[1]>>[i]
  BY <1>5
<1>7. SubSeq(s, 1, 1) = <<s[1]>>
  BY <1>5, <1>6, SeqEqual, Zenon
<1> QED
  BY <1>1, <1>3, <1>4, <1>7

\* The reply is read.
LEMMA AnsweredInv ==
  ASSUME TypeOK, PeerTypes, NEW p \in Conns, PeerInv(p), Answered(p)
  PROVE  PeerInv(p)' /\ \A q \in Conns \ {p} : Untouched(q)
<1>1. /\ pc[p] = "wait" /\ outbox[p] # <<>> /\ outbox' = [outbox EXCEPT ![p] = Tail(@)]
      /\ \E x \in {"prompt", "fetch"} : pc' = [pc EXCEPT ![p] = x]
      /\ asked' = [asked EXCEPT ![p] = None]
      /\ UNCHANGED <<conn, inbox, gone, sending, clients, up, swallowed>>
  BY DEF Answered, TakeReply, table
<1>2. \A q \in Conns : Held(q)' = Held(q) /\ Recorded(q)' = Recorded(q)
  BY <1>1 DEF Held, Recorded, ActiveSlots
<1>3. \A q \in Conns \ {p} : Untouched(q)
  BY <1>1, <1>2 DEF Untouched, PeerTypes, TypeOK
<1>4. Len(outbox[p]) = 1 /\ Held(p) = <<>> /\ up[p] = <<>> /\ inbox[p] = None
  BY <1>1 DEF PeerInv, OneReply
<1>5. outbox'[p] = <<>>
  <2>1. outbox[p] \in Seq(Replies) /\ outbox'[p] = Tail(outbox[p])
    BY <1>1 DEF TypeOK
  <2> QED
    BY <1>4, <2>1, Single
<1>6. pc'[p] \in {"prompt", "fetch"}
  BY <1>1 DEF PeerTypes
<1>7. SearchIsLast(p)' /\ SearchIsAlone(p)' /\ OneReply(p)' /\ RequestIsOwn(p)'
  <2>1. Len(up'[p]) = 0
    BY <1>1, <1>4
  <2> QED
    BY <1>1, <1>2, <1>4, <1>5, <2>1 DEF SearchIsLast, SearchIsAlone, IsSearch, OneReply, RequestIsOwn
<1>8. EndIsClean(p)' /\ WaitIsExplained(p)' /\ ReplyIsTrue(p)'
  BY <1>1, <1>2, <1>4, <1>5, <1>6 DEF PeerInv, EndIsClean, WaitIsExplained, ReplyIsTrue
<1> QED
  BY <1>3, <1>7, <1>8 DEF PeerInv

\* The write or the read of SEARCH fails.
LEMMA FailsInv ==
  ASSUME PeerTypes, NEW p \in Conns, PeerInv(p), SearchFails(p)
  PROVE  PeerInv(p)' /\ \A q \in Conns \ {p} : Untouched(q)
<1>1. /\ pc[p] = "wait" /\ pc' = [pc EXCEPT ![p] = "prompt"] /\ Dead(p) /\ outbox[p] = <<>>
      /\ up' = [up EXCEPT ![p] = <<>>] /\ asked' = [asked EXCEPT ![p] = None]
      /\ UNCHANGED <<vars, swallowed>>
  BY DEF SearchFails
<1>2. \A q \in Conns \ {p} : Untouched(q)
  <2>1. \A q \in Conns \ {p} : up'[q] = up[q] /\ pc'[q] = pc[q] /\ asked'[q] = asked[q]
    BY <1>1 DEF PeerTypes
  <2> QED
    BY <1>1, <2>1, RegistryRests DEF Untouched
<1>3. pc'[p] = "prompt" /\ up'[p] = <<>> /\ Len(up'[p]) = 0
  BY <1>1 DEF PeerTypes
<1>4. /\ conn'[p] = conn[p] /\ inbox'[p] = inbox[p] /\ gone'[p] = gone[p]
      /\ outbox'[p] = outbox[p] /\ Held(p)' = Held(p)
  BY <1>1, RegistryRests
<1>5. IsSearch(inbox[p]) => gone[p] = "rst"
  BY <1>1 DEF PeerInv, EndIsClean, IsSearch, Dead
<1>6. Held(p) # <<>> => gone[p] = "rst"
  BY <1>1 DEF PeerInv, EndIsClean, Dead
<1>7. SearchIsLast(p)' /\ WaitIsExplained(p)'
  BY <1>3 DEF SearchIsLast, WaitIsExplained
<1>8. SearchIsAlone(p)'
  BY <1>1, <1>3, <1>4, <1>5 DEF PeerInv, SearchIsAlone, IsSearch
<1>9. OneReply(p)' /\ ReplyIsTrue(p)'
  BY <1>1, <1>3, <1>4, <1>6 DEF PeerInv, OneReply, ReplyIsTrue
<1>10. EndIsClean(p)' /\ RequestIsOwn(p)'
  BY <1>1, <1>3, <1>4 DEF PeerInv, EndIsClean, RequestIsOwn
<1> QED
  BY <1>2, <1>7, <1>8, <1>9, <1>10 DEF PeerInv

\* The peer closes its socket.
LEMMA LeavesInv ==
  ASSUME TypeOK, PeerTypes, NEW p \in Conns, PeerInv(p), Leaves(p), ~Dead(p)
  PROVE  PeerInv(p)' /\ \A q \in Conns \ {p} : Untouched(q)
<1>1. /\ pc[p] = "exit" /\ pc' = [pc EXCEPT ![p] = "done"] /\ up[p] = <<>>
      /\ conn[p] \in {"backlog", "accepted"} /\ gone[p] = "no"
      /\ gone' = [gone EXCEPT ![p] = "fin"] /\ outbox' = [outbox EXCEPT ![p] = <<>>]
      /\ up' = [up EXCEPT ![p] = <<>>]
      /\ UNCHANGED <<asked, swallowed, conn, inbox, sending, clients>>
  BY DEF Leaves, Close, table
<1>2. \A q \in Conns : Held(q)' = Held(q) /\ Recorded(q)' = Recorded(q)
  BY <1>1 DEF Held, Recorded, ActiveSlots
<1>3. \A q \in Conns \ {p} : Untouched(q)
  BY <1>1, <1>2 DEF Untouched, PeerTypes, TypeOK
<1>4. /\ pc'[p] = "done" /\ up'[p] = <<>> /\ Len(up'[p]) = 0 /\ gone'[p] = "fin"
      /\ outbox'[p] = <<>>
  BY <1>1 DEF PeerTypes, TypeOK
<1>5. Held(p) = <<>> /\ ~IsSearch(inbox[p])
  BY <1>1, NotWaiting
<1>6. SearchIsLast(p)' /\ SearchIsAlone(p)' /\ OneReply(p)' /\ WaitIsExplained(p)' /\ ReplyIsTrue(p)'
  BY <1>1, <1>2, <1>4, <1>5
     DEF SearchIsLast, SearchIsAlone, IsSearch, OneReply, WaitIsExplained, ReplyIsTrue
<1>7. EndIsClean(p)' /\ RequestIsOwn(p)'
  BY <1>1, <1>4 DEF PeerInv, EndIsClean, RequestIsOwn
<1> QED
  BY <1>3, <1>6, <1>7 DEF PeerInv

\* The connection is reset.
LEMMA BreaksInv ==
  ASSUME TypeOK, PeerTypes, NEW p \in Conns, PeerInv(p), Breaks(p)
  PROVE  PeerInv(p)' /\ \A q \in Conns \ {p} : Untouched(q)
<1>1. /\ conn[p] \in {"backlog", "accepted"}
      /\ gone' = [gone EXCEPT ![p] = "rst"] /\ outbox' = [outbox EXCEPT ![p] = <<>>]
      /\ up' = [up EXCEPT ![p] = <<>>]
      /\ UNCHANGED <<pc, asked, swallowed, conn, inbox, sending, clients>>
  BY DEF Breaks, Reset, table
<1>2. \A q \in Conns : Held(q)' = Held(q) /\ Recorded(q)' = Recorded(q)
  BY <1>1 DEF Held, Recorded, ActiveSlots
<1>3. \A q \in Conns \ {p} : Untouched(q)
  BY <1>1, <1>2 DEF Untouched, PeerTypes, TypeOK
<1>4. up'[p] = <<>> /\ Len(up'[p]) = 0 /\ gone'[p] = "rst" /\ outbox'[p] = <<>>
  BY <1>1 DEF PeerTypes, TypeOK
<1>5. SearchIsLast(p)' /\ SearchIsAlone(p)'
  BY <1>1, <1>2, <1>4 DEF PeerInv, SearchIsLast, SearchIsAlone, IsSearch
<1>6. OneReply(p)' /\ ReplyIsTrue(p)'
  BY <1>1, <1>2, <1>4 DEF PeerInv, OneReply, ReplyIsTrue
<1>7. EndIsClean(p)' /\ WaitIsExplained(p)' /\ RequestIsOwn(p)'
  BY <1>1, <1>4 DEF PeerInv, EndIsClean, WaitIsExplained, RequestIsOwn, Dead
<1> QED
  BY <1>3, <1>5, <1>6, <1>7 DEF PeerInv

\* One or more requests arrive.
LEMMA ArriveInv ==
  ASSUME TypeOK, PeerTypes, NEW p \in Conns, PeerInv(p), Arrive(p)
  PROVE  PeerInv(p)' /\ \A q \in Conns \ {p} : Untouched(q)
<1>1. PICK k \in 1 .. Len(up[p]) :
        /\ Deliver(p, Coalesced(SubSeq(up[p], 1, k)))
        /\ up' = [up EXCEPT ![p] = SubSeq(up[p], k + 1, Len(up[p]))]
        /\ swallowed' = [swallowed EXCEPT ![p] = (k > 1 /\ up[p][k].op = "search")]
  BY DEF Arrive
<1> DEFINE u == up[p]
           m == Coalesced(SubSeq(u, 1, k))
<1>2. /\ conn[p] \in {"backlog", "accepted"} /\ gone[p] = "no" /\ inbox[p] = None
      /\ inbox' = [inbox EXCEPT ![p] = m]
      /\ UNCHANGED <<pc, asked, conn, gone, outbox, sending, clients>>
  BY <1>1 DEF Arrive, Deliver, table
<1>3. /\ Len(u) \in Nat /\ k \in 1 .. Len(u)
      /\ Head(SubSeq(u, 1, k)) = u[1] /\ u[1] \in PeerRequests(p)
      /\ Len(SubSeq(u, k + 1, Len(u))) = Len(u) - k
      /\ SubSeq(u, k + 1, Len(u)) \in Seq(PeerRequests(p))
      /\ \A j \in 1 .. Len(u) - k : SubSeq(u, k + 1, Len(u))[j] = u[j + k]
  BY Parts
<1>4. /\ up'[p] = SubSeq(u, k + 1, Len(u)) /\ inbox'[p] = m
      /\ swallowed'[p] = (k > 1 /\ u[k].op = "search")
  BY <1>1, <1>2 DEF PeerTypes, TypeOK
<1>5. /\ m.op = u[1].op
      /\ u[1].op = "join" => m.id = peer_id[p]
      /\ u[1].op = "publish" => /\ m.strs = Fitting(shared_dir[p])
                                /\ m.count = Len(Fitting(shared_dir[p]))
  <2> DEFINE ms == SubSeq(u, 1, k)
  <2>1. Head(ms) = u[1] /\ Head(ms) \in PeerRequests(p)
    BY <1>3
  <2> HIDE DEF ms
  <2>2. /\ Coalesced(ms).op = Head(ms).op
        /\ Head(ms).op = "join" => Coalesced(ms).id = peer_id[p]
        /\ Head(ms).op = "publish" => /\ Coalesced(ms).strs = Fitting(shared_dir[p])
                                      /\ Coalesced(ms).count = Len(Fitting(shared_dir[p]))
    BY <2>1, CoalescedKeeps
  <2>3. m = Coalesced(ms)
    BY DEF ms
  <2> HIDE DEF m, u
  <2> QED
    BY <2>1, <2>2, <2>3
<1>6. \A q \in Conns : Held(q)' = Held(q) /\ Recorded(q)' = Recorded(q)
  BY <1>2 DEF Held, Recorded, ActiveSlots
<1>7. \A q \in Conns \ {p} : Untouched(q)
  BY <1>1, <1>2, <1>6 DEF Untouched, PeerTypes, TypeOK
<1>8. u # <<>> /\ u \in Seq(PeerRequests(p))
  BY <1>3 DEF PeerTypes
<1>9. outbox[p] = <<>> /\ Held(p) = <<>>
  BY <1>8 DEF PeerInv, OneReply
<1>10. \A j \in 1 .. Len(u) : u[j].op = "search" =>
         j = Len(u) /\ pc[p] = "wait" /\ u[j] = search_request(asked[p])
  BY DEF PeerInv, SearchIsLast
<1>11. u[1].op = "search" => /\ Len(u) = 1 /\ k = 1 /\ pc[p] = "wait"
                             /\ u[1] = search_request(asked[p])
  <2>1. 1 \in 1 .. Len(u)
    BY <1>3
  <2> HIDE DEF u
  <2>2. u[1].op = "search" => 1 = Len(u) /\ pc[p] = "wait" /\ u[1] = search_request(asked[p])
    BY <1>10, <2>1
  <2>3. k \in Int /\ 1 <= k /\ k <= Len(u) /\ Len(u) \in Int
    BY <1>3
  <2>4. 1 = Len(u) => k = 1
    <3> DEFINE n == Len(u)
    <3>1. k \in Int /\ 1 <= k /\ k <= n /\ n \in Int
      BY <2>3
    <3> HIDE DEF n
    <3>2. 1 = n => k = 1
      BY <3>1
    <3> QED
      BY <3>2 DEF n
  <2> QED
    BY <2>2, <2>4
<1>12. k = Len(u) => up'[p] = <<>>
  <2>1. CASE k = Len(u)
    <3>1. Len(SubSeq(u, k + 1, Len(u))) = 0
      BY <1>3, <2>1
    <3> QED
      BY <1>3, <1>4, <3>1, EmptySeq, Zenon
  <2> QED
    BY <2>1
<1>13. u[1].op = "search" => m = search_request(asked[p]) /\ asked[p] \in Names
  <2>1. CASE u[1].op = "search"
    <3>1. asked[p] \in Names
      BY <1>11, <2>1 DEF PeerTypes
    <3>2. SubSeq(u, 1, k) = <<search_request(asked[p])>>
      <4>1. SubSeq(u, 1, 1) = <<u[1]>>
        BY <1>8, <1>11, <2>1, Single
      <4> QED
        BY <1>11, <2>1, <4>1
    <3> QED
      BY <3>1, <3>2, CoalescedOne
  <2> QED
    BY <2>1
<1> HIDE DEF u, m
<1>14. SearchIsLast(p)'
  <2> SUFFICES ASSUME NEW j \in 1 .. Len(up'[p]), up'[p][j].op = "search"
               PROVE  j = Len(up'[p]) /\ pc[p] = "wait" /\ up'[p][j] = search_request(asked[p])
    BY <1>2 DEF SearchIsLast
  <2>1. j \in 1 .. Len(u) - k /\ Len(up'[p]) = Len(u) - k
    BY <1>3, <1>4
  <2>2. up'[p][j] = u[j + k] /\ j + k \in 1 .. Len(u)
    BY <1>3, <1>4, <2>1
  <2>3. j + k = Len(u) /\ pc[p] = "wait" /\ u[j + k] = search_request(asked[p])
    BY <1>10, <2>2
  <2> QED
    BY <1>3, <2>1, <2>2, <2>3
<1>15. SearchIsAlone(p)'
  <2>1. CASE u[1].op = "search"
    BY <1>2, <1>4, <1>6, <1>9, <1>11, <1>12, <1>13, <2>1 DEF SearchIsAlone
  <2>2. CASE u[1].op # "search"
    BY <1>4, <1>5, <2>2 DEF SearchIsAlone, IsSearch
  <2> QED
    BY <2>1, <2>2
<1>16. OneReply(p)' /\ ReplyIsTrue(p)'
  BY <1>2, <1>6, <1>9 DEF OneReply, ReplyIsTrue
<1>17. EndIsClean(p)'
  BY <1>2 DEF PeerInv, EndIsClean
<1>18. RequestIsOwn(p)'
  BY <1>4, <1>5 DEF RequestIsOwn
<1>19. WaitIsExplained(p)'
  <2> SUFFICES ASSUME pc[p] = "wait", ~Dead(p) PROVE WaitIsExplained(p)'
    BY <1>2 DEF WaitIsExplained, Dead
  <2>1. u[Len(u)] = search_request(asked[p]) /\ u[Len(u)].op = "search"
    <3>1. u[Len(u)] = search_request(asked[p])
      BY <1>2, <1>8, <1>9 DEF PeerInv, WaitIsExplained, IsSearch, u
    <3> QED
      BY <3>1 DEF search_request
  <2>2. CASE k < Len(u)
    <3>0. Len(up'[p]) = Len(u) - k /\ Len(u) - k \in 1 .. Len(u) - k /\ Len(u) - k # 0
      <4>1. Len(up'[p]) = Len(u) - k
        BY <1>3, <1>4, Zenon
      <4> DEFINE n == Len(u)
      <4>2. n \in Nat /\ k \in Int /\ 1 <= k /\ k < n
        BY <1>3, <2>2
      <4> HIDE DEF n
      <4>3. n - k \in 1 .. n - k /\ n - k # 0
        BY <4>2
      <4> QED
        BY <4>1, <4>3, Zenon DEF n
    <3>1. up'[p] # <<>> /\ Len(up'[p]) = Len(u) - k /\ Len(u) - k \in 1 .. Len(u) - k
      BY <3>0, Empty
    <3>2. up'[p][Len(u) - k] = u[(Len(u) - k) + k]
      BY <1>3, <1>4, <3>1
    <3>3. (Len(u) - k) + k = Len(u)
      BY <1>3
    <3> QED
      BY <1>2, <2>1, <3>1, <3>2, <3>3 DEF WaitIsExplained
  <2>3. CASE k = Len(u) /\ k > 1
    BY <1>4, <1>12, <2>1, <2>3 DEF WaitIsExplained
  <2>4. CASE k = Len(u) /\ k = 1
    <3>1. IsSearch(inbox'[p])
      <4>1. m = search_request(asked[p])
        BY <1>13, <2>1, <2>4
      <4>2. m \in Requests
        BY <1>1, <1>3, Parts, SentAssumption DEF m, u
      <4> QED
        BY <1>4, <4>1, <4>2, NoneAssumption DEF IsSearch, search_request
    <3> QED
      BY <3>1 DEF WaitIsExplained
  <2> QED
    BY <1>3, <2>2, <2>3, <2>4
<1> QED
  BY <1>7, <1>14, <1>15, <1>16, <1>17, <1>18, <1>19 DEF PeerInv

\* The table as the steps of the peers leave it.
LEMMA TableRests ==
  ASSUME SlotInv, RefusedAreDone, TypeOK, UNCHANGED <<phase, clients, fdconn>>,
         \A q \in Conns : conn[q] = "done" => conn'[q] = "done"
  PROVE  SlotInv' /\ RefusedAreDone'
<1>1. ActiveSlots' = ActiveSlots /\ OpenFds' = OpenFds
  BY DEF ActiveSlots, OpenFds
<1>2. SlotInv'
  BY <1>1 DEF SlotInv
<1> QED
  BY <1>1, <1>2 DEF RefusedAreDone

LEMMA PeerStepInv ==
  ASSUME TypeOK, SessionInv, PeerTypes', NEW p \in Conns,
         PeerCommand(p) \/ PeerRuns(p) \/ Arrive(p) \/ Breaks(p)
  PROVE  SessionInv'
<1>1. PeerTypes /\ PeerInv(p)
  BY DEF SessionInv
<1>2. \A m \in {join_request(p), register_request, publish_request(p)} :
        m \in PeerRequests(p) /\ m.op # "search"
  BY DEF PeerRequests, join_request, register_request, publish_request
<1>3. PeerInv(p)' /\ \A q \in Conns \ {p} : Untouched(q)
  <2>1. CASE Connects(p)
    BY <1>1, <2>1, ConnectsInv
  <2>2. CASE Panics(p) \/ FetchReturns(p) \/ Exit(p) \/ OtherCommand(p) \/ (Leaves(p) /\ Dead(p))
    BY <1>1, <2>2, LocalInv
  <2>3. CASE send_join(p) \/ send_register(p)
    BY <1>1, <1>2, <2>3, WriteInv DEF send_join, send_register, JoinOrRegister, Typed
  <2>4. CASE send_publish(p)
    BY <1>1, <1>2, <2>4, WriteInv DEF send_publish, Typed
  <2>5. CASE \E n \in Names : search_registry(p, n)
    BY <1>1, <2>5, SearchInv
  <2>6. CASE Answered(p)
    BY <1>1, <2>6, AnsweredInv
  <2>7. CASE SearchFails(p)
    BY <1>1, <2>7, FailsInv
  <2>8. CASE Leaves(p) /\ ~Dead(p)
    BY <1>1, <2>8, LeavesInv
  <2>9. CASE Arrive(p)
    BY <1>1, <2>9, ArriveInv
  <2>10. CASE Breaks(p)
    BY <1>1, <2>10, BreaksInv
  <2> QED
    BY <2>1, <2>2, <2>3, <2>4, <2>5, <2>6, <2>7, <2>8, <2>9, <2>10 DEF PeerCommand, PeerRuns
<1>4. \A q \in Conns : PeerInv(q)'
  BY <1>3, KeptInv DEF SessionInv
<1>5. /\ UNCHANGED <<phase, clients, fdconn>>
      /\ conn' = conn \/ (conn[p] = "idle" /\ conn' = [conn EXCEPT ![p] = "backlog"])
  <2>1. CASE UNCHANGED vars
    BY <2>1 DEF vars
  <2>2. CASE Connect(p)
    BY <2>2 DEF Connect, table
  <2>3. CASE TakeReply(p) \/ Close(p) \/ Reset(p) \/ \E m : Deliver(p, m)
    BY <2>3 DEF TakeReply, Close, Reset, Deliver, table
  <2>4. UNCHANGED vars \/ Connect(p) \/ TakeReply(p) \/ Close(p) \/ Reset(p) \/ \E m : Deliver(p, m)
    BY DEF PeerCommand, Connects, Panics, send_join, send_register, JoinOrRegister, send_publish,
           search_registry, Exit, OtherCommand, sessionVars, PeerRuns, Answered, SearchFails,
           FetchReturns, Leaves, Arrive, Breaks
  <2> QED
    BY <2>1, <2>2, <2>3, <2>4
<1>6. \A q \in Conns : conn[q] = "done" => conn'[q] = "done"
  BY <1>5 DEF TypeOK
<1>7. SlotInv' /\ RefusedAreDone'
  BY <1>5, <1>6, TableRests DEF SessionInv
<1> QED
  BY <1>4, <1>7 DEF SessionInv

-----------------------------------------------------------------------------
(* The steps of the registry                                               *)

LEMMA IdleHoldsNothing ==
  ASSUME NEW q \in Conns
  PROVE  (sending = Idle => Held(q) = <<>>) /\ (sending' = Idle => Held(q)' = <<>>)
BY NoneAssumption DEF Held, Idle

\* What stays when the registry does something.
LEMMA PeersRest ==
  ASSUME UNCHANGED peerVars, NEW q \in Conns
  PROVE  pc'[q] = pc[q] /\ asked'[q] = asked[q] /\ swallowed'[q] = swallowed[q] /\ up'[q] = up[q]
BY DEF peerVars

\* The steps that leave connections and slots alone.
LEMMA IdleStepInv ==
  ASSUME TypeOK, TableInvariant, SessionInv, PeerTypes', UNCHANGED peerVars,
         UNCHANGED <<clients, sending, fdconn, net>>,
         phase' = phase \/ phase' # "run" \/ phase = "start"
  PROVE  SessionInv'
<1>1. \A q \in Conns : Untouched(q)
  BY PeersRest DEF Untouched, net, Held, Recorded, ActiveSlots
<1>2. \A q \in Conns : PeerInv(q)'
  BY <1>1, KeptInv DEF SessionInv
<1>3. ActiveSlots' = ActiveSlots /\ OpenFds' = OpenFds /\ conn' = conn
  BY DEF ActiveSlots, OpenFds, net
<1>4. SlotInv'
  BY <1>3 DEF SessionInv, SlotInv
<1>5. phase = "start" => ActiveSlots = {}
  BY DEF TableInvariant, PassIsSound
<1>6. RefusedAreDone'
  BY <1>3, <1>5 DEF SessionInv, RefusedAreDone
<1> QED
  BY <1>2, <1>4, <1>6 DEF SessionInv

\* A connection ends, from the registry's side: nothing is on the way to its
\* peer but a reply that was sent before.
LEMMA EndedInv ==
  ASSUME NEW p \in Conns, PeerInv(p), UNCHANGED peerVars,
         conn'[p] = "done" \/ (conn[p] = "idle" /\ conn'[p] = "idle"),
         inbox'[p] = None, gone'[p] = "no", outbox'[p] = outbox[p] \/ outbox'[p] = <<>>,
         Held(p)' = <<>>
  PROVE  PeerInv(p)'
<1>1. pc'[p] = pc[p] /\ asked'[p] = asked[p] /\ swallowed'[p] = swallowed[p] /\ up'[p] = up[p]
  BY PeersRest
<1>2. SearchIsLast(p)'
  BY <1>1 DEF PeerInv, SearchIsLast
<1>3. SearchIsAlone(p)' /\ RequestIsOwn(p)'
  BY DEF SearchIsAlone, IsSearch, RequestIsOwn
<1>4. OneReply(p)'
  BY <1>1 DEF PeerInv, OneReply
<1>5. EndIsClean(p)'
  BY <1>1 DEF PeerInv, EndIsClean
<1>6. WaitIsExplained(p)'
  BY <1>1 DEF PeerInv, EndIsClean, WaitIsExplained, Dead
<1>7. ReplyIsTrue(p)'
  BY <1>1 DEF PeerInv, ReplyIsTrue, Truthful
<1> QED
  BY <1>2, <1>3, <1>4, <1>5, <1>6, <1>7 DEF PeerInv

\* The registry ends.
LEMMA ExitInv ==
  ASSUME TypeOK, SessionInv, PeerTypes', UNCHANGED peerVars, Shutdown \/ Die
  PROVE  SessionInv'
<1>1. CloseEverything /\ UNCHANGED outbox /\ phase' # "run"
  BY DEF Shutdown, Die
<1>2. ASSUME NEW q \in Conns PROVE PeerInv(q)'
  <2>1. /\ conn'[q] = IF conn[q] = "idle" THEN "idle" ELSE "done"
        /\ inbox'[q] = None /\ gone'[q] = "no" /\ sending' = Idle
    BY <1>1 DEF CloseEverything
  <2>2. Held(q)' = <<>>
    BY <2>1, IdleHoldsNothing
  <2> QED
    BY <1>1, <2>1, <2>2, EndedInv DEF SessionInv
<1>3. SlotInv'
  <2>1. CASE Die
    BY <2>1 DEF Die, table, SessionInv, SlotInv, ActiveSlots
  <2>2. CASE Shutdown
    <3>1. \A i \in Slots : ~clients'[i].active
      <4> SUFFICES ASSUME NEW i \in Slots PROVE ~clients'[i].active
        OBVIOUS
      <4>1. clients'[i] = IF clients[i].active THEN ClearClient(clients[i]) ELSE clients[i]
        BY <2>2 DEF Shutdown
      <4>2. clients[i] \in Clients
        BY DEF TypeOK
      <4>3. ClearClient(clients[i]).active = FALSE
        BY <4>2 DEF ClearClient, Clients
      <4> QED
        BY <4>1, <4>3
    <3>2. ActiveSlots' = {}
      BY <3>1 DEF ActiveSlots
    <3> QED
      BY <3>2 DEF SlotInv
  <2> QED
    BY <2>1, <2>2
<1>4. RefusedAreDone'
  BY <1>1 DEF RefusedAreDone
<1> QED
  BY <1>2, <1>3, <1>4 DEF SessionInv

LEMMA AcceptAbortedInv ==
  ASSUME TypeOK, SessionInv, PeerTypes', UNCHANGED peerVars, NEW c \in Conns,
         AcceptFails(c), UNCHANGED <<conn, inbox, gone>> => FALSE
  PROVE  SessionInv'
<1>1. /\ sending = Idle /\ conn[c] = "backlog"
      /\ conn' = [conn EXCEPT ![c] = "done"] /\ inbox' = [inbox EXCEPT ![c] = None]
      /\ gone' = [gone EXCEPT ![c] = "no"]
      /\ UNCHANGED <<phase, clients, sending, fdconn, outbox>>
  BY DEF AcceptFails, Dispatched, table
<1>2. conn'[c] = "done" /\ inbox'[c] = None /\ gone'[c] = "no" /\ Held(c)' = <<>>
  BY <1>1, IdleHoldsNothing DEF TypeOK
<1>3. PeerInv(c)'
  BY <1>1, <1>2, EndedInv DEF SessionInv
<1>4. ASSUME NEW q \in Conns \ {c} PROVE PeerInv(q)'
  <2>1. conn'[q] = conn[q] /\ inbox'[q] = inbox[q] /\ gone'[q] = gone[q] /\ outbox'[q] = outbox[q]
    BY <1>1 DEF TypeOK
  <2>2. Held(q)' = Held(q) /\ (Recorded(q)' => Recorded(q))
    BY <1>1 DEF Held, Recorded, ActiveSlots
  <2>3. Untouched(q)
    BY <2>1, <2>2, PeersRest DEF Untouched
  <2> QED
    BY <2>3, KeptInv DEF SessionInv
<1>5. \A q \in Conns : conn[q] = "done" => conn'[q] = "done"
  BY <1>1 DEF TypeOK
<1>6. SlotInv' /\ RefusedAreDone'
  BY <1>1, <1>5, TableRests DEF SessionInv
<1> QED
  BY <1>3, <1>4, <1>6 DEF SessionInv

LEMMA AcceptFailsInv ==
  ASSUME TypeOK, TableInvariant, SessionInv, PeerTypes', UNCHANGED peerVars,
         NEW c \in Conns, AcceptFails(c)
  PROVE  SessionInv'
<1>1. CASE UNCHANGED <<conn, inbox, gone>>
  <2>1. UNCHANGED <<phase, clients, sending, fdconn, net>>
    BY <1>1 DEF AcceptFails, table, net
  <2> QED
    BY <2>1, IdleStepInv
<1> QED
  BY <1>1, AcceptAbortedInv

\* The new slot says nothing yet, and no other peer's JOIN gets recorded.
LEMMA AddedSays ==
  ASSUME TypeOK, TableInvariant, SessionInv, NEW c \in Conns, NEW fd \in Fds, NEW i \in Slots,
         Added(fd, c, i)
  PROVE  /\ SlotInv'
         /\ \A q \in Conns \ {c} : Recorded(q)' => Recorded(q)
         /\ \A j \in ActiveSlots' : j = i \/ (j \in ActiveSlots /\ clients'[j] = clients[j])
<1>1. \A j \in ActiveSlots' : j = i \/ (j \in ActiveSlots /\ clients'[j] = clients[j])
  BY DEF Added, ActiveSlots
<1>2. clients'[i].id = 0 /\ clients'[i].files = <<>> /\ clients'[i].addr = c
  BY DEF Added, TableInvariant, FreedSlotsAreBlank
<1>3. SlotInv'
  BY <1>1, <1>2 DEF SessionInv, SlotInv
<1>4. \A q \in Conns \ {c} : Recorded(q)' => Recorded(q)
  BY <1>1, <1>2 DEF Recorded
<1> QED
  BY <1>1, <1>3, <1>4

LEMMA AcceptInv ==
  ASSUME TypeOK, TableInvariant, SessionInv, PeerTypes', UNCHANGED peerVars,
         NEW c \in Conns, Accept(c)
  PROVE  SessionInv'
<1>1. /\ conn[c] = "backlog" /\ conn' = [conn EXCEPT ![c] = "accepted"]
      /\ phase = "run" /\ sending = Idle
      /\ UNCHANGED <<phase, sending, inbox, gone, outbox>> /\ Dispatched(listen_sock)
  BY DEF Accept, Dispatched
<1>2. PICK fd \in Fds : LowestFree(fd) /\ fdconn' = [fdconn EXCEPT ![fd] = c] /\ AddClient(fd, c)
  BY DEF Accept
<1>3. PICK i \in Slots : Added(fd, c, i)
  BY <1>1, <1>2, AddWithinPass
<1>4. /\ SlotInv'
      /\ \A q \in Conns \ {c} : Recorded(q)' => Recorded(q)
      /\ \A j \in ActiveSlots' : j = i \/ (j \in ActiveSlots /\ clients'[j] = clients[j])
  BY <1>3, AddedSays
<1>5. PeerInv(c)'
  <2>0. conn'[c] = "accepted" /\ PeerInv(c)
    BY <1>1 DEF TypeOK, SessionInv
  <2>1. /\ pc'[c] = pc[c] /\ asked'[c] = asked[c] /\ swallowed'[c] = swallowed[c]
        /\ up'[c] = up[c]
    BY PeersRest
  <2>2. inbox'[c] = inbox[c] /\ gone'[c] = gone[c] /\ outbox'[c] = outbox[c] /\ Held(c)' = Held(c)
    BY <1>1 DEF Held
  <2>3. SearchIsLast(c)'
    BY <2>0, <2>1 DEF PeerInv, SearchIsLast
  <2>4. SearchIsAlone(c)'
    BY <2>0, <2>1, <2>2 DEF PeerInv, SearchIsAlone, IsSearch
  <2>5. OneReply(c)'
    BY <2>0, <2>1, <2>2 DEF PeerInv, OneReply
  <2>6. EndIsClean(c)'
    BY <2>0, <2>1, <2>2 DEF PeerInv, EndIsClean
  <2>7. WaitIsExplained(c)'
    BY <1>1, <2>0, <2>1, <2>2 DEF PeerInv, WaitIsExplained, IsSearch, Dead
  <2>8. RequestIsOwn(c)' /\ ReplyIsTrue(c)'
    BY <2>0, <2>1, <2>2 DEF PeerInv, RequestIsOwn, ReplyIsTrue, Truthful
  <2> QED
    BY <2>3, <2>4, <2>5, <2>6, <2>7, <2>8 DEF PeerInv
<1>6. ASSUME NEW q \in Conns \ {c} PROVE PeerInv(q)'
  <2>1. conn'[q] = conn[q] /\ inbox'[q] = inbox[q] /\ gone'[q] = gone[q] /\ outbox'[q] = outbox[q]
    BY <1>1 DEF TypeOK
  <2>2. Held(q)' = Held(q)
    BY <1>1 DEF Held
  <2>3. Untouched(q)
    BY <1>4, <2>1, <2>2, PeersRest DEF Untouched
  <2> QED
    BY <2>3, KeptInv DEF SessionInv
<1>7. RefusedAreDone'
  <2>1. OpenFds' = OpenFds \cup {fd}
    BY <1>2, NoneAssumption DEF OpenFds, TypeOK
  <2>2. \A q \in Conns : conn[q] = "done" => conn'[q] = "done"
    BY <1>1 DEF TypeOK
  <2>3. clients'[i].sock = fd /\ clients'[i].addr = c
    BY <1>3 DEF Added
  <2> QED
    BY <1>1, <1>4, <2>1, <2>2, <2>3 DEF SessionInv, RefusedAreDone
<1> QED
  BY <1>4, <1>5, <1>6, <1>7 DEF SessionInv

LEMMA OverLimitInv ==
  ASSUME TypeOK, TableInvariant, SessionInv, PeerTypes', UNCHANGED peerVars,
         NEW c \in Conns, AcceptOverLimit(c)
  PROVE  SessionInv'
<1>1. /\ sending = Idle /\ conn[c] = "backlog" /\ phase = "run" /\ Dispatched(listen_sock)
      /\ conn' = [conn EXCEPT ![c] = "done"] /\ inbox' = [inbox EXCEPT ![c] = None]
      /\ gone' = [gone EXCEPT ![c] = "no"]
      /\ UNCHANGED <<phase, sending, fdconn, outbox>>
      /\ UNCHANGED table \/ \E fd \in Fds : LowestFree(fd) /\ AddClient(fd, c)
  BY DEF AcceptOverLimit, Dispatched
<1>2. conn'[c] = "done" /\ inbox'[c] = None /\ gone'[c] = "no" /\ Held(c)' = <<>>
  BY <1>1, IdleHoldsNothing DEF TypeOK
<1>3. PeerInv(c)'
  BY <1>1, <1>2, EndedInv DEF SessionInv
<1>4. \A q \in Conns : conn[q] = "done" => conn'[q] = "done"
  BY <1>1 DEF TypeOK
<1>5. SlotInv' /\ RefusedAreDone' /\ \A q \in Conns \ {c} : Recorded(q)' => Recorded(q)
  <2>1. CASE UNCHANGED table
    <3>1. SlotInv' /\ RefusedAreDone'
      BY <1>1, <1>4, <2>1, TableRests DEF SessionInv, table
    <3> QED
      BY <2>1, <3>1 DEF table, Recorded, ActiveSlots
  <2>2. CASE \E fd \in Fds : LowestFree(fd) /\ AddClient(fd, c)
    <3>1. PICK fd \in Fds : LowestFree(fd) /\ AddClient(fd, c)
      BY <2>2
    <3>2. PICK i \in Slots : Added(fd, c, i)
      BY <1>1, <3>1, AddWithinPass
    <3>3. /\ SlotInv'
          /\ \A q \in Conns \ {c} : Recorded(q)' => Recorded(q)
          /\ \A j \in ActiveSlots' : j = i \/ (j \in ActiveSlots /\ clients'[j] = clients[j])
      BY <3>2, AddedSays
    <3>4. clients'[i].addr = c /\ OpenFds' = OpenFds
      BY <1>1, <3>2 DEF Added, OpenFds
    <3>5. RefusedAreDone'
      BY <1>1, <1>2, <1>4, <3>3, <3>4 DEF SessionInv, RefusedAreDone
    <3> QED
      BY <3>3, <3>5
  <2> QED
    BY <1>1, <2>1, <2>2
<1>6. ASSUME NEW q \in Conns \ {c} PROVE PeerInv(q)'
  <2>1. conn'[q] = conn[q] /\ inbox'[q] = inbox[q] /\ gone'[q] = gone[q] /\ outbox'[q] = outbox[q]
    BY <1>1 DEF TypeOK
  <2>2. Held(q)' = Held(q)
    BY <1>1 DEF Held
  <2>3. Untouched(q)
    BY <1>5, <2>1, <2>2, PeersRest DEF Untouched
  <2> QED
    BY <2>3, KeptInv DEF SessionInv
<1> QED
  BY <1>3, <1>5, <1>6 DEF SessionInv

\* The slot of the descriptor that is being served is the only slot that holds
\* its peer's address, and that peer is connected.
LEMMA SlotOfServed ==
  ASSUME TypeOK, TableInvariant, DirectoryInvariant, RefusedAreDone, phase = "run",
         NEW s \in Fds, NEW i \in Slots, NEW c \in Conns, Owns(i, s), fdconn[s] = c
  PROVE  /\ i \in ActiveSlots /\ clients[i].sock = s /\ clients[i].addr = c
         /\ conn[c] = "accepted" /\ s \in OpenFds
         /\ \A j \in ActiveSlots : clients[j].addr = c => j = i
<1>1. i \in ActiveSlots /\ clients[i].sock = s /\ s \in OpenFds
  BY NoneAssumption DEF Owns, ActiveSlots, OpenFds
<1>2. clients[i].addr = c
  BY <1>1 DEF TableInvariant, OpenAreRecorded, SocketsAreDistinct
<1>3. conn[c] = "accepted"
  BY <1>1 DEF DirectoryInvariant, AcceptedOnce
<1>4. ASSUME NEW j \in ActiveSlots, clients[j].addr = c PROVE j = i
  <2>1. clients[j].sock \in OpenFds
    BY <1>3, <1>4 DEF RefusedAreDone
  <2>2. fdconn[clients[j].sock] = c
    BY <1>4, <2>1 DEF TableInvariant, OpenAreRecorded, SocketsAreDistinct
  <2>3. clients[j].sock = s
    BY <1>1, <2>1, <2>2 DEF DirectoryInvariant, AcceptedOnce
  <2> QED
    BY <1>1, <2>3 DEF TableInvariant, SocketsAreDistinct
<1> QED
  BY <1>1, <1>2, <1>3, <1>4

\* What a search comes to: "not found", or a peer that shares such a name.
LEMMA ResultsAreTrue ==
  ASSUME TypeOK, SlotInv, NEW n \in Names, NEW r \in SearchResults(n), Found(r)
  PROVE  /\ r.addr \in Conns
         /\ r.id = peer_id[r.addr]
         /\ \E f \in 1 .. Len(shared_dir[r.addr]) : NameMatches(shared_dir[r.addr][f], n)
<1>1. r # NotFound
  BY DEF Found, NotFound
<1>2. PICK i \in Slots : MayMatch(i, n) /\ r = ReplyFor(i)
  BY <1>1 DEF SearchResults
<1>3. i \in ActiveSlots /\ clients[i] \in Clients
  BY <1>2 DEF MayMatch, ActiveSlots, TypeOK
<1>4. clients[i].addr \in V4 /\ r.id = clients[i].id /\ r.addr = clients[i].addr
  BY <1>1, <1>2 DEF ReplyFor
<1>5. r.addr \in Conns
  BY <1>4, DataAssumption
<1>6. r.id = peer_id[r.addr]
  BY <1>3, <1>4 DEF SlotInv, Found
<1>7. PICK k \in 1 .. Len(clients[i].files) : NameMatches(clients[i].files[k], n)
  BY <1>2 DEF MayMatch, FilesOf
<1>8. clients[i].files # <<>>
  <2>1. clients[i].files \in Seq(Names)
    BY <1>3 DEF Clients
  <2> QED
    BY <1>7, <2>1
<1>9. clients[i].files = Fitting(shared_dir[r.addr])
  BY <1>3, <1>4, <1>8 DEF SlotInv
<1>10. shared_dir[r.addr] \in Seq(Names)
  BY <1>5, PeersAssumption
<1>11. PICK f \in 1 .. Len(shared_dir[r.addr]) : clients[i].files[k] = shared_dir[r.addr][f]
  BY <1>7, <1>9, <1>10, FittingIsPrefix
<1> QED
  BY <1>5, <1>6, <1>7, <1>11

\* What any request does to the conversation with the others.
LEMMA OthersRest ==
  ASSUME TypeOK, TableInvariant, DirectoryInvariant, SessionInv, UNCHANGED peerVars,
         NEW s \in Fds, NEW i \in Slots, NEW c \in Conns, Dispatched(s), ClientRequest(s, i, c),
         NEW q \in Conns \ {c}
  PROVE  PeerInv(q)'
<1>1. /\ phase = "run" /\ sending = Idle /\ Owns(i, s) /\ fdconn[s] = c
      /\ inbox[c] # None /\ inbox' = [inbox EXCEPT ![c] = None] /\ Handle(i, inbox[c])
  BY DEF Dispatched, ClientRequest, Received, TakesRequest
<1>2. inbox[c] \in Requests /\ clients[i].sock = s
  BY <1>1 DEF TypeOK, Owns
<1>3. UNCHANGED <<phase, fdconn, conn, gone, outbox>>
  BY <1>1, <1>2, HandleTyped
<1>4. /\ \A j \in Slots : clients'[j].active = clients[j].active /\ clients'[j].addr = clients[j].addr
      /\ \A j \in Slots \ {i} : clients'[j] = clients[j]
  BY <1>1, <1>2, HandlerRewrites
<1>5. clients[i].addr = c
  BY <1>1, SlotOfServed DEF SessionInv
<1>6. Recorded(q)' => Recorded(q)
  BY <1>4, <1>5 DEF Recorded, ActiveSlots
<1>7. Held(q) = <<>>
  BY <1>1, IdleHoldsNothing
<1>8. Held(q)' = <<>>
  <2>1. CASE sending' = sending
    BY <1>1, <2>1, IdleHoldsNothing
  <2>2. CASE sending' # sending
    <3>1. sending'.to = fdconn[clients[i].sock]
      BY <1>1, <2>2 DEF Handle, handle_join, handle_publish, handle_search, UnknownCommand
    <3> QED
      BY <1>1, <1>2, <3>1 DEF Held
  <2> QED
    BY <2>1, <2>2
<1>9. inbox'[q] = inbox[q]
  BY <1>1 DEF TypeOK
<1>10. Untouched(q)
  BY <1>3, <1>6, <1>7, <1>8, <1>9, PeersRest DEF Untouched
<1> QED
  BY <1>10, KeptInv DEF SessionInv

\* A request other than SEARCH is served.
LEMMA OtherRequestInv ==
  ASSUME TypeOK, TableInvariant, DirectoryInvariant, SessionInv, UNCHANGED peerVars,
         NEW s \in Fds, NEW i \in Slots, NEW c \in Conns, Dispatched(s), ClientRequest(s, i, c),
         inbox[c].op # "search"
  PROVE  PeerInv(c)' /\ SlotInv'
<1>1. /\ phase = "run" /\ sending = Idle /\ Owns(i, s) /\ fdconn[s] = c
      /\ inbox[c] # None /\ inbox' = [inbox EXCEPT ![c] = None] /\ Handle(i, inbox[c])
  BY DEF Dispatched, ClientRequest, Received, TakesRequest
<1> DEFINE m == inbox[c]
<1>2. m \in Requests /\ clients[i].sock = s /\ PeerInv(c)
  BY <1>1 DEF TypeOK, Owns, SessionInv
<1>3. UNCHANGED <<phase, fdconn, conn, gone, outbox>>
  BY <1>1, <1>2, HandleTyped
<1>4. /\ Rewrites(i, m)
      /\ \A j \in Slots : clients'[j].active = clients[j].active /\ clients'[j].addr = clients[j].addr
      /\ \A j \in Slots \ {i} : clients'[j] = clients[j]
  BY <1>1, <1>2, HandlerRewrites
<1>5. clients[i].addr = c /\ i \in ActiveSlots
  BY <1>1, SlotOfServed DEF SessionInv
<1>6. sending' = sending
  BY <1>1 DEF Handle, handle_join, handle_publish, UnknownCommand
<1>7. Held(c) = <<>> /\ Held(c)' = <<>> /\ inbox'[c] = None
  BY <1>1, <1>6, IdleHoldsNothing DEF TypeOK
<1>8. PeerInv(c)'
  <2>1. /\ pc'[c] = pc[c] /\ asked'[c] = asked[c] /\ swallowed'[c] = swallowed[c]
        /\ up'[c] = up[c] /\ conn'[c] = conn[c] /\ gone'[c] = gone[c] /\ outbox'[c] = outbox[c]
    BY <1>3, PeersRest
  <2>2. SearchIsLast(c)'
    BY <1>2, <2>1 DEF PeerInv, SearchIsLast
  <2>3. SearchIsAlone(c)' /\ RequestIsOwn(c)'
    BY <1>7 DEF SearchIsAlone, IsSearch, RequestIsOwn
  <2>4. OneReply(c)'
    BY <1>2, <1>7, <2>1 DEF PeerInv, OneReply
  <2>5. EndIsClean(c)'
    BY <1>2, <1>7, <2>1 DEF PeerInv, EndIsClean
  <2>6. WaitIsExplained(c)'
    BY <1>1, <1>2, <1>7, <2>1 DEF PeerInv, WaitIsExplained, IsSearch, Dead
  <2>7. ReplyIsTrue(c)'
    BY <1>2, <1>7, <2>1 DEF PeerInv, ReplyIsTrue, Truthful
  <2> QED
    BY <2>2, <2>3, <2>4, <2>5, <2>6, <2>7 DEF PeerInv
<1>9. /\ clients'[i].id = clients[i].id \/ clients'[i].id = peer_id[c]
      /\ clients'[i].files = clients[i].files \/ clients'[i].files = Fitting(shared_dir[c])
  <2>0. RequestIsOwn(c) /\ m # None
    BY <1>1, <1>2 DEF PeerInv
  <2>1. CASE UNCHANGED <<clients, sending>>
    BY <2>1
  <2>2. CASE m \in JoinRequests /\ clients'[i].id = m.id /\ clients'[i].files = clients[i].files
    <3>1. m.op = "join"
      BY <2>2 DEF JoinRequests
    <3> QED
      BY <2>0, <2>2, <3>1 DEF RequestIsOwn
  <2>3. CASE /\ m \in PublishRequests /\ clients'[i].id = clients[i].id
             /\ clients'[i].files = SubSeq(m.strs, 1, m.count)
    <3>1. m.op = "publish" /\ m.strs \in Seq(Names)
      BY <2>3 DEF PublishRequests
    <3>2. m.strs = Fitting(shared_dir[c]) /\ m.count = Len(m.strs)
      BY <2>0, <3>1 DEF RequestIsOwn
    <3>3. SubSeq(m.strs, 1, Len(m.strs)) = m.strs
      BY <3>1
    <3> QED
      BY <2>3, <3>2, <3>3
  <2>4. CASE m \in SearchRequests
    BY <2>4 DEF SearchRequests
  <2> QED
    BY <1>4, <2>1, <2>2, <2>3, <2>4 DEF Rewrites
<1>10. SlotInv'
  <2>1. ActiveSlots' = ActiveSlots
    BY <1>4 DEF ActiveSlots
  <2> SUFFICES ASSUME NEW j \in ActiveSlots
               PROVE  /\ clients'[j].files # <<>> =>
                           clients'[j].files = Fitting(shared_dir[clients'[j].addr])
                      /\ clients'[j].id # 0 => clients'[j].id = peer_id[clients'[j].addr]
    BY <2>1 DEF SlotInv
  <2>2. /\ clients[j].files # <<>> => clients[j].files = Fitting(shared_dir[clients[j].addr])
        /\ clients[j].id # 0 => clients[j].id = peer_id[clients[j].addr]
    BY DEF SessionInv, SlotInv
  <2>3. clients'[j].addr = clients[j].addr /\ j \in Slots
    BY <1>4 DEF ActiveSlots
  <2>4. CASE j = i
    BY <1>5, <1>9, <2>2, <2>3, <2>4
  <2>5. CASE j # i
    BY <1>4, <2>2, <2>3, <2>5
  <2> QED
    BY <2>4, <2>5
<1> QED
  BY <1>8, <1>10

\* A SEARCH is served.
LEMMA SearchServedInv ==
  ASSUME TypeOK, TableInvariant, DirectoryInvariant, SessionInv, UNCHANGED peerVars,
         NEW s \in Fds, NEW i \in Slots, NEW c \in Conns, Dispatched(s), ClientRequest(s, i, c),
         inbox[c].op = "search"
  PROVE  PeerInv(c)' /\ SlotInv'
<1>1. /\ phase = "run" /\ sending = Idle /\ Owns(i, s) /\ fdconn[s] = c
      /\ inbox[c] # None /\ inbox' = [inbox EXCEPT ![c] = None] /\ Handle(i, inbox[c])
  BY DEF Dispatched, ClientRequest, Received, TakesRequest
<1> DEFINE m == inbox[c]
<1>2. m \in Requests /\ clients[i].sock = s /\ PeerInv(c) /\ IsSearch(m)
  BY <1>1 DEF TypeOK, Owns, SessionInv, IsSearch
<1>3. UNCHANGED <<phase, fdconn, conn, gone, outbox>>
  BY <1>1, <1>2, HandleTyped
<1>4. handle_search(i, m) /\ UNCHANGED clients
  <2>1. handle_search(i, m)
    BY <1>1 DEF Handle
  <2> QED
    BY <2>1 DEF handle_search, table
<1>5. /\ up[c] = <<>> /\ outbox[c] = <<>>
      /\ gone[c] = "rst" \/ (pc[c] = "wait" /\ m = search_request(asked[c]))
  BY <1>2 DEF PeerInv, SearchIsAlone
<1>6. PICK n \in Names : m = search_request(n)
  BY <1>2 DEF PeerInv, SearchIsAlone
<1>7. m \in SearchRequests /\ m.tail = "clean" /\ m.eightbit = 0 /\ m.name = n /\ m.len = Len(n) + 1
  <2>1. m \in SearchRequests
    BY <1>2, RequestsAssumption
  <2> QED
    BY <1>6, <2>1 DEF search_request
<1>8. /\ pc'[c] = pc[c] /\ asked'[c] = asked[c] /\ swallowed'[c] = swallowed[c]
      /\ up'[c] = <<>> /\ conn'[c] = conn[c] /\ gone'[c] = gone[c] /\ outbox'[c] = <<>>
      /\ inbox'[c] = None /\ Len(up'[c]) = 0
  BY <1>1, <1>3, <1>5, PeersRest DEF TypeOK
<1>9. /\ i \in ActiveSlots /\ conn[c] = "accepted"
      /\ \A j \in ActiveSlots : clients[j].addr = c => j = i
  BY <1>1, SlotOfServed DEF SessionInv
<1>10. SlotInv'
  BY <1>4 DEF SessionInv, SlotInv, ActiveSlots
<1>11. SearchIsLast(c)' /\ SearchIsAlone(c)' /\ RequestIsOwn(c)' /\ EndIsClean(c)'
  <2>1. EndIsClean(c)'
    BY <1>2, <1>8, <1>9 DEF PeerInv, EndIsClean
  <2> QED
    BY <1>8, <2>1 DEF SearchIsLast, SearchIsAlone, IsSearch, RequestIsOwn
<1>12. CASE SearchAdmitted(i, m)
  <2>1. PICK find \in SearchedFor(m) : \E r \in SearchResults(find) :
          sending' = [to |-> fdconn[clients[i].sock], replies |-> Append(ExtraReplies(m), r)]
    BY <1>4, <1>12 DEF handle_search
  <2>2. find = n
    BY <1>7, <2>1 DEF SearchedFor
  <2>r. PICK r \in SearchResults(n) :
          sending' = [to |-> fdconn[clients[i].sock], replies |-> Append(ExtraReplies(m), r)]
    BY <2>1, <2>2
  <2>3. r \in SearchResults(n) /\ r \in Replies
    BY SearchTyped
  <2> DEFINE e == ExtraReplies(m)
             h == Append(e, r)
  <2>4. e \in Seq(Replies) /\ Len(e) = 0
    <3>1. e \in Seq(Replies)
      BY <1>7, ExtraTyped
    <3>2. e = [k \in 1 .. 0 |-> NotFound]
      BY <1>7 DEF ExtraReplies
    <3>3. e = <<>>
      BY <3>2
    <3> QED
      BY <3>1, <3>3
  <2>5. Held(c)' = h
    BY <1>1, <1>2, <2>r DEF Held
  <2> HIDE DEF e
  <2>6. Len(h) = 1 /\ h[1] = r
    BY <2>3, <2>4
  <2>8. h # <<>>
    <3>1. e \in Seq(Replies) /\ r \in Replies
      BY <2>3, <2>4
    <3> QED
      BY <3>1, AppendProperties, ZenonT(30)
  <2> HIDE DEF h
  <2>7. OneReply(c)'
    BY <1>5, <1>8, <2>5, <2>6 DEF OneReply
  <2>9. WaitIsExplained(c)'
    BY <2>5, <2>8 DEF WaitIsExplained
  <2>10. ReplyIsTrue(c)'
    <3> SUFFICES ASSUME gone[c] # "rst", Found(r)
                 PROVE  /\ r.addr \in Conns
                        /\ r.id = peer_id[r.addr]
                        /\ \E f \in 1 .. Len(shared_dir[r.addr]) :
                             NameMatches(shared_dir[r.addr][f], asked[c])
      BY <1>8, <2>5, <2>6 DEF ReplyIsTrue, Truthful
    <3>1. asked[c] = n
      BY <1>5, <1>7 DEF search_request
    <3> QED
      BY <2>3, <3>1, ResultsAreTrue DEF SessionInv
  <2> QED
    BY <1>10, <1>11, <2>7, <2>9, <2>10 DEF PeerInv
<1>13. CASE ~SearchAdmitted(i, m)
  <2>1. sending' = sending
    BY <1>4, <1>13 DEF handle_search
  <2>2. Held(c)' = <<>>
    BY <1>1, <2>1, IdleHoldsNothing
  <2>3. OneReply(c)' /\ ReplyIsTrue(c)'
    BY <1>8, <2>2 DEF OneReply, ReplyIsTrue
  <2>4. WaitIsExplained(c)'
    <3> SUFFICES ASSUME pc[c] = "wait", gone[c] # "rst" PROVE WaitIsExplained(c)'
      BY <1>8 DEF WaitIsExplained, Dead
    <3>1. m.len = Len(asked[c]) + 1
      <4>1. asked[c] = n
        BY <1>5, <1>7 DEF search_request
      <4> QED
        BY <1>7, <4>1
    <3>2. CASE clients[i].type = "UNKNOWN"
      <4>1. ~Recorded(c)'
        BY <1>4, <1>9, <3>2 DEF Recorded, ActiveSlots
      <4> QED
        BY <1>8, <1>9, <4>1 DEF WaitIsExplained
    <3>3. CASE ~(m.len < SearchLimit)
      <4>1. m.len \in Nat
        BY <1>7 DEF SearchRequests
      <4>2. Len(asked'[c]) + 1 >= SearchLimit
        BY <1>8, <3>1, <3>3, <4>1, SizesAssumption
      <4> QED
        BY <1>8, <4>2 DEF WaitIsExplained
    <3> QED
      BY <1>13, <3>2, <3>3 DEF SearchAdmitted
  <2> QED
    BY <1>10, <1>11, <2>3, <2>4 DEF PeerInv
<1> QED
  BY <1>12, <1>13

LEMMA RequestInv ==
  ASSUME TypeOK, TableInvariant, DirectoryInvariant, SessionInv, PeerTypes', UNCHANGED peerVars,
         NEW s \in Fds, NEW i \in Slots, NEW c \in Conns, Dispatched(s), ClientRequest(s, i, c)
  PROVE  SessionInv'
<1>1. PeerInv(c)' /\ SlotInv'
  BY OtherRequestInv, SearchServedInv
<1>2. \A q \in Conns \ {c} : PeerInv(q)'
  BY OthersRest
<1>3. RefusedAreDone'
  <2>1. Handle(i, inbox[c]) /\ inbox[c] \in Requests /\ phase = "run"
    BY DEF ClientRequest, TakesRequest, TypeOK, Dispatched
  <2>2. /\ \A j \in Slots : /\ clients'[j].active = clients[j].active
                            /\ clients'[j].sock = clients[j].sock
                            /\ clients'[j].addr = clients[j].addr
        /\ UNCHANGED <<phase, fdconn, conn>>
    BY <2>1, HandlerRewrites
  <2>3. ActiveSlots' = ActiveSlots /\ OpenFds' = OpenFds /\ ActiveSlots \subseteq Slots
    BY <2>2 DEF ActiveSlots, OpenFds
  <2> QED
    BY <2>2, <2>3 DEF SessionInv, RefusedAreDone
<1> QED
  BY <1>1, <1>2, <1>3 DEF SessionInv

LEMMA GoneInv ==
  ASSUME TypeOK, TableInvariant, DirectoryInvariant, SessionInv, PeerTypes', UNCHANGED peerVars,
         NEW s \in Fds, NEW i \in Slots, NEW c \in Conns, Dispatched(s), ClientGone(s, i, c)
  PROVE  SessionInv'
<1>1. /\ phase = "run" /\ sending = Idle /\ Owns(i, s) /\ fdconn[s] = c /\ clients[i].sock = s
      /\ inbox[c] = None
      /\ fdconn' = [fdconn EXCEPT ![clients[i].sock] = None]
      /\ clients' = [clients EXCEPT ![i] = ClearClient(@)]
      /\ conn' = [conn EXCEPT ![c] = "done"] /\ gone' = [gone EXCEPT ![c] = "no"]
      /\ outbox' = [outbox EXCEPT ![c] = <<>>]
      /\ UNCHANGED <<phase, inbox, sending>>
  BY DEF Dispatched, ClientGone, Received, CloseClient, Owns
<1>2. conn'[c] = "done" /\ inbox'[c] = None /\ gone'[c] = "no" /\ outbox'[c] = <<>> /\ Held(c)' = <<>>
  BY <1>1, IdleHoldsNothing DEF TypeOK
<1>3. PeerInv(c)'
  BY <1>2, EndedInv DEF SessionInv
<1>4. \A j \in ActiveSlots' : j \in ActiveSlots /\ j # i /\ clients'[j] = clients[j]
  <2>1. clients[i] \in Clients /\ clients'[i] = ClearClient(clients[i])
    BY <1>1 DEF TypeOK
  <2>2. clients'[i].active = FALSE
    BY <2>1 DEF ClearClient, Clients
  <2>3. \A j \in Slots \ {i} : clients'[j] = clients[j]
    BY <1>1 DEF TypeOK
  <2> QED
    BY <2>2, <2>3 DEF ActiveSlots
<1>5. SlotInv'
  BY <1>4 DEF SessionInv, SlotInv
<1>6. \A q \in Conns : Recorded(q)' => Recorded(q)
  BY <1>4 DEF Recorded
<1>7. ASSUME NEW q \in Conns \ {c} PROVE PeerInv(q)'
  <2>1. conn'[q] = conn[q] /\ inbox'[q] = inbox[q] /\ gone'[q] = gone[q] /\ outbox'[q] = outbox[q]
    BY <1>1 DEF TypeOK
  <2>2. Held(q)' = Held(q)
    BY <1>1 DEF Held
  <2>3. Untouched(q)
    BY <1>6, <2>1, <2>2, PeersRest DEF Untouched
  <2> QED
    BY <2>3, KeptInv DEF SessionInv
<1>8. RefusedAreDone'
  <2>1. OpenFds' = OpenFds \ {s}
    BY <1>1 DEF OpenFds, TypeOK
  <2>2. i \in ActiveSlots
    BY <1>1 DEF Owns, ActiveSlots
  <2>3. \A j \in ActiveSlots' : clients[j].sock # s
    BY <1>1, <1>4, <2>2 DEF TableInvariant, SocketsAreDistinct
  <2>4. \A q \in Conns : conn[q] = "done" => conn'[q] = "done"
    BY <1>1 DEF TypeOK
  <2> QED
    BY <1>1, <1>4, <2>1, <2>3, <2>4 DEF SessionInv, RefusedAreDone
<1> QED
  BY <1>3, <1>5, <1>7, <1>8 DEF SessionInv

\* A reply is sent, or cannot be.
LEMMA SendInv ==
  ASSUME TypeOK, DirectoryInvariant, SessionInv, PeerTypes', UNCHANGED peerVars,
         SendReply \/ SendLost \/ SendFails
  PROVE  SessionInv'
<1>0. /\ sending.replies # <<>>
      /\ UNCHANGED <<phase, clients, fdconn, conn, inbox, gone>>
  BY DEF SendReply, SendLost, SendFails, Busy, table, net
<1>p. PICK p \in Conns : p = sending.to
  BY <1>0 DEF DirectoryInvariant, AnswersHaveOwner
<1>h. PICK h \in Seq(Replies) : h = sending.replies
  BY DEF TypeOK
<1>1. h # <<>> /\ UNCHANGED <<phase, clients, fdconn, conn, inbox, gone>>
  BY <1>0, <1>h
<1>2. p \in Conns
  OBVIOUS
<1>3. Held(p) = h /\ \A q \in Conns \ {p} : Held(q) = <<>>
  BY <1>p, <1>h DEF Held
<1>4. PeerInv(p) /\ h \in Seq(Replies)
  BY DEF SessionInv
<1>5. /\ Len(h) = 1 /\ outbox[p] = <<>> /\ up[p] = <<>> /\ inbox[p] = None
      /\ pc[p] = "wait" \/ gone[p] = "rst"
  BY <1>1, <1>3, <1>4 DEF PeerInv, OneReply
<1>6. Head(h) = h[1]
  BY <1>4, <1>5, Single
<1>7. sending' = Idle
  BY <1>h, <1>5 DEF SendReply, SendLost, SendFails, Sent
<1>8. \A q \in Conns : Held(q)' = <<>>
  BY <1>7, IdleHoldsNothing
<1>9. \A q \in Conns : Recorded(q)' = Recorded(q)
  BY <1>1 DEF Recorded, ActiveSlots
<1>10. \A q \in Conns \ {p} : outbox'[q] = outbox[q]
  BY <1>p DEF SendReply, SendLost, SendFails, TypeOK, net
<1>11. ASSUME NEW q \in Conns \ {p} PROVE PeerInv(q)'
  <2>1. Untouched(q)
    BY <1>1, <1>3, <1>8, <1>9, <1>10, PeersRest DEF Untouched
  <2> QED
    BY <2>1, KeptInv DEF SessionInv
<1>12. /\ pc'[p] = pc[p] /\ asked'[p] = asked[p] /\ swallowed'[p] = swallowed[p]
       /\ up'[p] = <<>> /\ Len(up'[p]) = 0 /\ conn'[p] = conn[p] /\ gone'[p] = gone[p]
       /\ inbox'[p] = None
  BY <1>1, <1>2, <1>5, PeersRest
<1>13. \/ outbox'[p] = <<h[1]>> /\ gone[p] = "no"
       \/ outbox'[p] = <<>> /\ gone[p] = "rst"
  <2>1. CASE SendReply
    <3>1. outbox' = [outbox EXCEPT ![p] = Append(@, Head(h))] /\ gone[p] = "no"
      BY <1>p, <1>h, <2>1 DEF SendReply
    <3>2. outbox'[p] = Append(<<>>, h[1])
      BY <1>2, <1>5, <1>6, <3>1 DEF TypeOK
    <3> QED
      BY <3>1, <3>2
  <2>2. CASE SendLost
    BY <1>p, <1>4, <1>5, <2>2 DEF SendLost, PeerInv, EndIsClean
  <2>3. CASE SendFails
    BY <1>p, <1>5, <2>3 DEF SendFails, net
  <2> QED
    BY <2>1, <2>2, <2>3
<1>14. SearchIsLast(p)' /\ SearchIsAlone(p)' /\ RequestIsOwn(p)'
  BY <1>12 DEF SearchIsLast, SearchIsAlone, IsSearch, RequestIsOwn
<1>15. OneReply(p)'
  <2>1. Len(<<h[1]>>) = 1 /\ <<h[1]>> # <<>>
    OBVIOUS
  <2> QED
    BY <1>2, <1>5, <1>8, <1>12, <1>13, <2>1 DEF OneReply
<1>16. EndIsClean(p)'
  BY <1>2, <1>4, <1>8, <1>12, <1>13 DEF PeerInv, EndIsClean
<1>17. WaitIsExplained(p)'
  <2>1. <<h[1]>> # <<>>
    OBVIOUS
  <2> QED
    BY <1>12, <1>13, <2>1 DEF WaitIsExplained, Dead
<1>18. ReplyIsTrue(p)'
  <2>1. gone[p] # "rst" => Truthful(p, h[1])
    BY <1>1, <1>3, <1>4 DEF PeerInv, ReplyIsTrue
  <2>2. <<h[1]>>[1] = h[1]
    OBVIOUS
  <2> QED
    BY <1>2, <1>8, <1>12, <1>13, <2>1, <2>2 DEF ReplyIsTrue, Truthful
<1>19. PeerInv(p)'
  BY <1>14, <1>15, <1>16, <1>17, <1>18 DEF PeerInv
<1>20. SlotInv' /\ RefusedAreDone'
  BY <1>1, TableRests DEF SessionInv
<1> QED
  BY <1>11, <1>19, <1>20 DEF SessionInv

-----------------------------------------------------------------------------
(* The theorems                                                            *)

LEMMA InitSession == ASSUME SessionInit PROVE SessionInv
<1>1. PeerTypes
  BY InitPeers
<1>2. ActiveSlots = {} /\ phase = "start" /\ sending = Idle
  BY DEF SessionInit, Init, ActiveSlots, BlankClient
<1>3. SlotInv /\ RefusedAreDone
  BY <1>2 DEF SlotInv, RefusedAreDone
<1>4. ASSUME NEW p \in Conns PROVE PeerInv(p)
  <2>1. /\ pc[p] = "start" /\ up[p] = <<>> /\ Len(up[p]) = 0 /\ conn[p] = "idle"
        /\ inbox[p] = None /\ gone[p] = "no" /\ outbox[p] = <<>>
    BY DEF SessionInit, Init
  <2>2. Held(p) = <<>>
    BY <1>2, IdleHoldsNothing
  <2> QED
    BY <2>1, <2>2 DEF PeerInv, SearchIsLast, SearchIsAlone, IsSearch, OneReply, EndIsClean,
                      WaitIsExplained, RequestIsOwn, ReplyIsTrue
<1> QED
  BY <1>1, <1>3, <1>4 DEF SessionInv

LEMMA NextSession ==
  Underneath /\ PeerTypes' /\ SessionInv /\ [SessionNext]_sessionVars => SessionInv'
<1> SUFFICES ASSUME Underneath, PeerTypes', SessionInv, [SessionNext]_sessionVars PROVE SessionInv'
  OBVIOUS
<1>1. TypeOK /\ TableInvariant /\ DirectoryInvariant
  BY DEF Underneath
<1>2. CASE \E p \in Conns : PeerCommand(p) \/ PeerRuns(p) \/ Arrive(p) \/ Breaks(p)
  BY <1>1, <1>2, PeerStepInv
<1>3. CASE Quiet \/ UNCHANGED sessionVars
  <2>1. UNCHANGED peerVars /\ UNCHANGED <<phase, clients, sending, fdconn, net>>
    BY <1>3 DEF Quiet, sessionVars, vars, net
  <2> QED
    BY <1>1, <2>1, IdleStepInv
<1>4. CASE RegistryStep
  <2>1. UNCHANGED peerVars
    BY <1>4 DEF RegistryStep
  <2>2. CASE Start \/ StartFails \/ SelectReady \/ Finished
    <3>1. /\ UNCHANGED <<clients, sending, fdconn, net>>
          /\ phase' = phase \/ phase' # "run" \/ phase = "start"
      BY <2>2 DEF Start, StartFails, SelectReady, Finished, vars, table, net
    <3> QED
      BY <1>1, <2>1, <3>1, IdleStepInv
  <2>3. CASE SelectInterrupted \/ SelectError \/ SendKills
    BY <1>1, <2>1, <2>3, ExitInv DEF SelectInterrupted, SelectError, SendKills
  <2>4. CASE server_accept
    <3> PICK c \in Conns : AcceptFails(c) \/ Accept(c) \/ AcceptOverLimit(c)
      BY <2>4 DEF server_accept
    <3> QED
      BY <1>1, <2>1, AcceptFailsInv, AcceptInv, OverLimitInv
  <2>5. ASSUME NEW s \in Fds, handle_client(s) PROVE SessionInv'
    <3>0. Dispatched(s)
      BY <2>5 DEF handle_client
    <3>1. CASE \E i \in Slots : Owns(i, s)
      <4> PICK i \in Slots, c \in Conns : \/ ClientRequest(s, i, c)
                                          \/ ClientCrash(s, i, c)
                                          \/ ClientGone(s, i, c)
        BY <2>5, <3>1 DEF handle_client
      <4>1. CASE ClientRequest(s, i, c)
        BY <1>1, <2>1, <3>0, <4>1, RequestInv
      <4>2. CASE ClientCrash(s, i, c)
        BY <1>1, <2>1, <4>2, ExitInv DEF ClientCrash, PublishCrashes
      <4>3. CASE ClientGone(s, i, c)
        BY <1>1, <2>1, <3>0, <4>3, GoneInv
      <4> QED
        BY <4>1, <4>2, <4>3
    <3>2. CASE ~ \E i \in Slots : Owns(i, s)
      <4>1. UNCHANGED <<phase, clients, sending, fdconn, net>>
        BY <2>5, <3>2 DEF handle_client, table
      <4> QED
        BY <1>1, <2>1, <4>1, IdleStepInv
    <3> QED
      BY <3>1, <3>2
  <2>6. CASE SendReply \/ SendLost \/ SendFails
    BY <1>1, <2>1, <2>6, SendInv
  <2> QED
    BY <1>4, <2>2, <2>3, <2>4, <2>5, <2>6 DEF RegistryStep, Server
<1> QED
  BY <1>2, <1>3, <1>4 DEF SessionNext

\* The conversation between any number of peers and the registry stays
\* consistent, whatever the users type, however TCP runs requests together,
\* and whenever connections or the registry die.
THEOREM SessionConsistent == SessionSpec => []SessionInv
<1>1. Underneath => PeerTypes
  BY DEF Underneath
<1> QED
  BY <1>1, InitSession, NextSession, SessionIsARegistry, PTL DEF SessionSpec

\* The variables of the peers have their types, and a SEARCH on its way is the
\* last request of a peer that waits.
THEOREM SessionTypeCorrect == SessionSpec => []SessionTypeOK
<1>1. Underneath /\ SessionInv => SessionTypeOK
  BY DEF Underneath, SessionInv, PeerInv, SearchIsLast, PeerTypes, SessionTypeOK
<1> QED
  BY <1>1, SessionConsistent, SessionIsARegistry, PTL

\* A reply is only under way to a peer that waits for it, one at a time: what
\* search_registry reads is the answer to its own question.
THEOREM AnswersStayInStep == SessionSpec => []AnswersInStep
<1>1. TypeOK /\ SessionInv => AnswersInStep
  <2> SUFFICES ASSUME TypeOK, SessionInv, NEW p \in Conns, Owed(p) # <<>>
               PROVE  /\ Len(Owed(p)) = 1
                      /\ pc[p] = "wait" \/ gone[p] # "no" \/ conn[p] = "done"
                      /\ up[p] = <<>>
                      /\ inbox[p] = None
    BY DEF AnswersInStep
  <2>1. Owed(p) = outbox[p] \o Held(p)
    BY DEF Owed, Held
  <2>2. outbox[p] \in Seq(Replies) /\ Held(p) \in Seq(Replies)
    BY DEF TypeOK, Held
  <2>3. OneReply(p)
    BY DEF SessionInv, PeerInv
  <2>4. CASE outbox[p] # <<>>
    <3>1. Held(p) = <<>> /\ Len(outbox[p]) = 1
      BY <2>3, <2>4 DEF OneReply
    <3>2. Owed(p) = outbox[p]
      BY <2>1, <2>2, <3>1
    <3> QED
      BY <2>3, <2>4, <3>1, <3>2 DEF OneReply
  <2>5. CASE outbox[p] = <<>>
    <3>1. Owed(p) = Held(p)
      BY <2>1, <2>2, <2>5
    <3> QED
      BY <2>3, <3>1 DEF OneReply
  <2> QED
    BY <2>4, <2>5
<1>2. Underneath => TypeOK
  BY DEF Underneath
<1> QED
  BY <1>1, <1>2, SessionConsistent, SessionIsARegistry, PTL

\* A peer that is found has the id given with its address, and shares a name
\* that begins the name asked for.
THEOREM AnswersStayTruthful == SessionSpec => []AnswersAreTruthful
<1>1. TypeOK /\ SessionInv => AnswersAreTruthful
  <2> SUFFICES ASSUME TypeOK, SessionInv, NEW p \in Conns, NEW k \in 1 .. Len(outbox[p])
               PROVE  Truthful(p, outbox[p][k])
    BY DEF AnswersAreTruthful, Truthful
  <2>1. outbox[p] \in Seq(Replies)
    BY DEF TypeOK
  <2>2. outbox[p] # <<>>
    BY <2>1
  <2>3. Len(outbox[p]) = 1 /\ Truthful(p, outbox[p][1])
    BY <2>2 DEF SessionInv, PeerInv, OneReply, ReplyIsTrue
  <2>4. k \in 1 .. 1
    BY <2>3
  <2>5. k = 1
    BY <2>4
  <2> QED
    BY <2>3, <2>5
<1>2. Underneath => TypeOK
  BY DEF Underneath
<1> QED
  BY <1>1, <1>2, SessionConsistent, SessionIsARegistry, PTL

\* The list of names in a slot is empty or the one that its own peer sends.
THEOREM ListsStayWhole == SessionSpec => []PublishedWhole
<1>1. SessionInv => PublishedWhole
  BY DEF SessionInv, SlotInv, PublishedWhole
<1> QED
  BY <1>1, SessionConsistent, PTL

\* search_registry hangs only behind another request, before the registry has
\* recorded the JOIN, or over a name that is too long.
THEOREM HangsStayExplained == SessionSpec => []HangsAreExplained
<1>1. SessionInv => HangsAreExplained
  <2> SUFFICES ASSUME SessionInv, NEW p \in Conns, Hangs(p)
               PROVE  swallowed[p] \/ ~Recorded(p) \/ Len(asked[p]) + 1 >= SearchLimit
    BY DEF HangsAreExplained
  <2>1. WaitIsExplained(p)
    BY DEF SessionInv, PeerInv
  <2>2. Held(p) = <<>> /\ ~IsSearch(inbox[p])
    BY DEF Hangs, Held, IsSearch
  <2> QED
    BY <2>1, <2>2 DEF Hangs, WaitIsExplained
<1> QED
  BY <1>1, SessionConsistent, PTL

=============================================================================
