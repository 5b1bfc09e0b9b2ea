--------------------------- MODULE RegistryProofs ---------------------------
(***************************************************************************)
(* Theorems about Registry, for every value of its constants: its types,   *)
(* its table, and that it implements the Directory.                        *)
(***************************************************************************)
EXTENDS RegistryDirectory, FiniteSetTheorems, SequenceTheorems, TLAPS

-----------------------------------------------------------------------------
(* Type correctness                                                        *)

LEMMA InitTyped == Init => TypeOK
<1> SUFFICES ASSUME Init PROVE TypeOK
  OBVIOUS
<1>1. BlankClient \in Clients
  BY DataAssumption DEF BlankClient, Clients
<1>2. Idle \in [to : Conns \cup {None}, replies : Seq(Replies)]
  BY DEF Idle
<1>3. outbox \in [Conns -> Seq(Replies)]
  BY DEF Init
<1>4. clients \in [Slots -> Clients]
  BY <1>1 DEF Init
<1>5. max_socket \in Fds \cup {-1, listen_sock} /\ active_clients \in Int
  BY DEF Init
<1> QED
  BY <1>2, <1>3, <1>4, <1>5 DEF Init, TypeOK

\* An answer of handle_search is a ten-byte reply with a known id.
LEMMA SearchTyped ==
  ASSUME TypeOK, NEW find \in Names, NEW r \in SearchResults(find)
  PROVE  r \in Replies
<1>1. NotFound \in Replies
  BY DataAssumption DEF NotFound, Replies
<1>2. \A i \in Slots : ReplyFor(i) \in Replies
  BY <1>1 DEF ReplyFor, Replies, TypeOK, Clients
<1> QED
  BY <1>1, <1>2 DEF SearchResults

LEMMA ExtraTyped ==
  ASSUME NEW m \in SearchRequests
  PROVE  ExtraReplies(m) \in Seq(Replies)
<1>1. NotFound \in Replies
  BY DataAssumption DEF NotFound, Replies
<1>2. m.eightbit + (IF m.tail = "clean" THEN 0 ELSE 1) \in Nat
  BY DEF SearchRequests
<1> QED
  BY <1>1, <1>2 DEF ExtraReplies

LEMMA ExitTyped ==
  ASSUME TypeOK, CloseEverything
  PROVE  /\ fdconn' \in [Fds -> Conns \cup {None}]
         /\ conn' \in [Conns -> {"idle", "backlog", "accepted", "done"}]
         /\ inbox' \in [Conns -> Requests \cup {None}]
         /\ gone' \in [Conns -> {"no", "fin", "rst"}]
         /\ call_set' \subseteq Fds \cup {listen_sock}
         /\ sending' \in [to : Conns \cup {None}, replies : Seq(Replies)]
BY DEF TypeOK, CloseEverything, Idle

LEMMA ClearTyped ==
  ASSUME NEW cl \in Clients
  PROVE  ClearClient(cl) \in Clients
<1>1. <<>> \in Seq(Names)
  OBVIOUS
<1> QED
  BY <1>1, DataAssumption DEF Clients, ClearClient

LEMMA ShutdownTyped == ASSUME TypeOK, Shutdown PROVE TypeOK'
<1>1. clients' \in [Slots -> Clients]
  BY ClearTyped DEF TypeOK, Shutdown
<1> QED
  BY <1>1, ExitTyped DEF TypeOK, Shutdown

LEMMA DieTyped == ASSUME TypeOK, Die PROVE TypeOK'
BY ExitTyped DEF TypeOK, Die, table

LEMMA AddTyped ==
  ASSUME TypeOK, NEW fd \in Fds, NEW c \in Conns, AddClient(fd, c)
  PROVE  /\ clients' \in [Slots -> Clients]
         /\ active_clients' \in Int
         /\ all_socks' \subseteq Fds \cup {listen_sock}
         /\ max_socket' \in Fds \cup {-1, listen_sock}
<1>1. CASE \A i \in Slots : clients[i].active
  BY <1>1 DEF TypeOK, AddClient, NewMaxSocket
<1>2. CASE ~ \A i \in Slots : clients[i].active
  <2>1. PICK i \in Slots :
          /\ clients' = [clients EXCEPT ![i] = [@ EXCEPT !.active = TRUE,
                                                        !.sock = fd,
                                                        !.addr = c]]
          /\ active_clients' = active_clients + 1
    BY <1>2 DEF AddClient
  <2>2. [clients[i] EXCEPT !.active = TRUE, !.sock = fd, !.addr = c] \in Clients
    BY ZenonT(60) DEF TypeOK, Clients
  <2>3. clients' \in [Slots -> Clients]
    BY <2>1, <2>2 DEF TypeOK
  <2>4. max_socket' \in Fds \cup {-1, listen_sock}
    BY DEF TypeOK, AddClient, NewMaxSocket
  <2>5. all_socks' \subseteq Fds \cup {listen_sock}
    BY DEF TypeOK, AddClient
  <2>6. active_clients' \in Int
    BY <2>1 DEF TypeOK
  <2> QED
    BY <2>3, <2>4, <2>5, <2>6
<1> QED
  BY <1>1, <1>2

LEMMA AcceptTyped ==
  ASSUME TypeOK, server_accept
  PROVE  TypeOK'
<1> PICK c \in Conns : AcceptFails(c) \/ Accept(c) \/ AcceptOverLimit(c)
  BY DEF server_accept
<1>1. CASE AcceptFails(c)
  BY <1>1 DEF TypeOK, AcceptFails, table
<1>2. CASE Accept(c)
  <2>1. PICK fd \in Fds : fdconn' = [fdconn EXCEPT ![fd] = c] /\ AddClient(fd, c)
    BY <1>2 DEF Accept
  <2> QED
    BY <1>2, <2>1, AddTyped DEF TypeOK, Accept
<1>3. CASE AcceptOverLimit(c)
  <2>1. /\ clients' \in [Slots -> Clients]
        /\ active_clients' \in Int
        /\ all_socks' \subseteq Fds \cup {listen_sock}
        /\ max_socket' \in Fds \cup {-1, listen_sock}
    <3>1. CASE UNCHANGED table
      BY <3>1 DEF TypeOK, table
    <3>2. CASE ~UNCHANGED table
      <4>1. PICK fd \in Fds : AddClient(fd, c)
        BY <1>3, <3>2 DEF AcceptOverLimit
      <4> QED
        BY <4>1, AddTyped
    <3> QED
      BY <3>1, <3>2
  <2> QED
    BY <1>3, <2>1 DEF TypeOK, AcceptOverLimit
<1> QED
  BY <1>1, <1>2, <1>3

LEMMA HandleTyped ==
  ASSUME TypeOK, NEW i \in Slots, NEW m \in Requests, Handle(i, m),
         clients[i].sock \in Fds
  PROVE  /\ clients' \in [Slots -> Clients]
         /\ sending' \in [to : Conns \cup {None}, replies : Seq(Replies)]
         /\ UNCHANGED <<phase, active_clients, all_socks, max_socket, fdconn,
                        conn, gone, outbox>>
<1>1. CASE m.op = "join" /\ handle_join(i, m)
  <2>1. CASE clients' = clients
    BY <1>1, <2>1 DEF TypeOK, handle_join
  <2>2. CASE clients' # clients
    <3>1. clients' = [clients EXCEPT ![i] = [@ EXCEPT !.id = m.id, !.type = "JOINED"]]
      BY <1>1, <2>2 DEF handle_join
    <3>2. m.id \in Ids
      BY <1>1, RequestsAssumption DEF JoinRequests
    <3>3. [clients[i] EXCEPT !.id = m.id, !.type = "JOINED"] \in Clients
      BY <3>2, ZenonT(60) DEF TypeOK, Clients
    <3>4. clients' \in [Slots -> Clients]
      BY <3>1, <3>3 DEF TypeOK
    <3> QED
      BY <1>1, <3>4 DEF TypeOK, handle_join
  <2> QED
    BY <2>1, <2>2
<1>2. CASE m.op = "publish" /\ handle_publish(i, m)
  <2>1. CASE clients' = clients
    BY <1>2, <2>1 DEF TypeOK, handle_publish
  <2>2. CASE clients' # clients
    <3>1. /\ m.count <= Len(m.strs)
          /\ clients' = [clients EXCEPT ![i] =
                           [@ EXCEPT !.files = SubSeq(m.strs, 1, m.count)]]
      BY <1>2, <2>2 DEF handle_publish
    <3>2. m.count \in Nat /\ m.strs \in Seq(Names)
      BY <1>2, RequestsAssumption DEF PublishRequests
    <3>3. SubSeq(m.strs, 1, m.count) \in Seq(Names)
      BY <3>1, <3>2
    <3>4. [clients[i] EXCEPT !.files = SubSeq(m.strs, 1, m.count)] \in Clients
      BY <3>3, ZenonT(60) DEF TypeOK, Clients
    <3>5. clients' \in [Slots -> Clients]
      BY <3>1, <3>4 DEF TypeOK
    <3> QED
      BY <1>2, <3>5 DEF TypeOK, handle_publish
  <2> QED
    BY <2>1, <2>2
<1>3. CASE m.op = "search" /\ handle_search(i, m)
  <2>1. CASE sending' = sending
    BY <1>3, <2>1 DEF TypeOK, handle_search, table
  <2>2. CASE sending' # sending
    <3>1. m \in SearchRequests
      BY <1>3, RequestsAssumption
    <3>2. PICK find \in SearchedFor(m) : \E r \in SearchResults(find) :
            sending' = [to |-> fdconn[clients[i].sock],
                        replies |-> Append(ExtraReplies(m), r)]
      BY <1>3, <2>2 DEF handle_search
    <3>3. PICK r \in SearchResults(find) :
            sending' = [to |-> fdconn[clients[i].sock],
                        replies |-> Append(ExtraReplies(m), r)]
      BY <3>2
    <3>4. find \in Names
      BY <3>1 DEF SearchedFor, SearchRequests
    <3>5. r \in Replies
      BY <3>4, SearchTyped
    <3>6. Append(ExtraReplies(m), r) \in Seq(Replies)
      BY <3>1, <3>5, ExtraTyped
    <3>7. fdconn[clients[i].sock] \in Conns \cup {None}
      BY DEF TypeOK
    <3> QED
      BY <1>3, <3>3, <3>6, <3>7 DEF TypeOK, handle_search, table
  <2> QED
    BY <2>1, <2>2
<1>4. CASE m.op = "other" /\ UnknownCommand
  BY <1>4 DEF TypeOK, UnknownCommand, table
<1> QED
  BY <1>1, <1>2, <1>3, <1>4 DEF Handle

LEMMA ClientTyped ==
  ASSUME TypeOK, NEW s \in Fds, handle_client(s)
  PROVE  TypeOK'
<1>1. CASE \E i \in Slots : Owns(i, s)
  <2> PICK i \in Slots, c \in Conns : \/ ClientRequest(s, i, c)
                                      \/ ClientCrash(s, i, c)
                                      \/ ClientGone(s, i, c)
    BY <1>1 DEF handle_client
  <2>1. CASE ClientRequest(s, i, c)
    <3>1. inbox[c] \in Requests /\ Handle(i, inbox[c])
      BY <2>1 DEF ClientRequest, TakesRequest, TypeOK
    <3>2. clients[i].sock \in Fds
      BY <2>1 DEF ClientRequest, Received, Owns
    <3>3. /\ call_set' \subseteq Fds \cup {listen_sock}
          /\ inbox' \in [Conns -> Requests \cup {None}]
          /\ sig' = sig
      BY <2>1 DEF ClientRequest, Received, TakesRequest, TypeOK
    <3>4. /\ clients' \in [Slots -> Clients]
          /\ sending' \in [to : Conns \cup {None}, replies : Seq(Replies)]
          /\ UNCHANGED <<phase, active_clients, all_socks, max_socket, fdconn,
                         conn, gone, outbox>>
      BY <3>1, <3>2, HandleTyped
    <3> QED
      BY <3>3, <3>4 DEF TypeOK
  <2>2. CASE ClientCrash(s, i, c)
    BY <2>2, DieTyped DEF ClientCrash, PublishCrashes
  <2>3. CASE ClientGone(s, i, c)
    <3>1. CloseClient(i, c) /\ call_set' = call_set \ {s} /\ sig' = sig
      BY <2>3 DEF ClientGone, Received
    <3>2. ClearClient(clients[i]) \in Clients
      BY ClearTyped DEF TypeOK
    <3>3. clients' \in [Slots -> Clients]
      BY <3>1, <3>2 DEF CloseClient, TypeOK
    <3>4. fdconn' \in [Fds -> Conns \cup {None}]
      BY <3>1 DEF CloseClient, TypeOK
    <3>5. <<>> \in Seq(Replies)
      OBVIOUS
    <3>6. outbox' \in [Conns -> Seq(Replies)]
      BY <3>1, <3>5 DEF CloseClient, TypeOK
    <3> QED
      BY <3>1, <3>3, <3>4, <3>6 DEF CloseClient, Unwatched, TypeOK
  <2> QED
    BY <2>1, <2>2, <2>3
<1>2. CASE ~ \E i \in Slots : Owns(i, s)
  BY <1>2 DEF handle_client, TypeOK, table, net
<1> QED
  BY <1>1, <1>2

LEMMA SendTyped ==
  ASSUME TypeOK, SendReply \/ SendLost \/ SendFails \/ SendKills
  PROVE  TypeOK'
<1>1. ASSUME Busy, Sent
      PROVE  sending' \in [to : Conns \cup {None}, replies : Seq(Replies)]
  <2>1. sending.replies \in Seq(Replies) /\ sending.replies # <<>>
    BY <1>1 DEF Busy, TypeOK
  <2>2. Tail(sending.replies) \in Seq(Replies)
    BY <2>1
  <2>3. Idle \in [to : Conns \cup {None}, replies : Seq(Replies)]
    BY DEF Idle
  <2> QED
    BY <1>1, <2>2, <2>3 DEF Sent, TypeOK
<1>2. CASE SendReply
  <2>1. sending.replies \in Seq(Replies) /\ sending.replies # <<>>
    BY <1>2 DEF SendReply, Busy, TypeOK
  <2>2. Head(sending.replies) \in Replies
    BY <2>1
  <2>3. outbox' \in [Conns -> Seq(Replies)]
    <3>1. CASE sending.to \in Conns
      <4>1. Append(outbox[sending.to], Head(sending.replies)) \in Seq(Replies)
        BY <3>1, <2>2 DEF TypeOK
      <4> QED
        BY <1>2, <4>1 DEF SendReply, TypeOK
    <3>2. CASE sending.to \notin Conns
      BY <1>2, <3>2 DEF SendReply, TypeOK
    <3> QED
      BY <3>1, <3>2
  <2> QED
    BY <1>1, <1>2, <2>3 DEF SendReply, TypeOK, table
<1>3. CASE SendLost
  BY <1>1, <1>3 DEF SendLost, TypeOK, table, net
<1>4. CASE SendFails
  BY <1>4 DEF SendFails, TypeOK, table, net, Idle
<1>5. CASE SendKills
  BY <1>5, DieTyped DEF SendKills
<1> QED
  BY <1>2, <1>3, <1>4, <1>5

LEMMA EnvironmentTyped == ASSUME TypeOK, Environment PROVE TypeOK'
<1>1. CASE Signal
  BY <1>1 DEF Signal, TypeOK, table, net
<1>2. ASSUME NEW c \in Conns, Connect(c) PROVE TypeOK'
  BY <1>2 DEF Connect, TypeOK, table
<1>3. ASSUME NEW c \in Conns, NEW m \in Requests, Deliver(c, m) PROVE TypeOK'
  BY <1>3 DEF Deliver, TypeOK, table
<1>4. ASSUME NEW c \in Conns, Close(c) \/ Reset(c) PROVE TypeOK'
  <2>1. <<>> \in Seq(Replies)
    OBVIOUS
  <2>2. outbox' \in [Conns -> Seq(Replies)]
    BY <1>4, <2>1 DEF Close, Reset, TypeOK
  <2> QED
    BY <1>4, <2>2 DEF Close, Reset, TypeOK, table
<1>5. ASSUME NEW c \in Conns, TakeReply(c) PROVE TypeOK'
  <2>1. outbox[c] \in Seq(Replies) /\ outbox[c] # <<>>
    BY <1>5 DEF TakeReply, TypeOK
  <2>2. Tail(outbox[c]) \in Seq(Replies)
    BY <2>1
  <2>3. outbox' \in [Conns -> Seq(Replies)]
    BY <1>5, <2>2 DEF TakeReply, TypeOK
  <2> QED
    BY <1>5, <2>3 DEF TakeReply, TypeOK, table
<1> QED
  BY <1>1, <1>2, <1>3, <1>4, <1>5 DEF Environment

LEMMA NextTyped == TypeOK /\ [Next]_vars => TypeOK'
<1> SUFFICES ASSUME TypeOK, [Next]_vars PROVE TypeOK'
  OBVIOUS
<1>1. CASE Start
  BY <1>1 DEF Start, TypeOK, net
<1>2. CASE StartFails
  BY <1>2 DEF StartFails, TypeOK, table, net
<1>3. CASE Environment
  BY <1>3, EnvironmentTyped
<1>4. CASE SelectReady
  BY <1>4 DEF SelectReady, Asked, TypeOK, table, net
<1>5. CASE SelectInterrupted \/ SelectError
  BY <1>5, ShutdownTyped DEF SelectInterrupted, SelectError
<1>6. CASE server_accept
  BY <1>6, AcceptTyped
<1>7. CASE \E s \in Fds : handle_client(s)
  BY <1>7, ClientTyped
<1>8. CASE SendReply \/ SendLost \/ SendFails \/ SendKills
  BY <1>8, SendTyped
<1>9. CASE UNCHANGED vars
  BY <1>9 DEF vars, TypeOK
<1> QED
  BY <1>1, <1>2, <1>3, <1>4, <1>5, <1>6, <1>7, <1>8, <1>9 DEF Next, Server, Finished

\* Every variable of the registry and of the kernel objects behind it keeps
\* its type, for every size of the table, set of descriptors, clients and
\* requests; in particular no handler stores a malformed client struct.
THEOREM TypeCorrect == Spec => []TypeOK
BY InitTyped, NextTyped, PTL DEF Spec

-----------------------------------------------------------------------------
(* The slot table stays consistent with the descriptors it watches:        *)
(* TableInvariant is inductive, and the properties of the passes over the  *)
(* ready descriptors follow from it.                                       *)

LEMMA SlotsFinite == IsFiniteSet(Slots) /\ Cardinality(Slots) = max_conn
BY SizesAssumption, FS_Interval DEF Slots

LEMMA ActiveFinite ==
  /\ IsFiniteSet(ActiveSlots)
  /\ Cardinality(ActiveSlots) \in 0 .. max_conn
  /\ Cardinality(ActiveSlots) < max_conn => ActiveSlots # Slots
<1>1. ActiveSlots \in SUBSET Slots
  BY DEF ActiveSlots
<1>2. IsFiniteSet(ActiveSlots) /\ Cardinality(ActiveSlots) <= max_conn
  BY <1>1, SlotsFinite, FS_Subset
<1>3. Cardinality(ActiveSlots) \in Nat
  BY <1>2, FS_CardinalityType
<1> QED
  BY <1>2, <1>3, SlotsFinite, SizesAssumption

LEMMA InitTable == Init => TableInvariant
<1> SUFFICES ASSUME Init PROVE TableInvariant
  OBVIOUS
<1>1. ActiveSlots = {}
  BY DEF Init, ActiveSlots, BlankClient
<1>2. OpenFds = {}
  BY DEF Init, OpenFds
<1>3. FreedSlotsAreBlank
  BY DEF Init, FreedSlotsAreBlank, BlankClient
<1>4. PassIsSound
  BY <1>1, <1>2 DEF Init, PassIsSound
<1>5. CountIsAccurate
  BY <1>1, FS_EmptySet DEF Init, CountIsAccurate
<1>6. LastSlotIsSpare
  BY SizesAssumption DEF Init, LastSlotIsSpare
<1> QED
  BY <1>3, <1>4, <1>5, <1>6
     DEF Init, TableInvariant, SocketsAreDistinct, WatchedSockets, OpenAreRecorded

\* A step that leaves the table and the descriptors alone, and at most ends
\* the turn of some of the ready descriptors.
LEMMA TableKept ==
  ASSUME TableInvariant, UNCHANGED <<phase, table, fdconn>>,
         call_set' \subseteq call_set
  PROVE  TableInvariant'
<1>1. ActiveSlots' = ActiveSlots /\ OpenFds' = OpenFds /\ AllOpen' = AllOpen
  BY DEF ActiveSlots, OpenFds, AllOpen, table
<1>2. SocketsAreDistinct' /\ WatchedSockets' /\ OpenAreRecorded'
  BY <1>1 DEF TableInvariant, SocketsAreDistinct, WatchedSockets, OpenAreRecorded, table
<1>3. PassIsSound'
  BY <1>1 DEF TableInvariant, PassIsSound
<1>4. CountIsAccurate' /\ LastSlotIsSpare' /\ FreedSlotsAreBlank'
  BY <1>1 DEF TableInvariant, CountIsAccurate, LastSlotIsSpare, FreedSlotsAreBlank,
              table, Ended
<1> QED
  BY <1>2, <1>3, <1>4 DEF TableInvariant

\* A request handler changes id, type or files of an active slot at most.
LEMMA TableHandled ==
  ASSUME TypeOK, TableInvariant, NEW i \in ActiveSlots, NEW m \in Requests,
         Handle(i, m), call_set' \subseteq call_set
  PROVE  TableInvariant'
<1> i \in Slots
  BY DEF ActiveSlots
<1>1. UNCHANGED <<phase, active_clients, all_socks, max_socket, fdconn>>
  BY DEF Handle, handle_join, handle_publish, handle_search, UnknownCommand, table
<1>2. /\ \A j \in Slots : /\ clients'[j].active = clients[j].active
                          /\ clients'[j].sock = clients[j].sock
                          /\ clients'[j].addr = clients[j].addr
      /\ \A j \in Slots \ {i} : clients'[j] = clients[j]
  <2>1. CASE clients' = clients
    BY <2>1
  <2>2. CASE clients' # clients
    <3>1. \/ clients' = [clients EXCEPT ![i] = [@ EXCEPT !.id = m.id, !.type = "JOINED"]]
          \/ clients' = [clients EXCEPT ![i] =
                           [@ EXCEPT !.files = SubSeq(m.strs, 1, m.count)]]
      <4>1. ~UnknownCommand /\ ~handle_search(i, m)
        BY <2>2 DEF UnknownCommand, handle_search, table
      <4>2. handle_join(i, m) \/ handle_publish(i, m)
        BY <4>1 DEF Handle
      <4>3. CASE handle_join(i, m)
        BY <2>2, <4>3 DEF handle_join
      <4>4. CASE handle_publish(i, m)
        BY <2>2, <4>4 DEF handle_publish
      <4> QED
        BY <4>2, <4>3, <4>4
    <3>2. clients[i] \in Clients
      BY DEF TypeOK
    <3>3. \A j \in Slots \ {i} : clients'[j] = clients[j]
      BY <3>1 DEF TypeOK
    <3>4. /\ clients'[i].active = clients[i].active
          /\ clients'[i].sock = clients[i].sock
          /\ clients'[i].addr = clients[i].addr
      <4>1. \/ clients'[i] = [clients[i] EXCEPT !.id = m.id, !.type = "JOINED"]
            \/ clients'[i] = [clients[i] EXCEPT !.files = SubSeq(m.strs, 1, m.count)]
        BY <3>1 DEF TypeOK
      <4>2. CASE clients'[i] = [clients[i] EXCEPT !.id = m.id, !.type = "JOINED"]
        BY <3>2, <4>2 DEF Clients
      <4>3. CASE clients'[i] = [clients[i] EXCEPT !.files = SubSeq(m.strs, 1, m.count)]
        BY <3>2, <4>3 DEF Clients
      <4> QED
        BY <4>1, <4>2, <4>3
    <3> QED
      BY <3>3, <3>4
  <2> QED
    BY <2>1, <2>2
<1>3. ActiveSlots' = ActiveSlots
  BY <1>2 DEF ActiveSlots
<1>4. OpenFds' = OpenFds
  BY <1>1 DEF OpenFds
<1>5. AllOpen' = AllOpen
  BY <1>2, <1>3, <1>4 DEF AllOpen, ActiveSlots
<1>6. \A j \in ActiveSlots : /\ clients'[j].sock = clients[j].sock
                             /\ clients'[j].addr = clients[j].addr
  BY <1>2 DEF ActiveSlots
<1>7. SocketsAreDistinct'
  BY <1>1, <1>3, <1>6 DEF TableInvariant, SocketsAreDistinct
<1>8. WatchedSockets'
  <2>1. {clients'[j].sock : j \in ActiveSlots} = {clients[j].sock : j \in ActiveSlots}
    BY <1>6
  <2> QED
    BY <1>1, <1>3, <2>1 DEF TableInvariant, WatchedSockets
<1>9. OpenAreRecorded'
  BY <1>1, <1>3, <1>4, <1>6 DEF TableInvariant, OpenAreRecorded
<1>10. PassIsSound'
  BY <1>1, <1>3, <1>4, <1>5 DEF TableInvariant, PassIsSound
<1>11. CountIsAccurate' /\ LastSlotIsSpare'
  BY <1>1, <1>3, <1>5 DEF TableInvariant, CountIsAccurate, LastSlotIsSpare, Ended
<1>12. FreedSlotsAreBlank'
  BY <1>2, <1>3 DEF TableInvariant, FreedSlotsAreBlank
<1> QED
  BY <1>7, <1>8, <1>9, <1>10, <1>11, <1>12 DEF TableInvariant

\* The process ends, in order or not.
LEMMA TableAtExit ==
  ASSUME TypeOK, TableInvariant, Shutdown \/ Die
  PROVE  TableInvariant'
<1>1. /\ phase' \in {"stopped", "killed"}
      /\ CloseEverything
      /\ active_clients' = active_clients
  BY DEF Shutdown, Die, table
<1>2. OpenFds' = {} /\ call_set' = {}
  BY <1>1 DEF CloseEverything, OpenFds
<1>3. FreedSlotsAreBlank'
  <2>1. CASE Die
    BY <2>1 DEF Die, table, TableInvariant, FreedSlotsAreBlank, ActiveSlots
  <2>2. CASE Shutdown
    <3> SUFFICES ASSUME NEW i \in Slots
                 PROVE  /\ clients'[i].id = 0
                        /\ clients'[i].sock = 0
                        /\ clients'[i].files = <<>>
      BY DEF FreedSlotsAreBlank
    <3>1. CASE clients[i].active
      <4>1. clients'[i] = ClearClient(clients[i])
        BY <2>2, <3>1 DEF Shutdown
      <4> QED
        BY <4>1 DEF ClearClient, TypeOK, Clients
    <3>2. CASE ~clients[i].active
      <4>1. clients'[i] = clients[i]
        BY <2>2, <3>2 DEF Shutdown
      <4> QED
        BY <3>2, <4>1 DEF TableInvariant, FreedSlotsAreBlank, ActiveSlots
    <3> QED
      BY <3>1, <3>2
  <2> QED
    BY <2>1, <2>2
<1>4. PassIsSound'
  BY <1>1, <1>2 DEF PassIsSound
<1>5. CountIsAccurate' /\ LastSlotIsSpare'
  BY <1>1 DEF CountIsAccurate, LastSlotIsSpare, Ended, TableInvariant
<1>6. SocketsAreDistinct' /\ WatchedSockets' /\ OpenAreRecorded'
  BY <1>1 DEF SocketsAreDistinct, WatchedSockets, OpenAreRecorded
<1> QED
  BY <1>3, <1>4, <1>5, <1>6 DEF TableInvariant

-----------------------------------------------------------------------------
(* server_accept                                                           *)

\* What the tail of server_accept does when it runs within a pass: there is a
\* free slot for the descriptor, and no other slot holds it.
Added(fd, c, i) ==
  /\ i \in Slots \ ActiveSlots
  /\ ActiveSlots' = ActiveSlots \cup {i}
  /\ clients'[i].sock = fd
  /\ clients'[i].addr = c
  /\ clients'[i].id = clients[i].id
  /\ clients'[i].files = clients[i].files
  /\ \A j \in Slots \ {i} : clients'[j] = clients[j]
  /\ \A j \in ActiveSlots : clients[j].sock # fd
  /\ active_clients' = active_clients + 1
  /\ all_socks' = all_socks \cup {fd}
  /\ max_socket' >= fd
  /\ max_socket' >= max_socket

LEMMA AddWithinPass ==
  ASSUME TypeOK, TableInvariant, Dispatched(listen_sock),
         NEW c \in Conns, NEW fd \in Fds, LowestFree(fd), AddClient(fd, c)
  PROVE  \E i \in Slots : Added(fd, c, i)
<1>1. phase = "run" /\ AllOpen
  BY DEF Dispatched, TableInvariant, PassIsSound
<1>2. active_clients = Cardinality(ActiveSlots) /\ active_clients <= max_conn - 1
  BY <1>1 DEF TableInvariant, CountIsAccurate, LastSlotIsSpare, Ended
<1>3. Cardinality(ActiveSlots) < max_conn
  BY <1>2, ActiveFinite, SizesAssumption
<1>4. ActiveSlots # Slots
  BY <1>3, ActiveFinite
<1>5. ~ \A i \in Slots : clients[i].active
  BY <1>4 DEF ActiveSlots
<1>6. PICK i \in Slots :
        /\ FirstFreeSlot(i)
        /\ clients' = [clients EXCEPT ![i] = [@ EXCEPT !.active = TRUE,
                                                      !.sock = fd,
                                                      !.addr = c]]
        /\ active_clients' = active_clients + 1
  BY <1>5 DEF AddClient
<1>7. clients[i] \in Clients
  BY DEF TypeOK
<1>8. clients'[i] = [clients[i] EXCEPT !.active = TRUE, !.sock = fd, !.addr = c]
  BY <1>6 DEF TypeOK
<1>9. /\ clients'[i].active /\ clients'[i].sock = fd /\ clients'[i].addr = c
      /\ clients'[i].id = clients[i].id /\ clients'[i].files = clients[i].files
  BY <1>7, <1>8 DEF Clients
<1>10. \A j \in Slots \ {i} : clients'[j] = clients[j]
  BY <1>6 DEF TypeOK
<1>11. i \in Slots \ ActiveSlots
  BY <1>6 DEF FirstFreeSlot, ActiveSlots
<1>12. ActiveSlots' = ActiveSlots \cup {i}
  BY <1>9, <1>10, <1>11 DEF ActiveSlots
<1>13. \A j \in ActiveSlots : clients[j].sock # fd
  BY <1>1 DEF AllOpen, LowestFree
<1>14. /\ all_socks' = all_socks \cup {fd}
       /\ max_socket' = IF fd > max_socket THEN fd ELSE max_socket
  BY DEF AddClient, NewMaxSocket
<1>15. fd \in Int /\ max_socket \in Int
  BY FdsAssumption DEF TypeOK
<1>16. max_socket' >= fd /\ max_socket' >= max_socket
  BY <1>14, <1>15
<1> QED
  BY <1>6, <1>9, <1>10, <1>11, <1>12, <1>13, <1>14, <1>16 DEF Added

LEMMA AddedTable ==
  ASSUME TypeOK, TypeOK', TableInvariant, phase = "run", phase' = "run",
         NEW c \in Conns, NEW fd \in Fds, NEW i \in Slots, Added(fd, c, i)
  PROVE  SocketsAreDistinct' /\ WatchedSockets' /\ CountIsAccurate' /\ FreedSlotsAreBlank'
<1>1. \A j \in ActiveSlots : j \in Slots \ {i} /\ clients'[j] = clients[j]
  BY DEF Added, ActiveSlots
<1>2. SocketsAreDistinct'
  <2>1. \A j \in ActiveSlots' : clients'[j].sock \in Fds /\ clients'[j].sock <= max_socket'
    <3> SUFFICES ASSUME NEW j \in ActiveSlots'
                 PROVE  clients'[j].sock \in Fds /\ clients'[j].sock <= max_socket'
      OBVIOUS
    <3>0. max_socket \in Int /\ max_socket' \in Int /\ \A f \in Fds : f \in Int
      BY FdsAssumption DEF TypeOK
    <3>1. CASE j = i
      BY <3>0, <3>1 DEF Added
    <3>2. CASE j # i
      <4>1. j \in ActiveSlots /\ clients'[j] = clients[j]
        BY <3>2, <1>1 DEF Added
      <4>2. clients[j].sock \in Fds /\ clients[j].sock <= max_socket
        BY <4>1 DEF TableInvariant, SocketsAreDistinct
      <4> QED
        BY <3>0, <4>1, <4>2 DEF Added
    <3> QED
      BY <3>1, <3>2
  <2>2. \A j, k \in ActiveSlots' : clients'[j].sock = clients'[k].sock => j = k
    BY <1>1 DEF Added, TableInvariant, SocketsAreDistinct
  <2> QED
    BY <2>1, <2>2 DEF SocketsAreDistinct
<1>3. WatchedSockets'
  <2>1. {clients'[j].sock : j \in ActiveSlots'}
          = {clients[j].sock : j \in ActiveSlots} \cup {fd}
    BY <1>1 DEF Added
  <2> QED
    BY <2>1 DEF Added, TableInvariant, WatchedSockets
<1>4. CountIsAccurate'
  <2>1. Cardinality(ActiveSlots \cup {i}) = Cardinality(ActiveSlots) + 1
    BY ActiveFinite, FS_AddElement DEF Added
  <2> QED
    BY <2>1 DEF Added, TableInvariant, CountIsAccurate, Ended
<1>5. FreedSlotsAreBlank'
  BY DEF Added, TableInvariant, FreedSlotsAreBlank
<1> QED
  BY <1>2, <1>3, <1>4, <1>5

LEMMA TableAccepted ==
  ASSUME TypeOK, TypeOK', TableInvariant, NEW c \in Conns, Accept(c)
  PROVE  TableInvariant'
<1>1. /\ Dispatched(listen_sock)
      /\ active_clients # max_conn - 1
      /\ call_set' = call_set \ {listen_sock}
      /\ phase = "run"
      /\ phase' = "run"
  BY DEF Accept, Dispatched, AtLimit
<1>2. PICK fd \in Fds : /\ LowestFree(fd)
                        /\ fdconn' = [fdconn EXCEPT ![fd] = c]
                        /\ AddClient(fd, c)
  BY DEF Accept
<1>3. PICK i \in Slots : Added(fd, c, i)
  BY <1>1, <1>2, AddWithinPass
<1>4. SocketsAreDistinct' /\ WatchedSockets' /\ CountIsAccurate' /\ FreedSlotsAreBlank'
  BY <1>1, <1>3, AddedTable
<1>5. OpenFds' = OpenFds \cup {fd}
  BY <1>2, NoneAssumption DEF OpenFds, TypeOK
<1>6. OpenAreRecorded'
  <2> SUFFICES ASSUME NEW f \in OpenFds'
               PROVE  \E j \in ActiveSlots' :
                        clients'[j].sock = f /\ clients'[j].addr = fdconn'[f]
    BY DEF OpenAreRecorded
  <2>1. CASE f = fd
    BY <1>2, <1>3, <2>1 DEF Added, TypeOK
  <2>2. CASE f # fd
    <3>1. f \in OpenFds /\ fdconn'[f] = fdconn[f]
      BY <1>2, <1>5, <2>2 DEF OpenFds, TypeOK
    <3>2. PICK j \in ActiveSlots : clients[j].sock = f /\ clients[j].addr = fdconn[f]
      BY <1>1, <3>1 DEF TableInvariant, OpenAreRecorded
    <3>3. j \in ActiveSlots' /\ clients'[j] = clients[j]
      BY <1>3 DEF Added, ActiveSlots
    <3> QED
      BY <3>1, <3>2, <3>3
  <2> QED
    BY <2>1, <2>2
<1>7. PassIsSound'
  BY <1>1, <1>5 DEF TableInvariant, PassIsSound
<1>8. LastSlotIsSpare'
  <2>1. active_clients \in 0 .. max_conn /\ active_clients <= max_conn - 1
    BY <1>1 DEF TableInvariant, LastSlotIsSpare, PassIsSound, Dispatched
  <2>2. active_clients' = active_clients + 1
    BY <1>3 DEF Added
  <2> QED
    BY <1>1, <2>1, <2>2, SizesAssumption DEF LastSlotIsSpare
<1> QED
  BY <1>4, <1>6, <1>7, <1>8 DEF TableInvariant

LEMMA TableOverLimit ==
  ASSUME TypeOK, TypeOK', TableInvariant, NEW c \in Conns, AcceptOverLimit(c)
  PROVE  TableInvariant'
<1>1. /\ Dispatched(listen_sock)
      /\ active_clients = max_conn - 1
      /\ call_set' = call_set \ {listen_sock}
      /\ phase = "run"
      /\ phase' = "run"
      /\ fdconn' = fdconn
  BY DEF AcceptOverLimit, Dispatched, AtLimit
<1>2. CASE UNCHANGED table
  BY <1>1, <1>2, TableKept
<1>3. CASE ~UNCHANGED table
  <2>1. PICK fd \in Fds : LowestFree(fd) /\ AddClient(fd, c)
    BY <1>3 DEF AcceptOverLimit
  <2>2. PICK i \in Slots : Added(fd, c, i)
    BY <1>1, <2>1, AddWithinPass
  <2>3. SocketsAreDistinct' /\ WatchedSockets' /\ CountIsAccurate' /\ FreedSlotsAreBlank'
    BY <1>1, <2>2, AddedTable
  <2>4. OpenFds' = OpenFds /\ fd \notin OpenFds
    BY <1>1, <2>1 DEF OpenFds, LowestFree
  <2>5. OpenAreRecorded'
    <3>1. \A j \in ActiveSlots : j \in ActiveSlots' /\ clients'[j] = clients[j]
      BY <2>2 DEF Added, ActiveSlots
    <3> QED
      BY <1>1, <2>4, <3>1 DEF TableInvariant, OpenAreRecorded
  <2>6. PassIsSound'
    BY <1>1, <2>4 DEF TableInvariant, PassIsSound
  <2>7. ~AllOpen'
    BY <2>2, <2>4 DEF AllOpen, Added
  <2>8. LastSlotIsSpare'
    BY <1>1, <2>2, <2>7, SizesAssumption DEF LastSlotIsSpare, Added
  <2> QED
    BY <2>3, <2>5, <2>6, <2>8 DEF TableInvariant
<1> QED
  BY <1>2, <1>3

-----------------------------------------------------------------------------
(* handle_client                                                           *)

LEMMA TableClosed ==
  ASSUME TypeOK, TypeOK', TableInvariant, NEW s \in Fds, NEW i \in Slots, NEW c \in Conns,
         Dispatched(s), ClientGone(s, i, c)
  PROVE  TableInvariant'
<1>1. /\ clients[i].active
      /\ clients[i].sock = s
      /\ call_set' = call_set \ {s}
      /\ phase = "run"
      /\ phase' = "run"
      /\ fdconn' = [fdconn EXCEPT ![s] = None]
      /\ all_socks' = all_socks \ {s}
      /\ clients' = [clients EXCEPT ![i] = ClearClient(@)]
      /\ active_clients' = active_clients - 1
      /\ max_socket' = max_socket
  BY DEF ClientGone, Received, Owns, CloseClient, Unwatched, Dispatched
<1>2. clients[i] \in Clients
  BY DEF TypeOK
<1>3. clients'[i] = ClearClient(clients[i])
  BY <1>1 DEF TypeOK
<1>4. /\ ~clients'[i].active
      /\ clients'[i].id = 0
      /\ clients'[i].sock = 0
      /\ clients'[i].files = <<>>
  BY <1>2, <1>3 DEF ClearClient, Clients
<1>5. \A j \in Slots \ {i} : clients'[j] = clients[j]
  BY <1>1 DEF TypeOK
<1>6. i \in ActiveSlots /\ ActiveSlots' = ActiveSlots \ {i}
  BY <1>1, <1>4, <1>5 DEF ActiveSlots
<1>7. \A j \in ActiveSlots' : /\ j \in ActiveSlots
                              /\ clients'[j] = clients[j]
                              /\ clients[j].sock # s
  BY <1>1, <1>5, <1>6 DEF ActiveSlots, TableInvariant, SocketsAreDistinct
<1>8. OpenFds' = OpenFds \ {s}
  BY <1>1 DEF OpenFds, TypeOK
<1>9. s \in OpenFds
  BY <1>1, FdsAssumption DEF Dispatched, TableInvariant, PassIsSound
<1>10. SocketsAreDistinct'
  BY <1>1, <1>7 DEF TableInvariant, SocketsAreDistinct
<1>11. WatchedSockets'
  <2>1. s # listen_sock
    BY FdsAssumption
  <2>2. {clients'[j].sock : j \in ActiveSlots'} = {clients[j].sock : j \in ActiveSlots} \ {s}
    BY <1>1, <1>6, <1>7
  <2> QED
    BY <1>1, <2>1, <2>2 DEF TableInvariant, WatchedSockets
<1>12. OpenAreRecorded'
  <2> SUFFICES ASSUME NEW f \in OpenFds'
               PROVE  \E j \in ActiveSlots' :
                        clients'[j].sock = f /\ clients'[j].addr = fdconn'[f]
    BY DEF OpenAreRecorded
  <2>1. f \in OpenFds /\ f # s /\ fdconn'[f] = fdconn[f]
    BY <1>1, <1>8 DEF OpenFds, TypeOK
  <2>2. PICK j \in ActiveSlots : clients[j].sock = f /\ clients[j].addr = fdconn[f]
    BY <1>1, <2>1 DEF TableInvariant, OpenAreRecorded
  <2>3. j \in ActiveSlots'
    BY <1>1, <1>6, <2>1, <2>2
  <2> QED
    BY <1>7, <2>1, <2>2, <2>3
<1>13. AllOpen' <=> AllOpen
  <2>1. ASSUME AllOpen PROVE AllOpen'
    BY <1>7, <1>8, <2>1 DEF AllOpen
  <2>2. ASSUME AllOpen' PROVE AllOpen
    <3> SUFFICES ASSUME NEW j \in ActiveSlots PROVE clients[j].sock \in OpenFds
      BY DEF AllOpen
    <3>1. CASE j = i
      BY <1>1, <1>9, <3>1
    <3>2. CASE j # i
      BY <1>6, <1>7, <1>8, <2>2, <3>2 DEF AllOpen
    <3> QED
      BY <3>1, <3>2
  <2> QED
    BY <2>1, <2>2
<1>14. PassIsSound'
  BY <1>1, <1>8, <1>13 DEF TableInvariant, PassIsSound
<1>15. Cardinality(ActiveSlots \ {i}) = Cardinality(ActiveSlots) - 1
  BY <1>6, ActiveFinite, FS_RemoveElement
<1>16. CountIsAccurate'
  BY <1>1, <1>6, <1>15 DEF TableInvariant, CountIsAccurate, Ended
<1>17. LastSlotIsSpare'
  <2>1. active_clients = Cardinality(ActiveSlots)
    BY <1>1 DEF TableInvariant, CountIsAccurate, Ended
  <2>2. Cardinality(ActiveSlots) # 0
    BY <1>6, ActiveFinite, FS_EmptySet
  <2>3. active_clients \in 1 .. max_conn
    BY <2>1, <2>2, ActiveFinite, SizesAssumption
  <2>4. AllOpen => active_clients <= max_conn - 1
    BY <1>1 DEF TableInvariant, LastSlotIsSpare
  <2> QED
    BY <1>1, <1>13, <2>3, <2>4, SizesAssumption DEF LastSlotIsSpare
<1>18. FreedSlotsAreBlank'
  <2> SUFFICES ASSUME NEW j \in Slots \ ActiveSlots'
               PROVE  /\ clients'[j].id = 0
                      /\ clients'[j].sock = 0
                      /\ clients'[j].files = <<>>
    BY DEF FreedSlotsAreBlank
  <2>1. CASE j = i
    BY <1>4, <2>1
  <2>2. CASE j # i
    BY <1>5, <1>6, <2>2 DEF TableInvariant, FreedSlotsAreBlank
  <2> QED
    BY <2>1, <2>2
<1> QED
  BY <1>10, <1>11, <1>12, <1>14, <1>16, <1>17, <1>18 DEF TableInvariant

LEMMA TableServed ==
  ASSUME TypeOK, TypeOK', TableInvariant, NEW s \in Fds, handle_client(s)
  PROVE  TableInvariant'
<1>1. Dispatched(s)
  BY DEF handle_client
<1>2. CASE \E i \in Slots : Owns(i, s)
  <2> PICK i \in Slots, c \in Conns : \/ ClientRequest(s, i, c)
                                      \/ ClientCrash(s, i, c)
                                      \/ ClientGone(s, i, c)
    BY <1>2 DEF handle_client
  <2>1. CASE ClientRequest(s, i, c)
    <3>1. inbox[c] \in Requests /\ Handle(i, inbox[c])
      BY <2>1 DEF ClientRequest, TakesRequest, TypeOK
    <3>2. i \in ActiveSlots /\ call_set' \subseteq call_set
      BY <2>1 DEF ClientRequest, Received, Owns, ActiveSlots
    <3> QED
      BY <3>1, <3>2, TableHandled
  <2>2. CASE ClientCrash(s, i, c)
    BY <2>2, TableAtExit DEF ClientCrash, PublishCrashes
  <2>3. CASE ClientGone(s, i, c)
    BY <1>1, <2>3, TableClosed
  <2> QED
    BY <2>1, <2>2, <2>3
<1>3. CASE ~ \E i \in Slots : Owns(i, s)
  <2>1. UNCHANGED <<phase, table, fdconn>> /\ call_set' \subseteq call_set
    BY <1>3 DEF handle_client
  <2> QED
    BY <2>1, TableKept
<1> QED
  BY <1>2, <1>3

-----------------------------------------------------------------------------

LEMMA TableAtStart ==
  ASSUME TypeOK, TableInvariant, Start \/ StartFails
  PROVE  TableInvariant'
<1>1. /\ phase = "start"
      /\ phase' # "start"
      /\ UNCHANGED <<clients, active_clients, call_set, fdconn>>
  BY DEF Start, StartFails, table
<1>2. /\ ActiveSlots = {} /\ ActiveSlots' = {}
      /\ OpenFds = {} /\ OpenFds' = {}
      /\ call_set' = {}
  BY <1>1 DEF TableInvariant, PassIsSound, ActiveSlots, OpenFds
<1>3. active_clients = 0
  BY <1>1, <1>2, FS_EmptySet DEF TableInvariant, CountIsAccurate, Ended
<1>4. CountIsAccurate' /\ LastSlotIsSpare'
  BY <1>1, <1>2, <1>3, FS_EmptySet, SizesAssumption
     DEF TableInvariant, CountIsAccurate, LastSlotIsSpare
<1>5. FreedSlotsAreBlank' /\ PassIsSound'
  BY <1>1, <1>2 DEF TableInvariant, FreedSlotsAreBlank, PassIsSound
<1>6. SocketsAreDistinct' /\ OpenAreRecorded'
  BY <1>2 DEF SocketsAreDistinct, OpenAreRecorded
<1>7. WatchedSockets'
  <2>1. CASE Start
    BY <1>2, <2>1 DEF Start, WatchedSockets
  <2>2. CASE StartFails
    BY <2>2 DEF StartFails, WatchedSockets
  <2> QED
    BY <2>1, <2>2
<1> QED
  BY <1>4, <1>5, <1>6, <1>7 DEF TableInvariant

\* pselect starts a pass only when every watched descriptor is open.
LEMMA TableAtSelect ==
  ASSUME TypeOK, TableInvariant, SelectReady
  PROVE  TableInvariant'
<1>1. /\ phase = "run"
      /\ BadSocks = {}
      /\ call_set' \subseteq Asked
      /\ UNCHANGED <<phase, table, fdconn>>
  BY DEF SelectReady, AtSelect
<1>2. ActiveSlots' = ActiveSlots /\ OpenFds' = OpenFds /\ AllOpen' = AllOpen
  BY <1>1 DEF ActiveSlots, OpenFds, AllOpen, table
<1>3. AllOpen
  <2> SUFFICES ASSUME NEW i \in ActiveSlots PROVE clients[i].sock \in OpenFds
    BY DEF AllOpen
  <2>1. clients[i].sock \in Asked /\ clients[i].sock \in Fds
    BY <1>1 DEF TableInvariant, WatchedSockets, SocketsAreDistinct, Asked
  <2> QED
    BY <1>1, <2>1, FdsAssumption DEF BadSocks
<1>4. PassIsSound'
  BY <1>1, <1>2, <1>3 DEF PassIsSound, BadSocks
<1>5. SocketsAreDistinct' /\ WatchedSockets' /\ OpenAreRecorded'
  BY <1>1, <1>2 DEF TableInvariant, SocketsAreDistinct, WatchedSockets, OpenAreRecorded, table
<1>6. CountIsAccurate' /\ LastSlotIsSpare' /\ FreedSlotsAreBlank'
  BY <1>1, <1>2 DEF TableInvariant, CountIsAccurate, LastSlotIsSpare, FreedSlotsAreBlank,
                    table, Ended
<1> QED
  BY <1>4, <1>5, <1>6 DEF TableInvariant

LEMMA NextTable == TypeOK /\ TypeOK' /\ TableInvariant /\ [Next]_vars => TableInvariant'
<1> SUFFICES ASSUME TypeOK, TypeOK', TableInvariant, [Next]_vars PROVE TableInvariant'
  OBVIOUS
<1>1. CASE Start \/ StartFails
  BY <1>1, TableAtStart
<1>2. CASE Environment
  BY <1>2, TableKept DEF Environment, Signal, Connect, Deliver, Close, Reset, TakeReply
<1>3. CASE SelectReady
  BY <1>3, TableAtSelect
<1>4. CASE SelectInterrupted \/ SelectError
  BY <1>4, TableAtExit DEF SelectInterrupted, SelectError
<1>5. CASE server_accept
  <2> PICK c \in Conns : AcceptFails(c) \/ Accept(c) \/ AcceptOverLimit(c)
    BY <1>5 DEF server_accept
  <2>1. CASE AcceptFails(c)
    BY <2>1, TableKept DEF AcceptFails
  <2> QED
    BY <2>1, TableAccepted, TableOverLimit
<1>6. CASE \E s \in Fds : handle_client(s)
  BY <1>6, TableServed
<1>7. CASE SendReply \/ SendLost \/ SendFails
  BY <1>7, TableKept DEF SendReply, SendLost, SendFails
<1>8. CASE SendKills
  BY <1>8, TableAtExit DEF SendKills
<1>9. CASE UNCHANGED vars
  BY <1>9, TableKept DEF vars, table
<1> QED
  BY <1>1, <1>2, <1>3, <1>4, <1>5, <1>6, <1>7, <1>8, <1>9 DEF Next, Server, Finished

\* The slot table, the watched set, the count and the pass over the ready
\* descriptors stay consistent with the kernel's descriptor table in every
\* behaviour of the registry.
THEOREM TableConsistent == Spec => []TableInvariant
<1>1. Init => TypeOK /\ TableInvariant
  BY InitTyped, InitTable
<1>2. TypeOK /\ TableInvariant /\ [Next]_vars => (TypeOK /\ TableInvariant)'
  BY NextTyped, NextTable
<1> QED
  BY <1>1, <1>2, PTL DEF Spec

-----------------------------------------------------------------------------
(* What follows for the loop of main.                                      *)

\* The "logic bug" branch of main's loop is dead: whatever the handlers
\* served earlier in a pass closed or accepted, each descriptor that is still
\* to be served is open and has an owner in the table.
THEOREM DispatchAlwaysFinds == Spec => []DispatchFindsClient
<1>1. TableInvariant => DispatchFindsClient
  <2> SUFFICES ASSUME TableInvariant, NEW s \in call_set \ {listen_sock}
               PROVE  s \in OpenFds /\ \E i \in ActiveSlots : clients[i].sock = s
    BY DEF DispatchFindsClient
  <2>1. s \in OpenFds /\ phase = "run"
    BY DEF TableInvariant, PassIsSound
  <2> QED
    BY <2>1 DEF TableInvariant, OpenAreRecorded
<1> QED
  BY <1>1, TableConsistent, PTL

\* No descriptor is leaked or shared, and the address the registry keeps for
\* a client, and gives to others in SEARCH, is the address of the connection
\* behind its descriptor, however slots and descriptors are reused.
THEOREM NoDescriptorLeaks == Spec => []DescriptorsAreOwned
<1>1. TableInvariant => DescriptorsAreOwned
  <2> SUFFICES ASSUME TableInvariant, phase = "run", NEW fd \in OpenFds
               PROVE  \E i \in ActiveSlots :
                        /\ clients[i].sock = fd
                        /\ clients[i].addr = fdconn[fd]
                        /\ \A j \in ActiveSlots : clients[j].sock = fd => j = i
    BY DEF DescriptorsAreOwned
  <2> QED
    BY DEF TableInvariant, OpenAreRecorded, SocketsAreDistinct
<1> QED
  BY <1>1, TableConsistent, PTL

LEMMA TableIsKept ==
  ASSUME TableInvariant PROVE CountIsAccurate /\ FreedSlotsAreBlank /\ ClientsAreWatched
BY DEF TableInvariant, SocketsAreDistinct, WatchedSockets, ClientsAreWatched

\* active_clients, which one function increments and another decrements,
\* counts the active slots.
THEOREM CountStaysAccurate == Spec => []CountIsAccurate
BY TableIsKept, TableConsistent, PTL

\* clear_client leaves no id, socket or file list to a slot's next client.
THEOREM NothingIsInherited == Spec => []FreedSlotsAreBlank
BY TableIsKept, TableConsistent, PTL

\* pselect is asked about every client, below max_socket + 1.
THEOREM NobodyIsForgotten == Spec => []ClientsAreWatched
BY TableIsKept, TableConsistent, PTL

LEMMA BoundFromTable == ASSUME TypeOK, TableInvariant PROVE ConnectionsAreBounded
<1>1. CASE phase # "run"
  <2>1. OpenFds = {}
    BY <1>1 DEF TableInvariant, PassIsSound
  <2> QED
    BY <2>1, FS_EmptySet, SizesAssumption DEF ConnectionsAreBounded
<1>2. CASE phase = "run"
  <2> DEFINE Holding == {i \in ActiveSlots : clients[i].sock \in OpenFds}
             SockOf == [i \in Holding |-> clients[i].sock]
  <2>1. Holding \in SUBSET ActiveSlots
    OBVIOUS
  <2>2. IsFiniteSet(Holding) /\ Cardinality(Holding) <= Cardinality(ActiveSlots)
    BY <2>1, ActiveFinite, FS_Subset
  <2>3. SockOf \in Surjection(Holding, OpenFds)
    <3>1. SockOf \in [Holding -> OpenFds]
      OBVIOUS
    <3>2. ASSUME NEW fd \in OpenFds PROVE \E i \in Holding : SockOf[i] = fd
      <4>1. PICK i \in ActiveSlots : clients[i].sock = fd
        BY <1>2 DEF TableInvariant, OpenAreRecorded
      <4> QED
        BY <4>1
    <3> HIDE DEF SockOf, Holding
    <3> QED
      BY <3>1, <3>2 DEF Surjection
  <2>4. Cardinality(OpenFds) <= Cardinality(Holding) /\ IsFiniteSet(OpenFds)
    <3> HIDE DEF SockOf, Holding
    <3> QED
      BY <2>2, <2>3, FS_Surjection
  <2>5. Cardinality(Holding) <= max_conn - 1
    <3>1. Cardinality(ActiveSlots) \in 0 .. max_conn /\ Cardinality(Holding) \in Nat
      BY <2>2, ActiveFinite, FS_CardinalityType
    <3>2. CASE AllOpen
      <4>1. Cardinality(ActiveSlots) <= max_conn - 1
        BY <1>2, <3>2 DEF TableInvariant, CountIsAccurate, LastSlotIsSpare, Ended
      <4> QED
        BY <2>2, <3>1, <4>1, SizesAssumption
    <3>3. CASE ~AllOpen
      <4>1. Holding # ActiveSlots
        BY <3>3 DEF AllOpen
      <4>2. Cardinality(Holding) # Cardinality(ActiveSlots)
        <5> HIDE DEF Holding
        <5> QED
          BY <2>1, <4>1, ActiveFinite, FS_Subset
      <4> HIDE DEF Holding
      <4> QED
        BY <2>2, <3>1, <4>2, SizesAssumption
    <3> QED
      BY <3>2, <3>3
  <2>6. Cardinality(OpenFds) \in Nat /\ Cardinality(Holding) \in Nat
    BY <2>2, <2>4, FS_CardinalityType
  <2> HIDE DEF Holding
  <2> QED
    BY <2>4, <2>5, <2>6, SizesAssumption DEF ConnectionsAreBounded
<1> QED
  BY <1>1, <1>2

\* The comparison of active_clients with max_conn - 1 keeps the number of
\* open connections below the size of the table, also while the descriptor
\* closed at the limit holds the last slot.
THEOREM BoundedConnections == Spec => []ConnectionsAreBounded
BY BoundFromTable, TypeCorrect, TableConsistent, PTL

-----------------------------------------------------------------------------
(* The registry implements the Directory: its further invariant            *)

LEMMA InitDirectory == Init => DirectoryInvariant
BY DEF Init, OpenFds, Idle, BlankClient, DirectoryInvariant, AcceptedOnce,
       ClosedSlotsShareNothing, AnswersHaveOwner

\* A step that leaves the table, the descriptors and the answers alone, and
\* ends no accepted connection.
LEMMA DirectoryKept ==
  ASSUME DirectoryInvariant, UNCHANGED <<phase, clients, fdconn, sending>>,
         \A c \in Conns : conn[c] = "accepted" => conn'[c] = "accepted", TypeOK
  PROVE  DirectoryInvariant'
<1>1. ActiveSlots' = ActiveSlots /\ OpenFds' = OpenFds
  BY DEF ActiveSlots, OpenFds
<1>2. \A fd \in OpenFds : fdconn[fd] \in Conns
  BY DEF OpenFds, TypeOK
<1> QED
  BY <1>1, <1>2 DEF DirectoryInvariant, AcceptedOnce, ClosedSlotsShareNothing, AnswersHaveOwner

LEMMA DirectoryAtExit ==
  ASSUME Shutdown \/ Die
  PROVE  DirectoryInvariant'
<1>1. phase' # "run" /\ CloseEverything
  BY DEF Shutdown, Die
<1>2. OpenFds' = {} /\ sending' = Idle
  BY <1>1 DEF CloseEverything, OpenFds
<1> QED
  BY <1>1, <1>2 DEF DirectoryInvariant, AcceptedOnce, ClosedSlotsShareNothing,
                    AnswersHaveOwner, Idle

LEMMA DirectoryAtStart ==
  ASSUME TypeOK, TableInvariant, DirectoryInvariant, Start \/ StartFails
  PROVE  DirectoryInvariant'
<1>1. phase = "start" /\ UNCHANGED <<clients, fdconn, sending, conn>>
  BY DEF Start, StartFails, table, net
<1>2. ActiveSlots' = {} /\ OpenFds' = {}
  BY <1>1 DEF TableInvariant, PassIsSound, ActiveSlots, OpenFds
<1> QED
  BY <1>1, <1>2 DEF DirectoryInvariant, AcceptedOnce, ClosedSlotsShareNothing, AnswersHaveOwner

LEMMA DirectoryAccepted ==
  ASSUME TypeOK, TableInvariant, DirectoryInvariant, NEW c \in Conns, Accept(c)
  PROVE  DirectoryInvariant'
<1>1. /\ Dispatched(listen_sock)
      /\ conn[c] = "backlog"
      /\ conn' = [conn EXCEPT ![c] = "accepted"]
      /\ UNCHANGED <<phase, sending>>
      /\ phase = "run"
  BY DEF Accept, Dispatched
<1>2. PICK fd \in Fds : /\ LowestFree(fd)
                        /\ fdconn' = [fdconn EXCEPT ![fd] = c]
                        /\ AddClient(fd, c)
  BY DEF Accept
<1>3. PICK i \in Slots : Added(fd, c, i)
  BY <1>1, <1>2, AddWithinPass
<1>4. OpenFds' = OpenFds \cup {fd} /\ fd \notin OpenFds
  BY <1>2, NoneAssumption DEF OpenFds, LowestFree, TypeOK
<1>5. \A f \in OpenFds : fdconn'[f] = fdconn[f] /\ fdconn[f] \in Conns \ {c}
  BY <1>1, <1>2, <1>4 DEF OpenFds, TypeOK, DirectoryInvariant, AcceptedOnce
<1>6. fdconn'[fd] = c
  BY <1>2 DEF TypeOK
<1>7. \A d \in Conns : conn'[d] = IF d = c THEN "accepted" ELSE conn[d]
  BY <1>1 DEF TypeOK
<1>8. AcceptedOnce'
  BY <1>4, <1>5, <1>6, <1>7 DEF DirectoryInvariant, AcceptedOnce
<1>9. ClosedSlotsShareNothing'
  BY <1>1, <1>3, <1>4 DEF Added, ActiveSlots, DirectoryInvariant, ClosedSlotsShareNothing
<1> QED
  BY <1>1, <1>8, <1>9 DEF DirectoryInvariant, AnswersHaveOwner

LEMMA DirectoryOverLimit ==
  ASSUME TypeOK, TableInvariant, DirectoryInvariant, NEW c \in Conns, AcceptOverLimit(c)
  PROVE  DirectoryInvariant'
<1>1. /\ Dispatched(listen_sock)
      /\ conn[c] = "backlog"
      /\ conn' = [conn EXCEPT ![c] = "done"]
      /\ UNCHANGED <<phase, sending, fdconn>>
      /\ phase = "run"
  BY DEF AcceptOverLimit, Dispatched
<1>2. \A d \in Conns : conn[d] = "accepted" => conn'[d] = "accepted"
  BY <1>1 DEF TypeOK
<1>3. CASE UNCHANGED table
  BY <1>1, <1>2, <1>3, DirectoryKept DEF table
<1>4. CASE ~UNCHANGED table
  <2>1. PICK fd \in Fds : LowestFree(fd) /\ AddClient(fd, c)
    BY <1>4 DEF AcceptOverLimit
  <2>2. PICK i \in Slots : Added(fd, c, i)
    BY <1>1, <2>1, AddWithinPass
  <2>3. OpenFds' = OpenFds /\ \A f \in OpenFds : fdconn[f] \in Conns
    BY <1>1 DEF OpenFds, TypeOK
  <2>4. AcceptedOnce'
    BY <1>1, <1>2, <2>3 DEF DirectoryInvariant, AcceptedOnce
  <2>5. clients[i].files = <<>>
    BY <2>2 DEF Added, TableInvariant, FreedSlotsAreBlank
  <2>6. ClosedSlotsShareNothing'
    BY <1>1, <2>2, <2>3, <2>5 DEF Added, ActiveSlots, DirectoryInvariant, ClosedSlotsShareNothing
  <2> QED
    BY <1>1, <2>4, <2>6 DEF DirectoryInvariant, AnswersHaveOwner
<1> QED
  BY <1>3, <1>4

\* What a request handler does to the slot of the client it serves: at most
\* one of a new id, a new list of names and a search.
Rewrites(i, m) ==
  \/ UNCHANGED <<clients, sending>>
  \/ /\ m \in JoinRequests
     /\ clients'[i].id = m.id /\ clients'[i].files = clients[i].files
     /\ UNCHANGED sending
  \/ /\ m \in PublishRequests
     /\ m.count <= Len(m.strs) /\ m.count <= max_files
     /\ clients'[i].id = clients[i].id
     /\ clients'[i].files = SubSeq(m.strs, 1, m.count)
     /\ UNCHANGED sending
  \/ /\ m \in SearchRequests
     /\ UNCHANGED clients
     /\ \E find \in SearchedFor(m) : \E r \in SearchResults(find) :
          sending' = [to |-> fdconn[clients[i].sock], replies |-> Append(ExtraReplies(m), r)]

LEMMA HandlerRewrites ==
  ASSUME TypeOK, NEW i \in Slots, NEW m \in Requests, Handle(i, m)
  PROVE  /\ Rewrites(i, m)
         /\ \A j \in Slots : /\ clients'[j].active = clients[j].active
                             /\ clients'[j].sock = clients[j].sock
                             /\ clients'[j].addr = clients[j].addr
         /\ \A j \in Slots \ {i} : clients'[j] = clients[j]
         /\ UNCHANGED <<phase, fdconn, conn>>
<1>0. UNCHANGED <<phase, fdconn, conn>>
  BY DEF Handle, handle_join, handle_publish, handle_search, UnknownCommand
<1>1. clients[i] \in Clients /\ DOMAIN clients = Slots
  BY DEF TypeOK
<1>2. CASE UNCHANGED <<clients, sending>>
  BY <1>0, <1>2 DEF Rewrites
<1>3. CASE ~UNCHANGED <<clients, sending>> /\ m.op = "join" /\ handle_join(i, m)
  <2>1. m \in JoinRequests
    BY <1>3, RequestsAssumption
  <2>2. /\ clients' = [clients EXCEPT ![i] = [@ EXCEPT !.id = m.id, !.type = "JOINED"]]
        /\ UNCHANGED sending
    BY <1>3 DEF handle_join
  <2>3. clients'[i] = [clients[i] EXCEPT !.id = m.id, !.type = "JOINED"]
    BY <1>1, <2>2
  <2>4. /\ clients'[i].id = m.id /\ clients'[i].files = clients[i].files
        /\ clients'[i].active = clients[i].active
        /\ clients'[i].sock = clients[i].sock
        /\ clients'[i].addr = clients[i].addr
    BY <1>1, <2>3 DEF Clients
  <2>5. \A j \in Slots \ {i} : clients'[j] = clients[j]
    BY <1>1, <2>2
  <2> QED
    BY <1>0, <2>1, <2>2, <2>4, <2>5 DEF Rewrites
<1>4. CASE ~UNCHANGED <<clients, sending>> /\ m.op = "publish" /\ handle_publish(i, m)
  <2>1. m \in PublishRequests
    BY <1>4, RequestsAssumption
  <2>2. /\ m.count <= Len(m.strs) /\ m.count <= max_files
        /\ clients' = [clients EXCEPT ![i] = [@ EXCEPT !.files = SubSeq(m.strs, 1, m.count)]]
        /\ UNCHANGED sending
    BY <1>4 DEF handle_publish, PublishAdmitted
  <2>3. clients'[i] = [clients[i] EXCEPT !.files = SubSeq(m.strs, 1, m.count)]
    BY <1>1, <2>2
  <2>4. /\ clients'[i].id = clients[i].id /\ clients'[i].files = SubSeq(m.strs, 1, m.count)
        /\ clients'[i].active = clients[i].active
        /\ clients'[i].sock = clients[i].sock
        /\ clients'[i].addr = clients[i].addr
    BY <1>1, <2>3 DEF Clients
  <2>5. \A j \in Slots \ {i} : clients'[j] = clients[j]
    BY <1>1, <2>2
  <2> QED
    BY <1>0, <2>1, <2>2, <2>4, <2>5 DEF Rewrites
<1>5. CASE ~UNCHANGED <<clients, sending>> /\ m.op = "search" /\ handle_search(i, m)
  <2>1. m \in SearchRequests
    BY <1>5, RequestsAssumption
  <2> QED
    BY <1>0, <1>5, <2>1 DEF handle_search, table, Rewrites
<1>6. UnknownCommand => UNCHANGED <<clients, sending>>
  BY DEF UnknownCommand, table
<1> QED
  BY <1>2, <1>3, <1>4, <1>5, <1>6 DEF Handle

LEMMA DirectoryHandled ==
  ASSUME TypeOK, TypeOK', TableInvariant, DirectoryInvariant, NEW s \in Fds, NEW i \in Slots,
         NEW c \in Conns, Dispatched(s), ClientRequest(s, i, c)
  PROVE  DirectoryInvariant'
<1>1. /\ clients[i].sock = s /\ i \in ActiveSlots /\ fdconn[s] = c /\ phase = "run"
      /\ Handle(i, inbox[c]) /\ inbox[c] \in Requests /\ sending = Idle
  BY DEF ClientRequest, Received, Owns, TakesRequest, ActiveSlots, Dispatched, TypeOK
<1>2. /\ Rewrites(i, inbox[c])
      /\ \A j \in Slots : /\ clients'[j].active = clients[j].active
                          /\ clients'[j].sock = clients[j].sock
      /\ \A j \in Slots \ {i} : clients'[j] = clients[j]
      /\ UNCHANGED <<phase, fdconn, conn>>
  BY <1>1, HandlerRewrites
<1>3. OpenFds' = OpenFds /\ ActiveSlots' = ActiveSlots /\ s \in OpenFds
  BY <1>1, <1>2, NoneAssumption DEF OpenFds, ActiveSlots
<1>4. AcceptedOnce'
  BY <1>2, <1>3 DEF DirectoryInvariant, AcceptedOnce
<1>5. ClosedSlotsShareNothing'
  BY <1>1, <1>2, <1>3 DEF DirectoryInvariant, ClosedSlotsShareNothing, ActiveSlots
<1>6. AnswersHaveOwner'
  BY <1>1, <1>2 DEF Rewrites, AnswersHaveOwner, Idle
<1> QED
  BY <1>4, <1>5, <1>6 DEF DirectoryInvariant

LEMMA DirectoryClosed ==
  ASSUME TypeOK, TypeOK', TableInvariant, DirectoryInvariant, NEW s \in Fds, NEW i \in Slots,
         NEW c \in Conns, Dispatched(s), ClientGone(s, i, c)
  PROVE  DirectoryInvariant'
<1>1. /\ clients[i].sock = s /\ clients[i].active /\ fdconn[s] = c
      /\ phase = "run" /\ phase' = "run" /\ sending' = sending
      /\ fdconn' = [fdconn EXCEPT ![s] = None]
      /\ clients' = [clients EXCEPT ![i] = ClearClient(@)]
      /\ conn' = [conn EXCEPT ![c] = "done"]
  BY DEF ClientGone, Received, Owns, CloseClient, Dispatched
<1>2. clients'[i] = ClearClient(clients[i]) /\ \A j \in Slots \ {i} : clients'[j] = clients[j]
  BY <1>1 DEF TypeOK
<1>3. clients[i] \in Clients
  BY DEF TypeOK
<1>4. ActiveSlots' = ActiveSlots \ {i}
  BY <1>2, <1>3 DEF ActiveSlots, ClearClient, Clients
<1>5. /\ OpenFds' = OpenFds \ {s} /\ s \in OpenFds
      /\ \A f \in OpenFds' : fdconn'[f] = fdconn[f] /\ fdconn[f] \in Conns
  BY <1>1, NoneAssumption DEF OpenFds, TypeOK
<1>6. \A f \in OpenFds' : fdconn[f] # c
  BY <1>1, <1>5 DEF DirectoryInvariant, AcceptedOnce
<1>7. AcceptedOnce'
  BY <1>1, <1>5, <1>6 DEF DirectoryInvariant, AcceptedOnce, TypeOK
<1>8. \A j \in ActiveSlots' : clients[j].sock # s /\ clients'[j] = clients[j]
  BY <1>1, <1>2, <1>4 DEF ActiveSlots, TableInvariant, SocketsAreDistinct
<1>9. ClosedSlotsShareNothing'
  BY <1>1, <1>4, <1>5, <1>8 DEF DirectoryInvariant, ClosedSlotsShareNothing
<1> QED
  BY <1>1, <1>7, <1>9 DEF DirectoryInvariant, AnswersHaveOwner

LEMMA DirectorySent ==
  ASSUME TypeOK, DirectoryInvariant, SendReply \/ SendLost \/ SendFails
  PROVE  DirectoryInvariant'
<1>1. UNCHANGED <<phase, clients, fdconn, conn>>
  BY DEF SendReply, SendLost, SendFails, table, net
<1>2. AcceptedOnce' /\ ClosedSlotsShareNothing'
  BY <1>1 DEF OpenFds, ActiveSlots, DirectoryInvariant, AcceptedOnce, ClosedSlotsShareNothing
<1>3. sending.replies # <<>> /\ sending.to \in Conns
  BY DEF SendReply, SendLost, SendFails, Busy, DirectoryInvariant, AnswersHaveOwner
<1>4. sending' = Idle \/ sending' = [sending EXCEPT !.replies = Tail(@)]
  BY DEF SendReply, SendLost, SendFails, Sent
<1>5. sending \in [to : Conns \cup {None}, replies : Seq(Replies)]
  BY DEF TypeOK
<1>6. sending'.replies = <<>> \/ sending'.to = sending.to
  BY <1>4, <1>5 DEF Idle
<1>7. AnswersHaveOwner'
  BY <1>3, <1>6 DEF AnswersHaveOwner
<1> QED
  BY <1>2, <1>7 DEF DirectoryInvariant

LEMMA NextDirectory ==
  TypeOK /\ TypeOK' /\ TableInvariant /\ DirectoryInvariant /\ [Next]_vars => DirectoryInvariant'
<1> SUFFICES ASSUME TypeOK, TypeOK', TableInvariant, DirectoryInvariant, [Next]_vars
             PROVE  DirectoryInvariant'
  OBVIOUS
<1>1. CASE Start \/ StartFails
  BY <1>1, DirectoryAtStart
<1>2. CASE Environment
  <2>1. \A c \in Conns : conn[c] = "accepted" => conn'[c] = "accepted"
    BY <1>2 DEF Environment, Signal, Connect, Deliver, Close, Reset, TakeReply, net, TypeOK
  <2> QED
    BY <1>2, <2>1, DirectoryKept
       DEF Environment, Signal, Connect, Deliver, Close, Reset, TakeReply, table
<1>3. CASE SelectReady
  BY <1>3, DirectoryKept DEF SelectReady, table, net
<1>4. CASE SelectInterrupted \/ SelectError \/ SendKills
  BY <1>4, DirectoryAtExit DEF SelectInterrupted, SelectError, SendKills
<1>5. CASE server_accept
  <2> PICK c \in Conns : AcceptFails(c) \/ Accept(c) \/ AcceptOverLimit(c)
    BY <1>5 DEF server_accept
  <2>1. CASE AcceptFails(c)
    <3>1. \A d \in Conns : conn[d] = "accepted" => conn'[d] = "accepted"
      BY <2>1 DEF AcceptFails, TypeOK
    <3> QED
      BY <2>1, <3>1, DirectoryKept DEF AcceptFails, table
  <2> QED
    BY <2>1, DirectoryAccepted, DirectoryOverLimit
<1>6. CASE \E s \in Fds : handle_client(s)
  <2> PICK s \in Fds : handle_client(s)
    BY <1>6
  <2>1. CASE \E i \in Slots : Owns(i, s)
    <3> PICK i \in Slots, c \in Conns : \/ ClientRequest(s, i, c)
                                        \/ ClientCrash(s, i, c)
                                        \/ ClientGone(s, i, c)
      BY <2>1 DEF handle_client
    <3> Dispatched(s)
      BY DEF handle_client
    <3>1. CASE ClientCrash(s, i, c)
      BY <3>1, DirectoryAtExit DEF ClientCrash, PublishCrashes
    <3> QED
      BY <3>1, DirectoryHandled, DirectoryClosed
  <2>2. CASE ~ \E i \in Slots : Owns(i, s)
    BY <2>2, DirectoryKept DEF handle_client, table, net
  <2> QED
    BY <2>1, <2>2
<1>7. CASE SendReply \/ SendLost \/ SendFails
  BY <1>7, DirectorySent
<1>8. CASE UNCHANGED vars
  BY <1>8, DirectoryKept DEF vars
<1> QED
  BY <1>1, <1>2, <1>3, <1>4, <1>5, <1>6, <1>7, <1>8 DEF Next, Server, Finished

-----------------------------------------------------------------------------
(* What the mapping makes of the table.                                    *)

\* The slot of an open descriptor is the one slot of its connection: it
\* holds the connection's id and names.  Every connection that is online has
\* one, and the others have no id and share nothing.
Placed ==
  /\ \A i \in ActiveSlots : clients[i].sock \in OpenFds =>
       LET c == fdconn[clients[i].sock]
       IN  /\ c \in online /\ c \in Conns /\ clients[i].addr = c
           /\ ident[c] = clients[i].id
           /\ shared[c] = FilesOf(i)
  /\ \A c \in online : \E i \in ActiveSlots : /\ clients[i].sock \in OpenFds
                                              /\ fdconn[clients[i].sock] = c
  /\ \A c \in Conns \ online : ident[c] = 0 /\ shared[c] = {}
  /\ online \subseteq Conns

LEMMA SlotsArePlaced == TypeOK /\ TableInvariant /\ DirectoryInvariant => Placed
<1> SUFFICES ASSUME TypeOK, TableInvariant, DirectoryInvariant PROVE Placed
  OBVIOUS
<1>1. \A fd \in OpenFds : fd \in Fds /\ fdconn[fd] \in Conns /\ fdconn[fd] \in online
  BY DEF OpenFds, online, TypeOK
<1>2. online \subseteq Conns
  BY <1>1 DEF online
<1>3. OpenFds # {} => phase = "run"
  BY DEF TableInvariant, PassIsSound
<1>4. ASSUME NEW i \in ActiveSlots, clients[i].sock \in OpenFds
      PROVE  LET c == fdconn[clients[i].sock]
             IN  /\ c \in online /\ c \in Conns /\ clients[i].addr = c
                 /\ ident[c] = clients[i].id
                 /\ shared[c] = FilesOf(i)
  <2> DEFINE fd == clients[i].sock
             c == fdconn[fd]
  <2>1. c \in online /\ c \in Conns /\ phase = "run" /\ i \in Slots
    BY <1>1, <1>3, <1>4 DEF ActiveSlots
  <2>2. clients[i].addr = c
    BY <1>4, <2>1 DEF TableInvariant, OpenAreRecorded, SocketsAreDistinct
  <2>3. SlotsOf(c) = {i}
    <3>1. i \in SlotsOf(c)
      BY <1>4, <2>1 DEF SlotsOf, ActiveSlots
    <3>2. ASSUME NEW j \in SlotsOf(c) PROVE j = i
      <4>1. j \in ActiveSlots /\ clients[j].sock \in OpenFds /\ fdconn[clients[j].sock] = c
        BY DEF SlotsOf, ActiveSlots
      <4>2. clients[j].sock = fd
        BY <1>4, <4>1 DEF DirectoryInvariant, AcceptedOnce
      <4> QED
        BY <2>1, <4>1, <4>2 DEF TableInvariant, SocketsAreDistinct
    <3> QED
      BY <3>1, <3>2
  <2>4. ident[c] = clients[i].id
    <3>1. (CHOOSE j \in SlotsOf(c) : TRUE) = i
      BY <2>3
    <3> QED
      BY <2>1, <3>1 DEF ident
  <2>5. shared[c] = FilesOf(i)
    BY <2>1, <2>3 DEF shared
  <2> QED
    BY <2>1, <2>2, <2>4, <2>5
<1>5. ASSUME NEW c \in online
      PROVE  \E i \in ActiveSlots : clients[i].sock \in OpenFds /\ fdconn[clients[i].sock] = c
  <2>1. PICK fd \in OpenFds : fdconn[fd] = c
    BY DEF online
  <2>2. PICK i \in ActiveSlots : clients[i].sock = fd
    BY <1>3 DEF TableInvariant, OpenAreRecorded
  <2> QED
    BY <2>1, <2>2
<1>6. ASSUME NEW c \in Conns \ online PROVE ident[c] = 0 /\ shared[c] = {}
  <2>1. SlotsOf(c) = {}
    BY <1>1 DEF SlotsOf
  <2> QED
    BY <2>1 DEF ident, shared
<1> QED
  BY <1>2, <1>4, <1>5, <1>6 DEF Placed

LEMMA SlotsArePlacedNext == (TypeOK /\ TableInvariant /\ DirectoryInvariant)' => Placed'
BY SlotsArePlaced, PTL

-----------------------------------------------------------------------------
(* The steps                                                               *)

LEMMA StutterStep ==
  ASSUME UNCHANGED <<clients, fdconn, sending>>
  PROVE  UNCHANGED D!dvars
BY DEF D!dvars, online, ident, shared, due, SlotsOf, FilesOf, OpenFds

LEMMA CollapseStep ==
  ASSUME Shutdown \/ Die
  PROVE  D!Collapse
<1>1. OpenFds' = {} /\ sending' = Idle
  BY DEF Shutdown, Die, CloseEverything, OpenFds
<1>2. online' = {}
  BY <1>1 DEF online
<1>3. \A c \in Conns : SlotsOf(c)' = {}
  BY <1>1 DEF SlotsOf
<1>4. ident' = [c \in Conns |-> 0]
  BY <1>2 DEF ident
<1>5. shared' = [c \in Conns |-> {}]
  BY <1>3 DEF shared
<1>6. due' = [c \in Conns |-> <<>>]
  BY <1>1, NoneAssumption DEF due, Idle
<1> QED
  BY <1>2, <1>4, <1>5, <1>6 DEF D!Collapse

\* The two maps of the Directory, as the slots give them.
LEMMA MapsTyped ==
  /\ ident = [c \in Conns |-> ident[c]] /\ shared = [c \in Conns |-> shared[c]]
  /\ due = [c \in Conns |-> due[c]]
  /\ ident' = [c \in Conns |-> ident'[c]] /\ shared' = [c \in Conns |-> shared'[c]]
  /\ due' = [c \in Conns |-> due'[c]]
BY DEF ident, shared, due

LEMMA SameCardinality == \A S : D!Cardinality(S) = Cardinality(S)
BY DEF D!Cardinality, Cardinality

LEMMA ArriveStep ==
  ASSUME TypeOK, TableInvariant, DirectoryInvariant, Placed, Placed',
         NEW c \in Conns, Accept(c)
  PROVE  D!Arrive(c)
<1>1. /\ Dispatched(listen_sock)
      /\ conn[c] = "backlog"
      /\ active_clients # max_conn - 1
      /\ UNCHANGED sending
      /\ phase = "run"
  BY DEF Accept, Dispatched, AtLimit
<1>2. PICK fd \in Fds : /\ LowestFree(fd)
                        /\ fdconn' = [fdconn EXCEPT ![fd] = c]
                        /\ AddClient(fd, c)
  BY DEF Accept
<1>3. PICK i \in Slots : Added(fd, c, i)
  BY <1>1, <1>2, AddWithinPass
<1>4. OpenFds' = OpenFds \cup {fd} /\ fd \notin OpenFds
  BY <1>2, NoneAssumption DEF OpenFds, LowestFree, TypeOK
<1>5. \A f \in OpenFds : fdconn'[f] = fdconn[f] /\ fdconn[f] # c
  BY <1>1, <1>2, <1>4 DEF OpenFds, TypeOK, DirectoryInvariant, AcceptedOnce
<1>6. fdconn'[fd] = c
  BY <1>2 DEF TypeOK
<1>7. online' = online \cup {c} /\ c \notin online
  BY <1>4, <1>5, <1>6 DEF online
<1>8. Cardinality(online) < max_conn - 1
  <2>1. AllOpen
    BY <1>1 DEF Dispatched, TableInvariant, PassIsSound
  <2>2. active_clients = Cardinality(ActiveSlots) /\ active_clients < max_conn - 1
    BY <1>1, <2>1, SizesAssumption
       DEF TableInvariant, CountIsAccurate, LastSlotIsSpare, Ended
  <2> DEFINE ConnOf == [j \in ActiveSlots |-> fdconn[clients[j].sock]]
  <2>3. ConnOf \in Surjection(ActiveSlots, online)
    <3>1. ConnOf \in [ActiveSlots -> online]
      BY <2>1 DEF AllOpen, online
    <3>2. ASSUME NEW d \in online PROVE \E j \in ActiveSlots : ConnOf[j] = d
      BY DEF Placed
    <3> HIDE DEF ConnOf
    <3> QED
      BY <3>1, <3>2 DEF Surjection
  <2>4. Cardinality(online) <= Cardinality(ActiveSlots) /\ IsFiniteSet(online)
    <3> HIDE DEF ConnOf
    <3> QED
      BY <2>3, ActiveFinite, FS_Surjection
  <2>5. Cardinality(online) \in Nat
    BY <2>4, FS_CardinalityType
  <2> QED
    BY <2>2, <2>4, <2>5, ActiveFinite, SizesAssumption
<1>9. ASSUME NEW d \in Conns PROVE ident'[d] = ident[d] /\ shared'[d] = shared[d]
  <2>1. CASE d = c
    <3>1. ident[c] = 0 /\ shared[c] = {}
      BY <1>7 DEF Placed
    <3>2. /\ i \in ActiveSlots'
          /\ clients'[i].sock = fd /\ clients'[i].id = 0 /\ clients'[i].files = <<>>
      BY <1>3 DEF Added, TableInvariant, FreedSlotsAreBlank
    <3>3. ident'[c] = 0 /\ shared'[c] = FilesOf(i)'
      BY <1>4, <1>6, <3>2 DEF Placed
    <3> QED
      BY <2>1, <3>1, <3>2, <3>3 DEF FilesOf
  <2>2. CASE d # c /\ d \notin online
    BY <1>7, <2>2 DEF Placed
  <2>3. CASE d # c /\ d \in online
    <3>1. PICK j \in ActiveSlots : clients[j].sock \in OpenFds /\ fdconn[clients[j].sock] = d
      BY <2>3 DEF Placed
    <3>2. j \in ActiveSlots' /\ clients'[j] = clients[j]
      BY <1>3 DEF Added, ActiveSlots
    <3>3. ident[d] = clients[j].id /\ shared[d] = FilesOf(j)
      BY <3>1 DEF Placed
    <3>4. clients'[j].sock \in OpenFds' /\ fdconn'[clients'[j].sock] = d
      BY <1>4, <1>5, <3>1, <3>2
    <3>5. ident'[d] = clients'[j].id /\ shared'[d] = FilesOf(j)'
      BY <3>2, <3>4 DEF Placed
    <3> QED
      BY <3>2, <3>3, <3>5 DEF FilesOf
  <2> QED
    BY <2>1, <2>2, <2>3
<1>10. UNCHANGED <<ident, shared, due>>
  BY <1>1, <1>9, MapsTyped DEF due
<1> QED
  BY <1>7, <1>8, <1>10, SameCardinality DEF D!Arrive

\* The slot given to the descriptor closed at the limit is nobody's.
LEMMA OverLimitStep ==
  ASSUME TypeOK, TableInvariant, DirectoryInvariant, Placed, Placed',
         NEW c \in Conns, AcceptOverLimit(c)
  PROVE  UNCHANGED D!dvars
<1>1. Dispatched(listen_sock) /\ UNCHANGED <<sending, fdconn>>
  BY DEF AcceptOverLimit
<1>2. CASE UNCHANGED table
  BY <1>1, <1>2, StutterStep DEF table
<1>3. CASE ~UNCHANGED table
  <2>1. PICK fd \in Fds : LowestFree(fd) /\ AddClient(fd, c)
    BY <1>3 DEF AcceptOverLimit
  <2>2. PICK i \in Slots : Added(fd, c, i)
    BY <1>1, <2>1, AddWithinPass
  <2>3. OpenFds' = OpenFds /\ online' = online /\ due' = due
    BY <1>1 DEF OpenFds, online, due
  <2>4. ASSUME NEW d \in Conns PROVE ident'[d] = ident[d] /\ shared'[d] = shared[d]
    <3>1. CASE d \notin online
      BY <2>3, <3>1 DEF Placed
    <3>2. CASE d \in online
      <4>1. PICK j \in ActiveSlots : clients[j].sock \in OpenFds /\ fdconn[clients[j].sock] = d
        BY <3>2 DEF Placed
      <4>2. j \in ActiveSlots' /\ clients'[j] = clients[j]
        BY <2>2 DEF Added, ActiveSlots
      <4>3. ident[d] = clients[j].id /\ shared[d] = FilesOf(j)
        BY <4>1 DEF Placed
      <4>4. ident'[d] = clients'[j].id /\ shared'[d] = FilesOf(j)'
        BY <1>1, <2>3, <4>1, <4>2 DEF Placed
      <4> QED
        BY <4>2, <4>3, <4>4 DEF FilesOf
    <3> QED
      BY <3>1, <3>2
  <2> QED
    BY <2>3, <2>4, MapsTyped DEF D!dvars
<1> QED
  BY <1>2, <1>3

LEMMA LeaveStep ==
  ASSUME TypeOK, TypeOK', TableInvariant, DirectoryInvariant, Placed, Placed',
         NEW s \in Fds, NEW i \in Slots, NEW c \in Conns, Dispatched(s), ClientGone(s, i, c)
  PROVE  D!Leave(c)
<1>1. /\ clients[i].sock = s /\ clients[i].active /\ fdconn[s] = c
      /\ phase = "run" /\ sending = Idle /\ sending' = sending
      /\ fdconn' = [fdconn EXCEPT ![s] = None]
      /\ clients' = [clients EXCEPT ![i] = ClearClient(@)]
  BY DEF ClientGone, Received, Owns, CloseClient, Dispatched
<1>2. \A j \in Slots \ {i} : clients'[j] = clients[j]
  BY <1>1 DEF TypeOK
<1>3. /\ OpenFds' = OpenFds \ {s} /\ s \in OpenFds
      /\ \A f \in OpenFds' : fdconn'[f] = fdconn[f]
  BY <1>1, NoneAssumption DEF OpenFds, TypeOK
<1>4. \A f \in OpenFds' : fdconn[f] # c
  BY <1>1, <1>3 DEF DirectoryInvariant, AcceptedOnce
<1>5. online' = online \ {c} /\ c \in online
  BY <1>1, <1>3, <1>4 DEF online
<1>6. ident'[c] = 0 /\ shared'[c] = {}
  BY <1>5 DEF Placed
<1>7. ASSUME NEW d \in Conns, d # c PROVE ident'[d] = ident[d] /\ shared'[d] = shared[d]
  <2>1. CASE d \notin online
    BY <1>5, <1>7, <2>1 DEF Placed
  <2>2. CASE d \in online
    <3>1. PICK j \in ActiveSlots : clients[j].sock \in OpenFds /\ fdconn[clients[j].sock] = d
      BY <2>2 DEF Placed
    <3>2. j \in Slots \ {i} /\ clients[j].sock # s /\ clients'[j] = clients[j]
      BY <1>1, <1>2, <1>7, <3>1 DEF ActiveSlots
    <3>3. j \in ActiveSlots'
      BY <3>1, <3>2 DEF ActiveSlots
    <3>4. ident[d] = clients[j].id /\ shared[d] = FilesOf(j)
      BY <3>1 DEF Placed
    <3>5. clients'[j].sock \in OpenFds' /\ fdconn'[clients'[j].sock] = d
      BY <1>3, <3>1, <3>2
    <3>6. ident'[d] = clients'[j].id /\ shared'[d] = FilesOf(j)'
      BY <3>3, <3>5 DEF Placed
    <3> QED
      BY <3>2, <3>4, <3>6 DEF FilesOf
  <2> QED
    BY <2>1, <2>2
<1>8. ident' = [ident EXCEPT ![c] = 0] /\ shared' = [shared EXCEPT ![c] = {}]
  BY <1>6, <1>7, MapsTyped
<1>9. due' = due /\ due[c] = <<>>
  BY <1>1, NoneAssumption DEF due, Idle
<1> QED
  BY <1>5, <1>8, <1>9 DEF D!Leave

\* The registry's comparison, character by character, is the Directory's rule.
LEMMA SameMatch ==
  ASSUME NEW f \in Names, NEW find \in Names
  PROVE  D!Matches(f, find) <=> NameMatches(f, find)
<1>1. f \in Seq(Nat) /\ find \in Seq(Nat)
  BY DataAssumption
<1>2. SUFFICES ASSUME Len(f) <= Len(find)
               PROVE  SubSeq(find, 1, Len(f)) = f <=> \A k \in 1 .. Len(f) : f[k] = find[k]
  BY DEF D!Matches, NameMatches
<1>3. /\ SubSeq(find, 1, Len(f)) \in Seq(Nat) /\ Len(SubSeq(find, 1, Len(f))) = Len(f)
      /\ \A k \in 1 .. Len(f) : SubSeq(find, 1, Len(f))[k] = find[k]
  BY <1>1, <1>2
<1> QED
  BY <1>1, <1>3, SeqEqual

\* Every answer the slot-by-slot search can come to is one the Directory
\* allows: it names a client that is online and shares a matching name, with
\* its own id, and a miss hides no client whose name is sure to be found.
LEMMA SearchAnswers ==
  ASSUME TypeOK, DirectoryInvariant, Placed, phase = "run",
         NEW find \in Names, NEW r \in SearchResults(find)
  PROVE  r \in D!Answers(find)
<1> USE DEF D!Miss, NotFound
<1>1. CASE \E i \in Slots : MayMatch(i, find) /\ r = ReplyFor(i)
  <2>1. PICK i \in Slots : MayMatch(i, find) /\ r = ReplyFor(i)
    BY <1>1
  <2>2. PICK f \in FilesOf(i) : NameMatches(f, find)
    BY <2>1 DEF MayMatch
  <2>3. i \in ActiveSlots /\ clients[i].files # <<>>
    <3>1. clients[i].files # <<>>
      BY <2>2 DEF FilesOf
    <3> QED
      BY <2>1, <3>1 DEF MayMatch, ActiveSlots
  <2>4. clients[i].sock \in OpenFds
    BY <2>3 DEF DirectoryInvariant, ClosedSlotsShareNothing
  <2> DEFINE c == fdconn[clients[i].sock]
  <2>5. /\ c \in online /\ c \in Conns /\ clients[i].addr = c
        /\ ident[c] = clients[i].id /\ shared[c] = FilesOf(i)
    BY <2>3, <2>4 DEF Placed
  <2>6. c \in D!Holders(find)
    <3>1. f \in Names
      BY <2>2 DEF TypeOK, Clients, FilesOf
    <3> QED
      BY <2>2, <2>5, <3>1, SameMatch DEF D!Holders
  <2>7. CASE c \in V4
    <3>1. r = [id |-> ident[c], addr |-> c]
      BY <2>1, <2>5, <2>7 DEF ReplyFor
    <3> HIDE DEF c
    <3> QED
      BY <2>6, <2>7, <3>1 DEF D!Answers
  <2>8. CASE c \notin V4
    <3>1. r = D!Miss
      BY <2>1, <2>5, <2>8 DEF ReplyFor
    <3> HIDE DEF c
    <3> QED
      BY <2>6, <2>8, <3>1 DEF D!Answers
  <2> QED
    BY <2>7, <2>8
<1>2. CASE r = NotFound /\ \A j \in Slots : ~MustMatch(j, find)
  <2>1. D!SureHolders(find) = {}
    <3> SUFFICES ASSUME NEW c \in online, NEW f \in shared[c], f \in Padded, NameMatches(f, find)
                 PROVE  FALSE
      BY SameMatch, DataAssumption DEF D!SureHolders
    <3>1. PICK i \in ActiveSlots : clients[i].sock \in OpenFds /\ fdconn[clients[i].sock] = c
      BY DEF Placed
    <3>2. f \in FilesOf(i)
      BY <3>1 DEF Placed
    <3>3. MustMatch(i, find) /\ i \in Slots
      BY <3>2 DEF MustMatch, ActiveSlots
    <3> QED
      BY <1>2, <3>3
  <2> QED
    BY <1>2, <2>1 DEF D!Answers
<1> QED
  BY <1>1, <1>2 DEF SearchResults

\* The names a slot keeps of an admitted PUBLISH are all those of the request.
LEMMA PublishedFiles ==
  ASSUME NEW m \in Requests, m \in PublishRequests,
         m.count <= Len(m.strs), m.count <= max_files
  PROVE  LET strs == SubSeq(m.strs, 1, m.count)
         IN  {strs[k] : k \in 1 .. Len(strs)} \in WholeLists
<1> DEFINE strs == SubSeq(m.strs, 1, m.count)
<1>1. m.count \in Nat /\ m.strs \in Seq(Names) /\ m.op = "publish"
  BY DEF PublishRequests
<1>2. Len(strs) = m.count /\ \A k \in 1 .. m.count : strs[k] = m.strs[k]
  BY <1>1
<1> HIDE DEF strs
<1>3. {strs[k] : k \in 1 .. Len(strs)} = {m.strs[k] : k \in 1 .. m.count}
  BY <1>2
<1>4. {m.strs[k] : k \in 1 .. m.count} \in WholeLists
  BY <1>1 DEF WholeLists
<1> QED
  BY <1>3, <1>4 DEF strs

LEMMA ServeStep ==
  ASSUME TypeOK, TypeOK', TableInvariant, DirectoryInvariant, Placed, Placed',
         NEW s \in Fds, NEW i \in Slots, NEW c \in Conns, Dispatched(s), ClientRequest(s, i, c)
  PROVE  D!DNext \/ UNCHANGED D!dvars
<1> DEFINE m == inbox[c]
<1>1. /\ clients[i].sock = s /\ i \in ActiveSlots /\ fdconn[s] = c /\ phase = "run"
      /\ Handle(i, m) /\ m \in Requests /\ sending = Idle
  BY DEF ClientRequest, Received, Owns, TakesRequest, ActiveSlots, Dispatched, TypeOK
<1>2. /\ Rewrites(i, m)
      /\ \A j \in Slots : /\ clients'[j].active = clients[j].active
                          /\ clients'[j].sock = clients[j].sock
      /\ \A j \in Slots \ {i} : clients'[j] = clients[j]
      /\ UNCHANGED fdconn
  BY <1>1, HandlerRewrites
<1> HIDE DEF m
<1>3. OpenFds' = OpenFds /\ ActiveSlots' = ActiveSlots /\ s \in OpenFds /\ online' = online
  BY <1>1, <1>2, NoneAssumption DEF OpenFds, ActiveSlots, online
<1>4. /\ c \in online
      /\ ident[c] = clients[i].id /\ shared[c] = FilesOf(i)
      /\ ident'[c] = clients'[i].id /\ shared'[c] = FilesOf(i)'
  <2>1. clients'[i].sock = s /\ fdconn'[s] = c
    BY <1>1, <1>2 DEF ActiveSlots
  <2> QED
    BY <1>1, <1>3, <2>1 DEF Placed
<1>5. ASSUME NEW d \in Conns, d # c PROVE ident'[d] = ident[d] /\ shared'[d] = shared[d]
  <2>1. CASE d \notin online
    BY <1>3, <2>1 DEF Placed
  <2>2. CASE d \in online
    <3>1. PICK j \in ActiveSlots : clients[j].sock \in OpenFds /\ fdconn[clients[j].sock] = d
      BY <2>2 DEF Placed
    <3>2. clients'[j] = clients[j]
      BY <1>1, <1>2, <1>5, <3>1 DEF ActiveSlots
    <3>3. ident[d] = clients[j].id /\ shared[d] = FilesOf(j)
      BY <3>1 DEF Placed
    <3>4. ident'[d] = clients'[j].id /\ shared'[d] = FilesOf(j)'
      BY <1>2, <1>3, <3>1, <3>2 DEF Placed
    <3> QED
      BY <3>2, <3>3, <3>4 DEF FilesOf
  <2> QED
    BY <2>1, <2>2
<1>6. CASE UNCHANGED <<clients, sending>>
  BY <1>2, <1>6, StutterStep
<1>7. CASE /\ m \in JoinRequests
           /\ clients'[i].id = m.id /\ clients'[i].files = clients[i].files
           /\ UNCHANGED sending
  <2>1. ident' = [ident EXCEPT ![c] = m.id]
    BY <1>4, <1>5, <1>7, MapsTyped
  <2>2. shared'[c] = shared[c]
    BY <1>4, <1>7 DEF FilesOf
  <2>3. UNCHANGED <<shared, due>>
    BY <1>5, <1>7, <2>2, MapsTyped DEF due
  <2>4. D!Join(c, m.id) /\ m.id \in Ids
    BY <1>3, <1>4, <1>7, <2>1, <2>3 DEF D!Join, JoinRequests
  <2> QED
    BY <2>4 DEF D!DNext
<1>8. CASE /\ m \in PublishRequests
           /\ m.count <= Len(m.strs) /\ m.count <= max_files
           /\ clients'[i].id = clients[i].id
           /\ clients'[i].files = SubSeq(m.strs, 1, m.count)
           /\ UNCHANGED sending
  <2>1. FilesOf(i)' \in WholeLists
    BY <1>1, <1>8, PublishedFiles DEF FilesOf
  <2>2. shared' = [shared EXCEPT ![c] = FilesOf(i)']
    BY <1>4, <1>5, MapsTyped
  <2>3. ident'[c] = ident[c]
    BY <1>4, <1>8
  <2>4. UNCHANGED <<ident, due>>
    BY <1>5, <1>8, <2>3, MapsTyped DEF due
  <2>5. D!Publish(c, FilesOf(i)')
    BY <1>3, <1>4, <2>2, <2>4 DEF D!Publish
  <2> QED
    BY <2>1, <2>5 DEF D!DNext
<1>9. CASE /\ m \in SearchRequests
           /\ UNCHANGED clients
           /\ \E find \in SearchedFor(m) : \E r \in SearchResults(find) :
                sending' = [to |-> fdconn[clients[i].sock],
                            replies |-> Append(ExtraReplies(m), r)]
  <2>0. PICK find \in SearchedFor(m) : \E r \in SearchResults(find) :
          sending' = [to |-> c, replies |-> Append(ExtraReplies(m), r)]
    BY <1>1, <1>9
  <2>1. PICK r \in SearchResults(find) :
          sending' = [to |-> c, replies |-> Append(ExtraReplies(m), r)]
    BY <2>0
  <2>2. find \in Names
    BY <1>9 DEF SearchedFor, SearchRequests
  <2>3. r \in D!Answers(find)
    BY <1>1, <2>2, SearchAnswers
  <2>4. m.op = "search"
    BY <1>9 DEF SearchRequests
  <2> DEFINE misses == Len(ExtraReplies(m))
  <2>5. ExtraReplies(m) = [k \in 1 .. misses |-> D!Miss]
    <3>1. m.eightbit + (IF m.tail = "clean" THEN 0 ELSE 1) \in Nat
      BY <1>9 DEF SearchRequests
    <3> QED
      BY <3>1 DEF ExtraReplies, D!Miss, NotFound
  <2>6. misses \in {Len(ExtraReplies(q)) : q \in {x \in Requests : x.op = "search"}}
    BY <1>1, <2>4
  <2> HIDE DEF misses
  <2>7. due = [d \in Conns |-> <<>>]
    BY <1>1, NoneAssumption DEF due, Idle
  <2>8. due' = [due EXCEPT ![c] = Append(ExtraReplies(m), r)]
    BY <2>1, <2>7 DEF due
  <2>9. UNCHANGED <<online, ident, shared>>
    <3>1. ident'[c] = ident[c] /\ shared'[c] = shared[c]
      BY <1>4, <1>9 DEF FilesOf
    <3> QED
      BY <1>3, <1>5, <3>1, MapsTyped
  <2>10. D!Search(c, find, misses)
    BY <1>4, <2>3, <2>5, <2>7, <2>8, <2>9 DEF D!Search
  <2> QED
    BY <2>2, <2>6, <2>10 DEF D!DNext
<1> QED
  BY <1>2, <1>6, <1>7, <1>8, <1>9 DEF Rewrites

LEMMA SendStep ==
  ASSUME TypeOK, DirectoryInvariant, SendReply \/ SendLost \/ SendFails
  PROVE  D!DNext
<1> DEFINE c == sending.to
<1>1. /\ UNCHANGED <<clients, fdconn>>
      /\ sending.replies # <<>> /\ c \in Conns
      /\ Sent \/ sending' = Idle
  BY DEF SendReply, SendLost, SendFails, table, net, Busy, DirectoryInvariant, AnswersHaveOwner
<1>2. UNCHANGED <<online, ident, shared>>
  BY <1>1 DEF online, ident, shared, SlotsOf, FilesOf, OpenFds
<1>3. sending \in [to : Conns \cup {None}, replies : Seq(Replies)]
  BY DEF TypeOK
<1>4. due[c] = sending.replies /\ \A d \in Conns \ {c} : due[d] = <<>>
  BY <1>1 DEF due
<1>5. sending' = Idle => due' = [due EXCEPT ![c] = <<>>]
  BY <1>1, <1>4, NoneAssumption DEF due, Idle
<1>6. CASE sending' = Idle
  <2>1. D!GiveUp(c)
    BY <1>1, <1>2, <1>4, <1>5, <1>6 DEF D!GiveUp
  <2> QED
    BY <1>1, <2>1 DEF D!DNext
<1>7. CASE sending' # Idle
  <2>1. sending' = [sending EXCEPT !.replies = Tail(@)]
    BY <1>1, <1>7 DEF Sent
  <2>2. sending'.to = c /\ sending'.replies = Tail(sending.replies)
    BY <1>3, <2>1
  <2>3. due' = [due EXCEPT ![c] = Tail(@)]
    BY <1>1, <1>4, <2>2 DEF due
  <2>4. D!Send(c)
    BY <1>1, <1>2, <1>4, <2>3 DEF D!Send
  <2> QED
    BY <1>1, <2>4 DEF D!DNext
<1> QED
  BY <1>6, <1>7

LEMMA NextSimulates ==
  /\ TypeOK /\ TableInvariant /\ DirectoryInvariant
  /\ TypeOK' /\ TableInvariant' /\ DirectoryInvariant'
  /\ [Next]_vars
  => [D!DNext]_D!dvars
<1> SUFFICES ASSUME TypeOK, TableInvariant, DirectoryInvariant,
                    TypeOK', TableInvariant', DirectoryInvariant', [Next]_vars
             PROVE  D!DNext \/ UNCHANGED D!dvars
  OBVIOUS
<1>0. Placed /\ Placed'
  BY SlotsArePlaced, SlotsArePlacedNext
<1>1. CASE Start \/ StartFails \/ Environment \/ SelectReady
  BY <1>1, StutterStep DEF Start, StartFails, Environment, Signal, Connect, Deliver, Close,
     Reset, TakeReply, SelectReady, table
<1>2. CASE SelectInterrupted \/ SelectError \/ SendKills
  BY <1>2, CollapseStep DEF SelectInterrupted, SelectError, SendKills, D!DNext
<1>3. CASE server_accept
  <2> PICK c \in Conns : AcceptFails(c) \/ Accept(c) \/ AcceptOverLimit(c)
    BY <1>3 DEF server_accept
  <2>1. CASE AcceptFails(c)
    BY <2>1, StutterStep DEF AcceptFails, table
  <2>2. CASE Accept(c)
    BY <1>0, <2>2, ArriveStep DEF D!DNext
  <2>3. CASE AcceptOverLimit(c)
    BY <1>0, <2>3, OverLimitStep
  <2> QED
    BY <2>1, <2>2, <2>3
<1>4. CASE \E s \in Fds : handle_client(s)
  <2> PICK s \in Fds : handle_client(s)
    BY <1>4
  <2>1. CASE \E i \in Slots : Owns(i, s)
    <3> PICK i \in Slots, c \in Conns : \/ ClientRequest(s, i, c)
                                        \/ ClientCrash(s, i, c)
                                        \/ ClientGone(s, i, c)
      BY <2>1 DEF handle_client
    <3> Dispatched(s)
      BY DEF handle_client
    <3>1. CASE ClientRequest(s, i, c)
      BY <1>0, <3>1, ServeStep
    <3>2. CASE ClientCrash(s, i, c)
      BY <3>2, CollapseStep DEF ClientCrash, PublishCrashes, D!DNext
    <3>3. CASE ClientGone(s, i, c)
      BY <1>0, <3>3, LeaveStep DEF D!DNext
    <3> QED
      BY <3>1, <3>2, <3>3
  <2>2. CASE ~ \E i \in Slots : Owns(i, s)
    BY <2>2, StutterStep DEF handle_client, table
  <2> QED
    BY <2>1, <2>2
<1>5. CASE SendReply \/ SendLost \/ SendFails
  BY <1>5, SendStep
<1>6. CASE UNCHANGED vars
  BY <1>6, StutterStep DEF vars
<1> QED
  BY <1>1, <1>2, <1>3, <1>4, <1>5, <1>6 DEF Next, Server, Finished

LEMMA InitSimulates == Init => D!DInit
<1> SUFFICES ASSUME Init PROVE D!DInit
  OBVIOUS
<1>1. OpenFds = {} /\ sending = Idle
  BY DEF Init, OpenFds
<1>2. online = {}
  BY <1>1 DEF online
<1>3. \A c \in Conns : SlotsOf(c) = {}
  BY <1>1 DEF SlotsOf
<1>4. ident = [c \in Conns |-> 0] /\ shared = [c \in Conns |-> {}]
  BY <1>2, <1>3 DEF ident, shared
<1>5. due = [c \in Conns |-> <<>>]
  BY <1>1, NoneAssumption DEF due, Idle
<1> QED
  BY <1>2, <1>4, <1>5 DEF D!DInit

\* The slot table, the descriptors and their reuse are invisible to clients:
\* for every size of the table the registry behaves as the Directory does.  A
\* client inherits neither the id nor the files of an earlier holder of its
\* slot or descriptor, a search names only clients that are connected when the
\* answer is decided, and a miss hides no client that is sure to be found.
THEOREM RegistryIsADirectory == Spec => ImplementsDirectory
<1> DEFINE Inv == TypeOK /\ TableInvariant /\ DirectoryInvariant
<1>1. Init => Inv
  BY InitTyped, InitTable, InitDirectory
<1>2. Inv /\ [Next]_vars => Inv'
  BY NextTyped, NextTable, NextDirectory
<1>3. Inv /\ Inv' /\ [Next]_vars => [D!DNext]_D!dvars
  BY NextSimulates
<1> HIDE DEF Inv
<1> QED
  BY <1>1, <1>2, <1>3, InitSimulates, PTL DEF Spec, ImplementsDirectory, D!DSpec

=============================================================================
