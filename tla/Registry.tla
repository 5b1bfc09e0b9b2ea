------------------------------ MODULE Registry ------------------------------
(***************************************************************************)
(* The peer-to-peer file registry of src/program_04/registry.c: a single   *)
(* thread that waits in pselect, walks the ready descriptors in ascending  *)
(* order, and keeps one table slot per connected client.                   *)
(*                                                                         *)
(* A connection is a model value.  It stands for the TCP connection and    *)
(* for the client's socket address, which is what SEARCH hands out.  The   *)
(* kernel (descriptor table, accept queue, receive and send buffers) is    *)
(* modelled from the calls the registry makes.                             *)
(*                                                                         *)
(* Definitions whose name ends in _Mutant are plausible mistakes in the    *)
(* definition that follows them.  No specification uses them; they serve   *)
(* to show that the properties can tell the mistake from the code.         *)
(***************************************************************************)
EXTENDS Integers, Sequences, FiniteSets

CONSTANTS
  max_conn,     \* srv.max_conn: number of slots of the client table
  max_files,    \* srv.max_files: most names one PUBLISH may carry
  listen_sock,  \* descriptor of the listening socket, below every client's
  Fds,          \* descriptors accept may return
  Conns,        \* connections; each is made at most once
  V4,           \* the connections whose peer address is AF_INET
  Ids,          \* client ids (uint32_t)
  Names,        \* file names, as sequences of characters
  Padded,       \* the names whose calloc'ed block has a zero byte after them
  Requests,     \* what one recv can return
  PublishLimit, \* bytes after the opcode at which PUBLISH is refused (1199)
  SearchLimit,  \* the same for SEARCH (100)
  OutCap,       \* 10-byte replies that fit between send and a client's recv
  None

(* Shapes of a request.  len is the number of bytes after the opcode, as   *)
(* handle_client passes it on.                                             *)
(*   publish: count is the announced number of names, strs the names that  *)
(*            are NUL-terminated ASCII, up to the first that is not;       *)
(*   search:  name is the text up to the first NUL (or the end), eightbit  *)
(*            the number of bytes >= 128, and tail says whether the last   *)
(*            byte is the NUL ("clean"), text follows a NUL ("junk") or    *)
(*            there is no NUL at all ("open").                             *)
JoinRequests    == [op : {"join"}, len : Nat, id : Ids]
PublishRequests == [op : {"publish"}, len : Nat, count : Nat, strs : Seq(Names)]
SearchRequests  == [op : {"search"}, len : Nat, name : Names, eightbit : Nat,
                    tail : {"clean", "junk", "open"}]
OtherRequests   == [op : {"other"}]

ASSUME SizesAssumption ==
  /\ max_conn \in Nat \ {0}
  /\ max_files \in Nat
  /\ PublishLimit \in Nat
  /\ SearchLimit \in Nat
  /\ OutCap \in Nat \ {0}

\* main's pass starts at descriptor 3, and the listening socket was opened
\* before any client's.
ASSUME FdsAssumption ==
  /\ listen_sock \in Nat
  /\ listen_sock >= 3
  /\ Fds \subseteq Nat
  /\ \A fd \in Fds : fd > listen_sock

ASSUME DataAssumption ==
  /\ Ids \subseteq Nat
  /\ 0 \in Ids
  /\ V4 \subseteq Conns
  /\ Names \subseteq Seq(Nat)
  /\ Padded \subseteq Names

ASSUME RequestsAssumption ==
  \A m \in Requests : \/ m.op = "join"    /\ m \in JoinRequests
                      \/ m.op = "publish" /\ m \in PublishRequests
                      \/ m.op = "search"  /\ m \in SearchRequests
                      \/ m.op = "other"   /\ m \in OtherRequests

ASSUME NoneAssumption == None \notin Conns /\ None \notin Requests

VARIABLES
  phase,           \* "start", "run", "deaf" (no listening socket), "stopped", "killed"
  sig,             \* a blocked SIGTERM or SIGINT is pending
  clients,         \* srv.clients
  active_clients,  \* srv.active_clients
  all_socks,       \* srv.all_socks
  max_socket,      \* srv.max_socket
  call_set,        \* descriptors of this pass that are still to be served
  sending,         \* the replies the current handler still has to send
  fdconn,          \* kernel: the connection behind each client descriptor
  conn,            \* kernel: "idle", "backlog", "accepted" or "done"
  inbox,           \* kernel: what the next recv on the connection returns
  gone,            \* "no", "fin" (peer closed) or "rst" (connection reset)
  outbox           \* replies sent and not yet read by the client

table == <<clients, active_clients, all_socks, max_socket>>
net   == <<conn, inbox, gone, outbox>>
vars  == <<phase, sig, clients, active_clients, all_socks, max_socket,
           call_set, sending, fdconn, conn, inbox, gone, outbox>>

Slots == 0 .. max_conn - 1

\* A SEARCH answer: id, address and port.  Ten zero bytes mean "not found".
NotFound == [id |-> 0, addr |-> None]
Replies  == [id : Ids, addr : Conns \cup {None}]

\* A client struct as calloc and the set-up loop leave it (type 0 is
\* CLIENT_UNKNOWN; CLIENT_REGISTERED is never assigned).
BlankClient == [active |-> FALSE, id |-> 0, type |-> "UNKNOWN", sock |-> 0,
                addr |-> None, files |-> <<>>]

Idle == [to |-> None, replies |-> <<>>]

Init ==
  /\ phase = "start"
  /\ sig = FALSE
  /\ clients = [i \in Slots |-> BlankClient]
  /\ active_clients = 0
  /\ all_socks = {}
  /\ max_socket = -1
  /\ call_set = {}
  /\ sending = Idle
  /\ fdconn = [fd \in Fds |-> None]
  /\ conn = [c \in Conns |-> "idle"]
  /\ inbox = [c \in Conns |-> None]
  /\ gone = [c \in Conns |-> "no"]
  /\ outbox = [c \in Conns |-> <<>>]

-----------------------------------------------------------------------------
(* Start-up: main up to the loop, with bind_and_listen.                    *)

Start ==
  /\ phase = "start"
  /\ phase' = "run"
  /\ all_socks' = {listen_sock}
  /\ max_socket' = listen_sock
  /\ UNCHANGED <<sig, clients, active_clients, call_set, sending, fdconn, net>>

\* An option, sigaction, fopen or calloc fails: main returns 1.  Or
\* bind_and_listen returns -1, which main does not check: FD_SET(-1) is
\* undefined, and either aborts or leaves a server that pselect asks about
\* descriptors below max_socket + 1 = 0, that is, none.
StartFails ==
  /\ phase = "start"
  /\ phase' \in {"stopped", "deaf", "killed"}
  /\ UNCHANGED <<sig, table, call_set, sending, fdconn, net>>

-----------------------------------------------------------------------------
(* The clients and the kernel.                                             *)

Connect(c) ==
  /\ phase = "run"
  /\ conn[c] = "idle"
  /\ conn' = [conn EXCEPT ![c] = "backlog"]
  /\ UNCHANGED <<phase, sig, table, call_set, sending, fdconn, inbox, gone, outbox>>

Deliver(c, m) ==
  /\ conn[c] \in {"backlog", "accepted"}
  /\ gone[c] = "no"
  /\ inbox[c] = None
  /\ inbox' = [inbox EXCEPT ![c] = m]
  /\ UNCHANGED <<phase, sig, table, call_set, sending, fdconn, conn, gone, outbox>>

\* The client closes its socket; what it sent before can still be read.
Close(c) ==
  /\ conn[c] \in {"backlog", "accepted"}
  /\ gone[c] = "no"
  /\ gone' = [gone EXCEPT ![c] = "fin"]
  /\ outbox' = [outbox EXCEPT ![c] = <<>>]
  /\ UNCHANGED <<phase, sig, table, call_set, sending, fdconn, conn, inbox>>

\* The connection is reset, by the client or in answer to a late send.
Reset(c) ==
  /\ conn[c] \in {"backlog", "accepted"}
  /\ gone[c] # "rst"
  /\ gone' = [gone EXCEPT ![c] = "rst"]
  /\ outbox' = [outbox EXCEPT ![c] = <<>>]
  /\ UNCHANGED <<phase, sig, table, call_set, sending, fdconn, conn, inbox>>

TakeReply(c) ==
  /\ outbox[c] # <<>>
  /\ outbox' = [outbox EXCEPT ![c] = Tail(@)]
  /\ UNCHANGED <<phase, sig, table, call_set, sending, fdconn, conn, inbox, gone>>

\* SIGTERM or SIGINT, blocked except while pselect waits.
Signal ==
  /\ phase \in {"run", "deaf"}
  /\ sig = FALSE
  /\ sig' = TRUE
  /\ UNCHANGED <<phase, table, call_set, sending, fdconn, net>>

-----------------------------------------------------------------------------
(* The main loop.                                                          *)

OpenFds == {fd \in Fds : fdconn[fd] # None}

Pending(c) == inbox[c] # None \/ gone[c] # "no"

Readable(s) ==
  IF s = listen_sock
    THEN \E c \in Conns : conn[c] = "backlog"
    ELSE s \in OpenFds /\ Pending(fdconn[s])

\* The thread is about to call pselect.
AtSelect == phase = "run" /\ sending = Idle /\ call_set = {}

\* pselect looks at the descriptors below max_socket + 1.
Asked == {s \in all_socks : s <= max_socket}

BadSocks == Asked \ (OpenFds \cup {listen_sock})

SelectReady_OnlyFirst_Mutant ==
  /\ AtSelect
  /\ BadSocks = {}
  /\ \E s \in Asked :
       /\ Readable(s) /\ \A t \in Asked : Readable(t) => s <= t
       /\ call_set' = {s}
  /\ UNCHANGED <<phase, sig, table, sending, fdconn, net>>

SelectReady_ClientsFirst_Mutant ==
  LET busy == {s \in Asked : Readable(s) /\ s # listen_sock}
  IN  /\ AtSelect
      /\ BadSocks = {}
      /\ \E s \in Asked : Readable(s)
      /\ call_set' = IF busy # {} THEN busy ELSE {listen_sock}
      /\ UNCHANGED <<phase, sig, table, sending, fdconn, net>>

SelectReady ==
  /\ AtSelect
  /\ BadSocks = {}
  /\ \E s \in Asked : Readable(s)
  /\ call_set' = {s \in Asked : Readable(s)}
  /\ UNCHANGED <<phase, sig, table, sending, fdconn, net>>

ClearClient_NoSock_Mutant(cl) ==
  [cl EXCEPT !.active = FALSE, !.id = 0, !.sock = -1, !.files = <<>>]
ClearClient_StaysActive_Mutant(cl) == [cl EXCEPT !.id = 0, !.sock = 0, !.files = <<>>]
ClearClient_KeepsId_Mutant(cl) == [cl EXCEPT !.active = FALSE, !.sock = 0, !.files = <<>>]
ClearClient_KeepsFiles_Mutant(cl) == [cl EXCEPT !.active = FALSE, !.id = 0, !.sock = 0]

\* clear_client does not touch type and addr.
ClearClient(cl) ==
  [cl EXCEPT !.active = FALSE, !.id = 0, !.sock = 0, !.files = <<>>]

\* Every descriptor is closed when the process ends.
CloseEverything ==
  /\ fdconn' = [fd \in Fds |-> None]
  /\ conn' = [c \in Conns |-> IF conn[c] = "idle" THEN "idle" ELSE "done"]
  /\ inbox' = [c \in Conns |-> None]
  /\ gone' = [c \in Conns |-> "no"]
  /\ call_set' = {}
  /\ sending' = Idle

\* main after the loop.
Shutdown ==
  /\ phase' = "stopped"
  /\ clients' = [i \in Slots |-> IF clients[i].active THEN ClearClient(clients[i])
                                                      ELSE clients[i]]
  /\ CloseEverything
  /\ UNCHANGED <<sig, active_clients, all_socks, max_socket, outbox>>

\* The process dies in the middle of a handler.
Die ==
  /\ phase' = "killed"
  /\ CloseEverything
  /\ UNCHANGED <<sig, table, outbox>>

SelectInterrupted_Retries_Mutant ==
  /\ AtSelect
  /\ \A s \in Asked : ~Readable(s)
  /\ sig
  /\ sig' = FALSE
  /\ UNCHANGED <<phase, table, call_set, sending, fdconn, net>>

\* pselect reports descriptors before signals: the signal is only taken
\* when nothing is readable.
SelectInterrupted ==
  /\ \/ phase = "deaf"
     \/ AtSelect /\ BadSocks = {} /\ \A s \in Asked : ~Readable(s)
  /\ sig
  /\ Shutdown

SelectError ==
  /\ AtSelect
  /\ BadSocks # {}
  /\ Shutdown

\* The for loop of main has reached descriptor s.
Dispatched(s) ==
  /\ phase = "run"
  /\ sending = Idle
  /\ s \in call_set
  /\ \A t \in call_set : s <= t

-----------------------------------------------------------------------------
(* server_accept                                                           *)

LowestFree(fd) ==
  /\ fd \notin OpenFds
  /\ \A g \in Fds \ OpenFds : fd <= g

FirstFreeSlot_Any_Mutant(i) == \A j \in Slots : i <= j

FirstFreeSlot(i) ==
  /\ ~clients[i].active
  /\ \A j \in Slots : ~clients[j].active => i <= j

AtLimit_OffByOne_Mutant == active_clients = max_conn

AtLimit == active_clients = max_conn - 1

NewMaxSocket_Last_Mutant(fd) == fd

NewMaxSocket(fd) == IF fd > max_socket THEN fd ELSE max_socket

AddClient_NoAddr_Mutant(fd, c) ==
  /\ all_socks' = all_socks \cup {fd}
  /\ max_socket' = NewMaxSocket(fd)
  /\ \E i \in Slots :
       /\ FirstFreeSlot(i)
       /\ clients' = [clients EXCEPT ![i] = [@ EXCEPT !.active = TRUE, !.sock = fd]]
       /\ active_clients' = active_clients + 1

\* The tail of server_accept: watch the descriptor and fill a free slot.
AddClient(fd, c) ==
  /\ all_socks' = all_socks \cup {fd}
  /\ max_socket' = NewMaxSocket(fd)
  /\ IF \A i \in Slots : clients[i].active
       THEN UNCHANGED <<clients, active_clients>>
       ELSE \E i \in Slots :
              /\ FirstFreeSlot(i)
              /\ clients' = [clients EXCEPT ![i] = [@ EXCEPT !.active = TRUE,
                                                            !.sock = fd,
                                                            !.addr = c]]
              /\ active_clients' = active_clients + 1

\* accept returns -1: the connection was aborted while it was queued, or the
\* process or the system is out of descriptors or memory, and the connection
\* stays queued, to be reported again.
AcceptFails(c) ==
  /\ Dispatched(listen_sock)
  /\ conn[c] = "backlog"
  /\ call_set' = call_set \ {listen_sock}
  /\ \/ /\ gone[c] = "rst"
        /\ conn' = [conn EXCEPT ![c] = "done"]
        /\ inbox' = [inbox EXCEPT ![c] = None]
        /\ gone' = [gone EXCEPT ![c] = "no"]
     \/ UNCHANGED <<conn, inbox, gone>>
  /\ UNCHANGED <<phase, sig, table, sending, fdconn, outbox>>

Accept(c) ==
  /\ Dispatched(listen_sock)
  /\ conn[c] = "backlog"
  /\ ~AtLimit
  /\ call_set' = call_set \ {listen_sock}
  /\ \E fd \in Fds :
       /\ LowestFree(fd)
       /\ fdconn' = [fdconn EXCEPT ![fd] = c]
       /\ AddClient(fd, c)
  /\ conn' = [conn EXCEPT ![c] = "accepted"]
  /\ UNCHANGED <<phase, sig, sending, inbox, gone, outbox>>

\* The limit is reached: the new descriptor is closed.  When close fails
\* server_accept returns; when it succeeds it falls through and the closed
\* descriptor is watched and given a slot.
AcceptOverLimit(c) ==
  /\ Dispatched(listen_sock)
  /\ conn[c] = "backlog"
  /\ AtLimit
  /\ call_set' = call_set \ {listen_sock}
  /\ \E fd \in Fds : LowestFree(fd) /\ (AddClient(fd, c) \/ UNCHANGED table)
  /\ conn' = [conn EXCEPT ![c] = "done"]
  /\ inbox' = [inbox EXCEPT ![c] = None]
  /\ gone' = [gone EXCEPT ![c] = "no"]
  /\ UNCHANGED <<phase, sig, sending, fdconn, outbox>>

-----------------------------------------------------------------------------
(* The request handlers.  i is the slot of the client, m the request.      *)

FirstActiveSlot(i) ==
  /\ clients[i].active
  /\ \A j \in Slots : clients[j].active => i <= j

\* Both branches of the loop break, so only the first active slot is looked
\* at, whoever it belongs to.
handle_join(i, m) ==
  /\ IF /\ m.len = 4
        /\ \E j \in Slots : FirstActiveSlot(j) /\ clients[j].id # m.id
       THEN clients' = [clients EXCEPT ![i] = [@ EXCEPT !.id = m.id, !.type = "JOINED"]]
       ELSE UNCHANGED clients
  /\ UNCHANGED <<phase, active_clients, all_socks, max_socket, sending, fdconn,
                 conn, gone, outbox>>

PublishAdmitted(i, m) ==
  /\ clients[i].type # "UNKNOWN"
  /\ m.len < PublishLimit
  /\ m.len >= 4
  /\ m.count <= max_files

\* A name that does not parse or cannot be allocated discards the whole
\* request and keeps the old list.
handle_publish(i, m) ==
  /\ \/ /\ PublishAdmitted(i, m)
        /\ m.count <= Len(m.strs)
        /\ clients' = [clients EXCEPT ![i] = [@ EXCEPT !.files = SubSeq(m.strs, 1, m.count)]]
     \/ /\ PublishAdmitted(i, m) => m.count > 0
        /\ UNCHANGED clients
  /\ UNCHANGED <<phase, active_clients, all_socks, max_socket, sending, fdconn,
                 conn, gone, outbox>>

\* The list of names itself could not be allocated, and the first name that
\* parses is stored through the null pointer.
PublishCrashes(i, m) ==
  /\ PublishAdmitted(i, m)
  /\ m.count > 0
  /\ m.strs # <<>>
  /\ Die

\* The comparison loop of search_client_files: it succeeds when the end of
\* the published name is reached without a difference.
NameMatches(file, find) ==
  /\ Len(file) <= Len(find)
  /\ \A k \in 1 .. Len(file) : file[k] = find[k]

FilesOf(i) == {clients[i].files[k] : k \in 1 .. Len(clients[i].files)}

\* A published name is stored without a terminator.  The scan ends at its
\* end only if the next byte in memory is zero, so a name that is not Padded
\* may or may not match.
MayMatch(i, find) ==
  clients[i].active /\ \E f \in FilesOf(i) : NameMatches(f, find)

MustMatch(i, find) ==
  clients[i].active /\ \E f \in FilesOf(i) : f \in Padded /\ NameMatches(f, find)

ReplyFor_FirstId_Mutant(i) ==
  [id |-> clients[CHOOSE j \in Slots : FirstActiveSlot(j)].id, addr |-> clients[i].addr]

ReplyFor(i) ==
  IF clients[i].addr \in V4
    THEN [id |-> clients[i].id, addr |-> clients[i].addr]
    ELSE NotFound

\* The answers the slot-by-slot search can come to.
SearchResults(find) ==
  {ReplyFor(i) : i \in {k \in Slots : /\ MayMatch(k, find)
                                      /\ \A j \in Slots : MustMatch(j, find) => k <= j}}
    \cup (IF \E j \in Slots : MustMatch(j, find) THEN {} ELSE {NotFound})

\* Without a NUL in the request the name runs on into the old contents of
\* the receive buffer.
SearchedFor(m) ==
  IF m.tail = "open" THEN {n \in Names : NameMatches(m.name, n)} ELSE {m.name}

ExtraReplies_PastEnd_Mutant(m) == [k \in 1 .. m.eightbit + 1 |-> NotFound]

\* Each byte >= 128, and a last byte that is not NUL, send a zero reply of
\* their own before the search goes on.
ExtraReplies(m) ==
  [k \in 1 .. m.eightbit + (IF m.tail = "clean" THEN 0 ELSE 1) |-> NotFound]

SearchAdmitted_Registered_Mutant(i, m) == clients[i].type = "REGISTERED" /\ m.len < SearchLimit

SearchAdmitted(i, m) == clients[i].type # "UNKNOWN" /\ m.len < SearchLimit

handle_search(i, m) ==
  /\ IF SearchAdmitted(i, m)
       THEN \E find \in SearchedFor(m) : \E r \in SearchResults(find) :
              sending' = [to |-> fdconn[clients[i].sock],
                          replies |-> Append(ExtraReplies(m), r)]
       ELSE UNCHANGED sending
  /\ UNCHANGED <<phase, table, fdconn, conn, gone, outbox>>

\* default: an opcode other than 0, 1 and 2 is logged.
UnknownCommand ==
  UNCHANGED <<phase, table, sending, fdconn, conn, gone, outbox>>

-----------------------------------------------------------------------------
(* handle_client                                                           *)

\* FD_CLR
Unwatched(s) == all_socks \ {s}

\* recv returns 0 or -1.
CloseClient(i, c) ==
  /\ inbox[c] = None
  /\ gone[c] # "no"
  /\ fdconn' = [fdconn EXCEPT ![clients[i].sock] = None]
  /\ all_socks' = Unwatched(clients[i].sock)
  /\ clients' = [clients EXCEPT ![i] = ClearClient(@)]
  /\ active_clients' = active_clients - 1
  /\ conn' = [conn EXCEPT ![c] = "done"]
  /\ gone' = [gone EXCEPT ![c] = "no"]
  /\ outbox' = [outbox EXCEPT ![c] = <<>>]
  /\ UNCHANGED <<phase, inbox, max_socket, sending>>

\* The slot main's loop finds for descriptor s.
Owns(i, s) ==
  /\ clients[i].active
  /\ clients[i].sock = s
  /\ \A j \in Slots : clients[j].active /\ clients[j].sock = s => i <= j

Received(s, i, c) ==
  /\ Owns(i, s)
  /\ fdconn[s] = c
  /\ call_set' = call_set \ {s}
  /\ UNCHANGED sig

TakesRequest(c) ==
  /\ inbox[c] # None
  /\ inbox' = [inbox EXCEPT ![c] = None]

Handle(i, m) ==
  \/ m.op = "join" /\ handle_join(i, m)
  \/ m.op = "publish" /\ handle_publish(i, m)
  \/ m.op = "search" /\ handle_search(i, m)
  \/ m.op = "other" /\ UnknownCommand

ClientRequest(s, i, c) ==
  /\ Received(s, i, c)
  /\ TakesRequest(c)
  /\ Handle(i, inbox[c])

ClientCrash(s, i, c) ==
  /\ Owns(i, s)
  /\ fdconn[s] = c
  /\ inbox[c] # None
  /\ inbox[c].op = "publish"
  /\ PublishCrashes(i, inbox[c])

ClientGone(s, i, c) ==
  /\ Received(s, i, c)
  /\ CloseClient(i, c)

\* main's lookup of the owner and handle_client.  A descriptor without owner
\* is logged and skipped.
handle_client(s) ==
  /\ Dispatched(s)
  /\ IF \E i \in Slots : Owns(i, s)
       THEN \E i \in Slots, c \in Conns : \/ ClientRequest(s, i, c)
                                         \/ ClientCrash(s, i, c)
                                         \/ ClientGone(s, i, c)
       ELSE /\ call_set' = call_set \ {s}
            /\ UNCHANGED <<phase, sig, table, sending, fdconn, net>>

-----------------------------------------------------------------------------
(* send_bytes, called by handle_search for each reply.  send blocks while  *)
(* the buffers are full; to a client that closed, the bytes are accepted   *)
(* and lost; on a reset connection it returns -1 or, as the signal is not  *)
(* suppressed, SIGPIPE ends the process.                                   *)

Busy == phase = "run" /\ sending.replies # <<>>

Sent == sending' = IF Len(sending.replies) = 1 THEN Idle
                   ELSE [sending EXCEPT !.replies = Tail(@)]

SendReply ==
  /\ Busy
  /\ gone[sending.to] = "no"
  /\ Len(outbox[sending.to]) < OutCap
  /\ outbox' = [outbox EXCEPT ![sending.to] = Append(@, Head(sending.replies))]
  /\ Sent
  /\ UNCHANGED <<phase, sig, table, call_set, fdconn, conn, inbox, gone>>

SendLost ==
  /\ Busy
  /\ gone[sending.to] = "fin"
  /\ Sent
  /\ UNCHANGED <<phase, sig, table, call_set, fdconn, net>>

SendFails ==
  /\ Busy
  /\ gone[sending.to] = "rst"
  /\ sending' = Idle
  /\ UNCHANGED <<phase, sig, table, call_set, fdconn, net>>

SendKills ==
  /\ Busy
  /\ gone[sending.to] = "rst"
  /\ Die

-----------------------------------------------------------------------------
server_accept == \E c \in Conns : AcceptFails(c) \/ Accept(c) \/ AcceptOverLimit(c)

Server ==
  \/ SelectReady
  \/ SelectInterrupted
  \/ SelectError
  \/ server_accept
  \/ \E s \in Fds : handle_client(s)
  \/ SendReply
  \/ SendLost
  \/ SendFails
  \/ SendKills

Environment ==
  \/ Signal
  \/ \E c \in Conns : \/ Connect(c)
                      \/ \E m \in Requests : Deliver(c, m)
                      \/ Close(c)
                      \/ Reset(c)
                      \/ TakeReply(c)

Ended == phase \in {"stopped", "killed"}

Finished == Ended /\ UNCHANGED vars

Next == Start \/ StartFails \/ Environment \/ Server \/ Finished

Spec == Init /\ [][Next]_vars

\* The registry's thread is never stopped by the kernel for good, and the
\* peers read every answer they are sent.
Fairness == WF_vars(Start \/ Server) /\ \A c \in Conns : WF_vars(TakeReply(c))

FairSpec == Spec /\ Fairness

-----------------------------------------------------------------------------
(* Properties                                                              *)

Clients == [active : BOOLEAN, id : Ids, type : {"UNKNOWN", "JOINED"},
            sock : Fds \cup {0}, addr : Conns \cup {None}, files : Seq(Names)]

\* The variables have the types of struct server, struct client and the
\* kernel objects behind them.
TypeOK ==
  /\ phase \in {"start", "run", "deaf", "stopped", "killed"}
  /\ sig \in BOOLEAN
  /\ clients \in [Slots -> Clients]
  /\ active_clients \in Int
  /\ all_socks \subseteq Fds \cup {listen_sock}
  /\ max_socket \in Fds \cup {-1, listen_sock}
  /\ call_set \subseteq Fds \cup {listen_sock}
  /\ sending \in [to : Conns \cup {None}, replies : Seq(Replies)]
  /\ fdconn \in [Fds -> Conns \cup {None}]
  /\ conn \in [Conns -> {"idle", "backlog", "accepted", "done"}]
  /\ inbox \in [Conns -> Requests \cup {None}]
  /\ gone \in [Conns -> {"no", "fin", "rst"}]
  /\ outbox \in [Conns -> Seq(Replies)]

ActiveSlots == {i \in Slots : clients[i].active}

\* "if we do not find the client from the list of known clients then there
\* is a logic bug somewhere": every descriptor still to be served in a pass,
\* other than the listening one, has an owner in the table and is open,
\* whatever the handlers served before it in the pass did.
DispatchFindsClient ==
  \A s \in call_set \ {listen_sock} :
    s \in OpenFds /\ \E i \in ActiveSlots : clients[i].sock = s

\* No descriptor leaks and no client takes another's place: while the server
\* runs, each open descriptor is the socket of exactly one active slot, and
\* the address stored there (the one SEARCH hands out) is its peer's.
DescriptorsAreOwned ==
  phase = "run" =>
    \A fd \in OpenFds : \E i \in ActiveSlots :
      /\ clients[i].sock = fd
      /\ clients[i].addr = fdconn[fd]
      /\ \A j \in ActiveSlots : clients[j].sock = fd => j = i

\* active_clients, kept by += 1 in server_accept and -= 1 in handle_client,
\* is the number of active slots (so the size_t never wraps below zero).
CountIsAccurate == ~Ended => active_clients = Cardinality(ActiveSlots)

\* The comparison with max_conn - 1 in server_accept bounds the connections
\* that are open at any time.
ConnectionsAreBounded == Cardinality(OpenFds) <= max_conn - 1

\* A freed slot carries no id, no socket and no file list over to the next
\* client that gets it.
FreedSlotsAreBlank ==
  \A i \in Slots \ ActiveSlots :
    clients[i].id = 0 /\ clients[i].sock = 0 /\ clients[i].files = <<>>

\* No client is forgotten by pselect: the socket of every active slot is in
\* all_socks and below the bound max_socket + 1 that pselect is given.
ClientsAreWatched ==
  phase = "run" =>
    \A i \in ActiveSlots : /\ clients[i].sock \in all_socks
                           /\ clients[i].sock <= max_socket

\* No starvation: what an accepted client sent is read, however busy the
\* clients on lower descriptors are and however often accept fails, unless the
\* server ends.
RequestsAreRead ==
  \A c \in Conns : conn[c] = "accepted" /\ inbox[c] # None ~> inbox[c] = None

\* The shortage of descriptors or memory ends: an accept that is tried again
\* and again succeeds.
AcceptRecovers == \A c \in Conns : SF_vars(Accept(c) \/ AcceptOverLimit(c))

\* A queued connection is accepted or refused, however busy the clients are,
\* unless the table has room for more than the process has descriptors.
ConnectionsAreTaken ==
  AcceptRecovers =>
    \A c \in Conns : conn[c] = "backlog" ~> conn[c] # "backlog" \/ Fds \subseteq OpenFds

\* A client that has left is eventually noticed and its slot given back.
DeparturesAreNoticed ==
  \A c \in Conns : conn[c] = "accepted" /\ gone[c] # "no" ~> gone[c] = "no"

\* After SIGTERM or SIGINT the server stops once the clients are silent; as
\* pselect prefers readable descriptors it need not stop before.
SignalStops == [](sig /\ [](\A s \in all_socks : ~Readable(s)) => <>Ended)

-----------------------------------------------------------------------------
(* The inductive invariant behind the properties above.                    *)

\* Two active slots never hold the same socket, and every socket is one of
\* the descriptors of clients.
SocketsAreDistinct ==
  phase = "run" =>
    /\ \A i \in ActiveSlots : clients[i].sock \in Fds /\ clients[i].sock <= max_socket
    /\ \A i, j \in ActiveSlots : clients[i].sock = clients[j].sock => i = j

\* all_socks is the listening socket and the sockets of the active slots.
WatchedSockets ==
  phase = "run" => all_socks = {listen_sock} \cup {clients[i].sock : i \in ActiveSlots}

\* Every open descriptor is recorded, with its peer's address.
OpenAreRecorded ==
  phase = "run" => \A fd \in OpenFds : \E i \in ActiveSlots :
                     clients[i].sock = fd /\ clients[i].addr = fdconn[fd]

AllOpen == \A i \in ActiveSlots : clients[i].sock \in OpenFds

\* The clients still to be served are open; and as long as the listening
\* socket is still to be served no slot holds a closed descriptor, because the
\* pass began with pselect accepting all of them.  Without a listening socket
\* there are no clients.
PassIsSound ==
  /\ call_set \ {listen_sock} \subseteq OpenFds
  /\ listen_sock \in call_set => AllOpen
  /\ phase # "run" => call_set = {} /\ OpenFds = {}
  /\ phase \in {"start", "deaf"} => ActiveSlots = {}

\* Only a closed descriptor can take the last slot of the table.
LastSlotIsSpare ==
  /\ active_clients \in 0 .. max_conn
  /\ phase = "run" /\ AllOpen => active_clients <= max_conn - 1

\* The state of the slot table, the descriptor sets and the kernel's
\* descriptor table that every step of the registry preserves: sockets are
\* distinct, watched and recorded, the pass only holds open descriptors, and
\* the count leaves a slot spare.
TableInvariant ==
  /\ SocketsAreDistinct
  /\ WatchedSockets
  /\ OpenAreRecorded
  /\ PassIsSound
  /\ CountIsAccurate
  /\ LastSlotIsSpare
  /\ FreedSlotsAreBlank

=============================================================================
