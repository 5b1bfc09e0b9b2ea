---------------------------- MODULE SelectServer ----------------------------
(***************************************************************************)
(* src/lab_10/server.c: one thread that prints what its clients send.  It  *)
(* waits in select, then walks the ready descriptors in ascending order;   *)
(* an accept or a close in the middle of the walk changes the set that the *)
(* next select is given, and the kernel hands freed descriptors out again. *)
(*                                                                         *)
(* The sockets are blocking, so one recv or accept on a descriptor that is *)
(* not ready would stop the server for everybody.                          *)
(*                                                                         *)
(* Definitions whose name ends in _Mutant are plausible mistakes in the    *)
(* definition that follows them; no specification uses them.               *)
(***************************************************************************)
EXTENDS Integers, FiniteSets

CONSTANTS
  listen_sock,  \* descriptor of the listening socket
  Fds,          \* the other descriptors the process may open
  Conns,        \* connections; each is made at most once
  UnreadCap,    \* bound: pieces of data that the kernel keeps for the server
  None

ASSUME ServerAssumption ==
  /\ listen_sock \in Nat
  /\ listen_sock >= 3
  /\ Fds \subseteq Nat
  /\ \A fd \in Fds : fd >= 3 /\ fd # listen_sock
  /\ UnreadCap \in Nat \ {0}
  /\ None \notin Conns

VARIABLES
  phase,        \* "start", "run", "deaf" (no listening socket) or "stopped"
  all_sockets,  \* the sockets of every select
  max_socket,
  call_set,     \* descriptors of this walk that are still to be looked at
  fdconn,       \* kernel: the connection behind each descriptor
  conn,         \* kernel: "idle", "backlog", "accepted" or "done"
  unread,       \* kernel: pieces of data that were not received yet
  gone          \* "no", "fin" (client closed) or "rst" (connection reset)

net  == <<conn, unread, gone>>
vars == <<phase, all_sockets, max_socket, call_set, fdconn, conn, unread, gone>>

Init ==
  /\ phase = "start"
  /\ all_sockets = {}
  /\ max_socket = -1
  /\ call_set = {}
  /\ fdconn = [fd \in Fds |-> None]
  /\ conn = [c \in Conns |-> "idle"]
  /\ unread = [c \in Conns |-> 0]
  /\ gone = [c \in Conns |-> "no"]

OpenFds == {fd \in Fds : fdconn[fd] # None}

\* select calls a descriptor ready when recv or accept on it would return.
Readable(s) ==
  IF s = listen_sock
    THEN \E c \in Conns : conn[c] = "backlog"
    ELSE s \in OpenFds /\ (unread[fdconn[s]] > 0 \/ gone[fdconn[s]] # "no")

-----------------------------------------------------------------------------
(* The clients.                                                            *)

Connect(c) ==
  /\ phase = "run"
  /\ conn[c] = "idle"
  /\ conn' = [conn EXCEPT ![c] = "backlog"]
  /\ UNCHANGED <<phase, all_sockets, max_socket, call_set, fdconn, unread, gone>>

Connected(c) == conn[c] \in {"backlog", "accepted"} /\ gone[c] = "no"

Send(c) ==
  /\ Connected(c)
  /\ unread[c] < UnreadCap
  /\ unread' = [unread EXCEPT ![c] = @ + 1]
  /\ UNCHANGED <<phase, all_sockets, max_socket, call_set, fdconn, conn, gone>>

\* The client closes or resets its connection.
Leave(c) ==
  /\ Connected(c)
  /\ \E how \in {"fin", "rst"} : gone' = [gone EXCEPT ![c] = how]
  /\ UNCHANGED <<phase, all_sockets, max_socket, call_set, fdconn, conn, unread>>

-----------------------------------------------------------------------------
(* main                                                                    *)

Start ==
  /\ phase = "start"
  /\ phase' = "run"
  /\ all_sockets' = {listen_sock}
  /\ max_socket' = listen_sock
  /\ UNCHANGED <<call_set, fdconn, net>>

\* bind_and_listen returns -1, which main does not check: FD_SET(-1) is
\* undefined and aborts, or leaves a server that waits for no descriptor.
StartFails ==
  /\ phase = "start"
  /\ phase' \in {"deaf", "stopped"}
  /\ UNCHANGED <<all_sockets, max_socket, call_set, fdconn, net>>

Select_OnlyFirst_Mutant ==
  LET ready == {s \in all_sockets : s <= max_socket /\ Readable(s)}
  IN  /\ phase = "run"
      /\ call_set = {}
      /\ \E s \in ready : (\A t \in ready : s <= t) /\ call_set' = {s}
      /\ UNCHANGED <<phase, all_sockets, max_socket, fdconn, net>>

\* select looks at the descriptors up to max_socket.  A closed one makes it
\* fail, and main returns.
Select ==
  LET asked == {s \in all_sockets : s <= max_socket}
      ready == {s \in asked : Readable(s)}
  IN  /\ phase = "run"
      /\ call_set = {}
      /\ IF asked \subseteq OpenFds \cup {listen_sock}
           THEN /\ ready # {}
                /\ call_set' = ready
                /\ UNCHANGED phase
           ELSE phase' = "stopped" /\ UNCHANGED call_set
      /\ UNCHANGED <<all_sockets, max_socket, fdconn, net>>

\* The for loop has reached s.
Reached(s) ==
  /\ phase = "run"
  /\ s \in call_set
  /\ \A t \in call_set : s <= t
  /\ call_set' = call_set \ {s}

NewMax_Last_Mutant(fd) == fd

NewMax(fd) == IF fd > max_socket THEN fd ELSE max_socket

Accept_IntoPass_Mutant(c) ==
  /\ phase = "run"
  /\ listen_sock \in call_set
  /\ \A t \in call_set : listen_sock <= t
  /\ conn[c] = "backlog"
  /\ \E fd \in Fds \ OpenFds :
       /\ \A g \in Fds \ OpenFds : fd <= g
       /\ fdconn' = [fdconn EXCEPT ![fd] = c]
       /\ all_sockets' = all_sockets \cup {fd}
       /\ call_set' = (call_set \ {listen_sock}) \cup {fd}
       /\ max_socket' = NewMax(fd)
  /\ conn' = [conn EXCEPT ![c] = "accepted"]
  /\ UNCHANGED <<phase, unread, gone>>

\* accept returns the lowest free descriptor, which may be one that was
\* closed earlier in the same walk.
Accept(c) ==
  /\ Reached(listen_sock)
  /\ conn[c] = "backlog"
  /\ \E fd \in Fds \ OpenFds :
       /\ \A g \in Fds \ OpenFds : fd <= g
       /\ fdconn' = [fdconn EXCEPT ![fd] = c]
       /\ all_sockets' = all_sockets \cup {fd}
       /\ max_socket' = NewMax(fd)
  /\ conn' = [conn EXCEPT ![c] = "accepted"]
  /\ UNCHANGED <<phase, unread, gone>>

\* No descriptor is left (the connection stays queued), or the connection was
\* reset while it was queued: accept returns -1 and the loop goes on.
AcceptFails ==
  /\ Reached(listen_sock)
  /\ \/ Fds \subseteq OpenFds /\ UNCHANGED net
     \/ \E c \in Conns :
          /\ conn[c] = "backlog"
          /\ gone[c] = "rst"
          /\ conn' = [conn EXCEPT ![c] = "done"]
          /\ unread' = [unread EXCEPT ![c] = 0]
          /\ gone' = [gone EXCEPT ![c] = "no"]
  /\ UNCHANGED <<phase, all_sockets, max_socket, fdconn>>

Receive_Twice_Mutant(s) ==
  /\ s \in OpenFds
  /\ Reached(s)
  /\ unread[fdconn[s]] > 0
  /\ unread' = [unread EXCEPT ![fdconn[s]] = @ - 2]
  /\ UNCHANGED <<phase, all_sockets, max_socket, fdconn, conn, gone>>

\* recv returns some of what has arrived.
Receive(s) ==
  /\ s \in OpenFds
  /\ Reached(s)
  /\ unread[fdconn[s]] > 0
  /\ \E k \in 0 .. unread[fdconn[s]] - 1 : unread' = [unread EXCEPT ![fdconn[s]] = k]
  /\ UNCHANGED <<phase, all_sockets, max_socket, fdconn, conn, gone>>

\* FD_CLR
Unwatched(s) == all_sockets \ {s}

\* recv returns 0, or -1 after a reset.
CloseClient(s) ==
  /\ s \in OpenFds
  /\ Reached(s)
  /\ unread[fdconn[s]] = 0
  /\ gone[fdconn[s]] # "no"
  /\ fdconn' = [fdconn EXCEPT ![s] = None]
  /\ all_sockets' = Unwatched(s)
  /\ conn' = [conn EXCEPT ![fdconn[s]] = "done"]
  /\ gone' = [gone EXCEPT ![fdconn[s]] = "no"]
  /\ UNCHANGED <<phase, max_socket, unread>>

-----------------------------------------------------------------------------
Server ==
  \/ Start
  \/ Select
  \/ \E c \in Conns : Accept(c)
  \/ AcceptFails
  \/ \E s \in Fds : Receive(s) \/ CloseClient(s)

\* The process has ended, waits for no descriptor, or waits in select when no
\* client is left.
Quiet ==
  /\ phase \in {"deaf", "stopped"} \/ \A c \in Conns : conn[c] = "done"
  /\ UNCHANGED vars

Next ==
  \/ Server
  \/ StartFails
  \/ \E c \in Conns : Connect(c) \/ Send(c) \/ Leave(c)
  \/ Quiet

Spec == Init /\ [][Next]_vars

\* The server's thread keeps running; the clients need not do anything.
FairSpec == Spec /\ WF_vars(Server)

-----------------------------------------------------------------------------
(* Properties                                                              *)

\* The variables have the types of main's locals and of the kernel's objects.
TypeOK ==
  /\ phase \in {"start", "run", "deaf", "stopped"}
  /\ all_sockets \subseteq Fds \cup {listen_sock}
  /\ max_socket \in Fds \cup {-1, listen_sock}
  /\ call_set \subseteq Fds \cup {listen_sock}
  /\ fdconn \in [Fds -> Conns \cup {None}]
  /\ conn \in [Conns -> {"idle", "backlog", "accepted", "done"}]
  /\ unread \in [Conns -> Nat]
  /\ gone \in [Conns -> {"no", "fin", "rst"}]

\* The comment of main at :31: "Any socket connected to the server should be
\* included in the set. A socket that disconnects should be removed from the
\* set. The server's main socket should always remain in the set".  And the
\* bound that select is given is never below any of them.  So select never
\* fails on a closed descriptor and never overlooks a client.  It is a bound
\* only: max_socket never decreases, so it is not "the socket fd with the
\* largest value" of :47 any more once that one is closed.
WatchedAreOpen ==
  phase = "run" => /\ all_sockets = OpenFds \cup {listen_sock}
                   /\ \A s \in all_sockets : s <= max_socket

\* The thread never blocks outside select: what select found ready is still
\* ready when the walk gets there, whatever was accepted, closed and opened
\* again under the same number on the way, and wherever the listening
\* descriptor lies among the others.
ReadyIsStillReady == \A s \in call_set : Readable(s)

\* A client that left is noticed and its descriptor given back.
ClosedAreNoticed ==
  \A c \in Conns : conn[c] = "accepted" /\ gone[c] # "no" ~> conn[c] = "done"

\* A queued connection is accepted, unless the process is out of descriptors.
QueuedAreTaken ==
  \A c \in Conns : conn[c] = "backlog" ~> conn[c] # "backlog" \/ Fds \subseteq OpenFds

\* The inductive invariant behind the two safety properties: in addition, no
\* connection is behind two descriptors and an accepted one has a descriptor,
\* so that no client is lost or read in another's name.
ServerInvariant ==
  /\ WatchedAreOpen
  /\ ReadyIsStillReady
  /\ call_set # {} => phase = "run"
  /\ phase = "start" => OpenFds = {}
  /\ \A fd, g \in OpenFds : fdconn[fd] = fdconn[g] => fd = g
  /\ \A c \in Conns : conn[c] = "accepted" <=> \E fd \in OpenFds : fdconn[fd] = c

=============================================================================
