------------------------- MODULE SelectServerProofs -------------------------
(* Theorems about SelectServer, for any number of clients and descriptors  *)
(* and any place of the listening descriptor among them.                   *)
EXTENDS SelectServer, TLAPS

\* Every action keeps the types.
LEMMA StepTyped == ASSUME TypeOK, [Next]_vars PROVE TypeOK'
<1> USE ServerAssumption DEF TypeOK, OpenFds
<1>1. CASE Start
  BY <1>1 DEF Start, net
<1>2. CASE StartFails
  BY <1>2 DEF StartFails, net
<1>3. CASE Select
  BY <1>3 DEF Select, net
<1>4. ASSUME NEW c \in Conns, Accept(c) PROVE TypeOK'
  BY <1>4 DEF Accept, Reached, NewMax
<1>5. CASE AcceptFails
  BY <1>5 DEF AcceptFails, Reached, net
<1>6. ASSUME NEW s \in Fds, Receive(s) PROVE TypeOK'
  BY <1>6 DEF Receive, Reached
<1>7. ASSUME NEW s \in Fds, CloseClient(s) PROVE TypeOK'
  BY <1>7 DEF CloseClient, Reached, Unwatched
<1>8. ASSUME NEW c \in Conns, Connect(c) PROVE TypeOK'
  BY <1>8 DEF Connect
<1>9. ASSUME NEW c \in Conns, Send(c) PROVE TypeOK'
  <2>1. unread[c] + 1 \in Nat
    BY DEF TypeOK
  <2> QED
    BY <1>9, <2>1 DEF Send, Connected
<1>10. ASSUME NEW c \in Conns, Leave(c) PROVE TypeOK'
  BY <1>10 DEF Leave, Connected
<1>11. CASE UNCHANGED vars
  BY <1>11 DEF vars
<1> QED
  BY <1>1, <1>2, <1>3, <1>4, <1>5, <1>6, <1>7, <1>8, <1>9, <1>10, <1>11 DEF Next, Server, Quiet

\* main's locals and the kernel's objects keep their types, whatever the
\* clients of server.c do.
THEOREM TypeCorrect == Spec => []TypeOK
<1>1. Init => TypeOK
  BY ServerAssumption DEF Init, TypeOK
<1> QED
  BY <1>1, StepTyped, PTL DEF Spec

-----------------------------------------------------------------------------
(* The invariant.                                                          *)

\* The parts of the invariant that only concern the kernel's two tables.
Agree ==
  /\ \A fd, g \in OpenFds : fdconn[fd] = fdconn[g] => fd = g
  /\ \A c \in Conns : conn[c] = "accepted" <=> \E fd \in OpenFds : fdconn[fd] = c

LEMMA AcceptKeeps ==
  ASSUME TypeOK, ServerInvariant, NEW c \in Conns, Accept(c)
  PROVE  ServerInvariant'
<1> USE ServerAssumption
<1>1. PICK fd \in Fds \ OpenFds :
        /\ fdconn' = [fdconn EXCEPT ![fd] = c]
        /\ all_sockets' = all_sockets \cup {fd}
        /\ max_socket' = NewMax(fd)
  BY DEF Accept
<1>2. OpenFds' = OpenFds \cup {fd}
  BY <1>1 DEF OpenFds, TypeOK
<1>3. WatchedAreOpen'
  BY <1>1, <1>2 DEF WatchedAreOpen, ServerInvariant, Accept, Reached, NewMax, TypeOK
<1>4. \A g \in OpenFds : fdconn'[g] = fdconn[g] /\ fdconn[g] # c /\ fdconn[g] \in Conns
  BY <1>1 DEF ServerInvariant, Accept, OpenFds, TypeOK
<1>5. ReadyIsStillReady'
  <2> SUFFICES ASSUME NEW s \in call_set' PROVE Readable(s)'
    BY DEF ReadyIsStillReady
  <2>1. s \in call_set /\ s # listen_sock
    BY DEF Accept, Reached
  <2>2. s \in OpenFds /\ (unread[fdconn[s]] > 0 \/ gone[fdconn[s]] # "no")
    BY <2>1 DEF ServerInvariant, ReadyIsStillReady, Readable
  <2>3. s \in OpenFds' /\ fdconn'[s] = fdconn[s]
    BY <1>2, <1>4, <2>2
  <2> QED
    BY <2>1, <2>2, <2>3 DEF Readable, Accept
<1>6. Agree'
  <2>1. fdconn'[fd] = c
    BY <1>1 DEF TypeOK
  <2>2. conn'[c] = "accepted" /\ \A d \in Conns \ {c} : conn'[d] = conn[d]
    BY DEF Accept, TypeOK
  <2> QED
    BY <1>2, <1>4, <2>1, <2>2 DEF Agree, ServerInvariant
<1>7. phase' = "run"
  BY DEF Accept, Reached
<1> QED
  BY <1>3, <1>5, <1>6, <1>7 DEF ServerInvariant, Agree

LEMMA CloseKeeps ==
  ASSUME TypeOK, ServerInvariant, NEW s \in Fds, CloseClient(s)
  PROVE  ServerInvariant'
<1> USE ServerAssumption
<1>1. OpenFds' = OpenFds \ {s}
  BY DEF CloseClient, OpenFds, TypeOK
<1>2. \A g \in OpenFds' : fdconn'[g] = fdconn[g] /\ fdconn[g] # fdconn[s]
  BY <1>1 DEF CloseClient, TypeOK, OpenFds, ServerInvariant
<1>3. WatchedAreOpen'
  BY <1>1 DEF WatchedAreOpen, ServerInvariant, CloseClient, Reached, Unwatched
<1>4. \A c \in Conns \ {fdconn[s]} : gone'[c] = gone[c] /\ conn'[c] = conn[c]
  BY DEF CloseClient, TypeOK
<1>5. ReadyIsStillReady'
  <2> SUFFICES ASSUME NEW t \in call_set' PROVE Readable(t)'
    BY DEF ReadyIsStillReady
  <2>1. t \in call_set /\ t # s /\ Readable(t)
    BY DEF CloseClient, Reached, ServerInvariant, ReadyIsStillReady
  <2>2. CASE t = listen_sock
    <3>1. PICK c \in Conns : conn[c] = "backlog"
      BY <2>1, <2>2 DEF Readable
    <3>2. conn[fdconn[s]] = "accepted"
      BY DEF CloseClient, ServerInvariant, OpenFds, TypeOK
    <3>3. conn'[c] = "backlog"
      BY <1>4, <3>1, <3>2
    <3> QED
      BY <2>2, <3>3 DEF Readable
  <2>3. CASE t # listen_sock
    <3>1. t \in OpenFds' /\ fdconn'[t] = fdconn[t] /\ fdconn[t] # fdconn[s]
      BY <1>1, <1>2, <2>1, <2>3 DEF Readable
    <3>2. fdconn[t] \in Conns
      BY <2>1, <2>3 DEF Readable, OpenFds, TypeOK
    <3> QED
      BY <1>4, <2>1, <2>3, <3>1, <3>2 DEF Readable, CloseClient
  <2> QED
    BY <2>2, <2>3
<1>6. Agree'
  <2>1. fdconn[s] \in Conns /\ conn'[fdconn[s]] = "done"
    BY DEF CloseClient, OpenFds, TypeOK
  <2> QED
    BY <1>1, <1>2, <1>4, <2>1 DEF Agree, ServerInvariant
<1>7. phase' = "run"
  BY DEF CloseClient, Reached
<1> QED
  BY <1>3, <1>5, <1>6, <1>7 DEF ServerInvariant, Agree

LEMMA ReceiveKeeps ==
  ASSUME TypeOK, ServerInvariant, NEW s \in Fds, Receive(s)
  PROVE  ServerInvariant'
<1>1. OpenFds' = OpenFds /\ fdconn' = fdconn /\ conn' = conn /\ gone' = gone
  BY DEF Receive, OpenFds
<1>2. ReadyIsStillReady'
  <2> SUFFICES ASSUME NEW t \in call_set' PROVE Readable(t)'
    BY DEF ReadyIsStillReady
  <2>1. t \in call_set /\ t # s /\ Readable(t)
    BY DEF Receive, Reached, ServerInvariant, ReadyIsStillReady
  <2>2. CASE t = listen_sock
    BY <1>1, <2>1, <2>2 DEF Readable
  <2>3. CASE t # listen_sock
    <3>1. t \in OpenFds /\ fdconn[t] \in Conns /\ fdconn[t] # fdconn[s]
      BY <2>1, <2>3 DEF Readable, OpenFds, TypeOK, Receive, ServerInvariant
    <3>2. unread'[fdconn[t]] = unread[fdconn[t]]
      BY <3>1 DEF Receive, TypeOK
    <3> QED
      BY <1>1, <2>1, <2>3, <3>1, <3>2 DEF Readable
  <2> QED
    BY <2>2, <2>3
<1>3. WatchedAreOpen' /\ phase' = "run"
  BY <1>1 DEF WatchedAreOpen, ServerInvariant, Receive, Reached
<1> QED
  BY <1>1, <1>2, <1>3 DEF ServerInvariant

LEMMA AcceptFailsKeeps ==
  ASSUME TypeOK, ServerInvariant, AcceptFails
  PROVE  ServerInvariant'
<1>1. OpenFds' = OpenFds /\ fdconn' = fdconn /\ phase' = "run"
  BY DEF AcceptFails, Reached, OpenFds
<1>2. \A c \in Conns : conn[c] = "accepted" =>
        conn'[c] = "accepted" /\ unread'[c] = unread[c] /\ gone'[c] = gone[c]
  BY DEF AcceptFails, TypeOK, net
<1>3. \A c \in Conns : conn'[c] = "accepted" => conn[c] = "accepted"
  BY DEF AcceptFails, TypeOK, net
<1>4. ReadyIsStillReady'
  <2> SUFFICES ASSUME NEW t \in call_set' PROVE Readable(t)'
    BY DEF ReadyIsStillReady
  <2>1. t # listen_sock /\ t \in OpenFds /\ Readable(t)
    BY DEF AcceptFails, Reached, ServerInvariant, ReadyIsStillReady, Readable
  <2>2. fdconn[t] \in Conns /\ conn[fdconn[t]] = "accepted"
    BY <2>1 DEF OpenFds, TypeOK, ServerInvariant
  <2> QED
    BY <1>1, <1>2, <2>1, <2>2 DEF Readable
<1>5. WatchedAreOpen'
  BY <1>1 DEF WatchedAreOpen, ServerInvariant, AcceptFails, Reached
<1> QED
  BY <1>1, <1>2, <1>3, <1>4, <1>5 DEF ServerInvariant

\* What the clients do makes no ready descriptor unready.
LEMMA ClientsKeep ==
  ASSUME TypeOK, ServerInvariant, NEW c \in Conns, Connect(c) \/ Send(c) \/ Leave(c)
  PROVE  ServerInvariant'
<1>1. OpenFds' = OpenFds /\ fdconn' = fdconn /\ call_set' = call_set /\ phase' = phase
      /\ all_sockets' = all_sockets /\ max_socket' = max_socket
  BY DEF Connect, Send, Leave, OpenFds
<1>2. \A d \in Conns : /\ conn[d] = "backlog" => conn'[d] = "backlog"
                       /\ conn[d] = "accepted" <=> conn'[d] = "accepted"
                       /\ unread[d] > 0 => unread'[d] > 0
                       /\ gone[d] # "no" => gone'[d] # "no"
  BY DEF Connect, Send, Leave, Connected, TypeOK
<1>3. \A s \in call_set : Readable(s) => Readable(s)'
  BY <1>1, <1>2 DEF Readable, OpenFds, TypeOK
<1> QED
  BY <1>1, <1>2, <1>3 DEF ServerInvariant, ReadyIsStillReady, WatchedAreOpen

LEMMA StepKeeps == ASSUME TypeOK, ServerInvariant, [Next]_vars PROVE ServerInvariant'
<1>1. CASE Start
  <2>1. OpenFds' = OpenFds /\ call_set = {} /\ call_set' = {}
    BY <1>1 DEF Start, OpenFds, ServerInvariant
  <2>2. OpenFds = {}
    BY <1>1 DEF Start, ServerInvariant, OpenFds
  <2> QED
    BY <1>1, <2>1, <2>2, ServerAssumption DEF Start, ServerInvariant, WatchedAreOpen,
       ReadyIsStillReady, net
<1>2. CASE StartFails
  BY <1>2 DEF StartFails, ServerInvariant, WatchedAreOpen, ReadyIsStillReady, OpenFds, net
<1>3. CASE Select
  <2>1. OpenFds' = OpenFds /\ \A s : Readable(s)' = Readable(s)
    BY <1>3 DEF Select, net, OpenFds, Readable
  <2>2. ReadyIsStillReady' /\ (call_set' # {} => phase' = "run")
    BY <1>3, <2>1 DEF Select, ReadyIsStillReady, ServerInvariant
  <2>3. WatchedAreOpen'
    BY <1>3, <2>1 DEF Select, WatchedAreOpen, ServerInvariant
  <2> QED
    BY <1>3, <2>1, <2>2, <2>3 DEF Select, ServerInvariant, net
<1>4. CASE UNCHANGED vars
  BY <1>4 DEF vars, ServerInvariant, WatchedAreOpen, ReadyIsStillReady, OpenFds, Readable
<1> QED
  BY <1>1, <1>2, <1>3, <1>4, AcceptKeeps, AcceptFailsKeeps, ReceiveKeeps, CloseKeeps, ClientsKeep
  DEF Next, Server, Quiet

\* The invariant of the watched set, the walk and the kernel's tables holds
\* in every reachable state of server.c.
THEOREM ServerConsistent == Spec => []ServerInvariant
<1>1. Init => ServerInvariant
  BY DEF Init, ServerInvariant, WatchedAreOpen, ReadyIsStillReady, OpenFds
<1> QED
  BY <1>1, StepKeeps, TypeCorrect, PTL DEF Spec

\* all_sockets holds the open descriptors and the listening one, as its comment
\* says, and max_socket is an upper bound of it: every client that is open is
\* asked about in every select, and no closed one is.
THEOREM SelectAsksAboutAllAndOnlyOpen == Spec => []WatchedAreOpen
<1>1. ServerInvariant => WatchedAreOpen
  BY DEF ServerInvariant
<1> QED
  BY <1>1, ServerConsistent, PTL

\* No recv and no accept of the walk ever blocks the only thread.
THEOREM NeverBlocksInTheWalk == Spec => []ReadyIsStillReady
<1>1. ServerInvariant => ReadyIsStillReady
  BY DEF ServerInvariant
<1> QED
  BY <1>1, ServerConsistent, PTL

=============================================================================
