------------------------- MODULE RegistryDirectory -------------------------
(* The registry implements the Directory: the refinement mapping. *)
EXTENDS Registry

online == {fdconn[fd] : fd \in OpenFds}

\* The slots of the connections that are online.
SlotsOf(c) == {i \in Slots : /\ clients[i].active
                             /\ clients[i].sock \in OpenFds
                             /\ fdconn[clients[i].sock] = c}

ident  == [c \in Conns |-> IF c \in online
                             THEN clients[CHOOSE i \in SlotsOf(c) : TRUE].id ELSE 0]
shared == [c \in Conns |-> UNION {FilesOf(i) : i \in SlotsOf(c)}]
due    == [c \in Conns |-> IF sending.to = c THEN sending.replies ELSE <<>>]

\* The names of each PUBLISH that parses to the end and is not too long.
WholeLists ==
  {{m.strs[k] : k \in 1 .. m.count} :
     m \in {r \in Requests : /\ r.op = "publish"
                             /\ r.count <= Len(r.strs) /\ r.count <= max_files}}

D == INSTANCE Directory WITH
       Sure <- Padded, Lists <- WholeLists, Capacity <- max_conn - 1,
       Misses <- {Len(ExtraReplies(m)) : m \in {r \in Requests : r.op = "search"}}

\* The slot table, the descriptor passes and the reuse of both are invisible
\* to clients: every step of the registry is a step of the Directory or
\* changes nothing in it.  In particular a client that gets the slot or the
\* descriptor of an earlier one inherits no id and no files from it, and every
\* SEARCH answer names a client that is connected when the answer is decided.
ImplementsDirectory == D!DSpec

-----------------------------------------------------------------------------
(* What the mapping needs beyond TableInvariant.                           *)

\* Each connection that is online was accepted, on one descriptor.
AcceptedOnce ==
  /\ \A fd \in OpenFds : conn[fdconn[fd]] = "accepted"
  /\ \A f, g \in OpenFds : fdconn[f] = fdconn[g] => f = g

\* The slot given to a descriptor that was closed at the limit shares no
\* names, so no search can find it.
ClosedSlotsShareNothing ==
  phase = "run" => \A i \in ActiveSlots : clients[i].sock \in OpenFds \/ clients[i].files = <<>>

\* Answers are owed to a connection.
AnswersHaveOwner == sending.replies # <<>> => sending.to \in Conns

DirectoryInvariant == AcceptedOnce /\ ClosedSlotsShareNothing /\ AnswersHaveOwner

=============================================================================
