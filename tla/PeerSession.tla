---------------------------- MODULE PeerSession ----------------------------
(***************************************************************************)
(* The peers of src/program_03/src (main.rs and the modules it calls)      *)
(* talking to the registry of module Registry, whose variables, handlers   *)
(* and kernel objects are used as they are.                                *)
(*                                                                         *)
(* A peer is one process with one connection.  JOIN, REGISTER and PUBLISH  *)
(* are sent without waiting for an answer, so several of them, and a       *)
(* SEARCH behind them, may be on the way at once, and the registry takes   *)
(* whatever one recv returns for one request.                              *)
(*                                                                         *)
(* The transfer that follows the search of a FETCH, and the listener       *)
(* thread that REGISTER starts, are the subject of module FileTransfer.    *)
(*                                                                         *)
(* Definitions whose name ends in _Mutant are plausible mistakes in the    *)
(* definition that follows them; no specification uses them.               *)
(***************************************************************************)
EXTENDS Registry

CONSTANTS
  peer_id,      \* peer_id[p]: the id given on the command line
  shared_dir,   \* shared_dir[p]: the ASCII names of regular files, as read_dir lists them
  PublishCap,   \* size of the PUBLISH buffer (1200)
  commands,     \* commands[p]: the commands that the user of p may type
  wanted,       \* wanted[p]: the names the user of p may search for or fetch
  MaxTyped,     \* bound: MaxTyped[p] commands are typed at p before EXIT
  UpCap         \* bound: requests of one peer that may be on the way

ASSUME PeersAssumption ==
  /\ peer_id \in [Conns -> Ids]
  /\ shared_dir \in [Conns -> Seq(Names)]
  /\ PublishCap \in Nat
  /\ PublishCap >= 5
  /\ commands \in [Conns -> SUBSET {"join", "register", "publish"}]
  /\ wanted \in [Conns -> SUBSET Names]
  /\ MaxTyped \in [Conns -> Nat]
  /\ UpCap \in Nat \ {0}

VARIABLES
  typed,            \* number of commands typed so far
  pc,               \* "start", "prompt", "wait" (read_exact), "fetch", "exit" or "done"
  joined_registry,
  up,               \* requests sent and not yet delivered
  asked,            \* the name that the peer is waiting for, or None
  swallowed         \* history: the SEARCH arrived behind another request in one recv

peerVars    == <<typed, pc, joined_registry, up, asked, swallowed>>
sessionVars == <<vars, peerVars>>

SessionInit ==
  /\ Init
  /\ typed = [p \in Conns |-> 0]
  /\ pc = [p \in Conns |-> "start"]
  /\ joined_registry = [p \in Conns |-> FALSE]
  /\ up = [p \in Conns |-> <<>>]
  /\ asked = [p \in Conns |-> None]
  /\ swallowed = [p \in Conns |-> FALSE]

-----------------------------------------------------------------------------
(* The requests.                                                           *)

join_request(p) == [op |-> "join", len |-> 4, id |-> peer_id[p]]

\* The registry has no case for opcode 4.
register_request == [op |-> "other"]

\* Bytes that the first k names of a listing take, opcode and count included.
Encoded(files, k) ==
  LET size[n \in 0 .. Len(files)] ==
        IF n = 0 THEN 5 ELSE size[n - 1] + Len(files[n]) + 1
  IN  size[k]

\* The names are taken in order up to the first that does not fit.
Fitting(files) ==
  SubSeq(files, 1, CHOOSE k \in 0 .. Len(files) :
                     /\ Encoded(files, k) <= PublishCap
                     /\ k < Len(files) => Encoded(files, k + 1) > PublishCap)

publish_request(p) ==
  LET files == Fitting(shared_dir[p])
  IN  [op |-> "publish", len |-> Encoded(files, Len(files)) - 1,
       count |-> Len(files), strs |-> files]

search_request(n) ==
  [op |-> "search", len |-> Len(n) + 1, name |-> n, eightbit |-> 0, tail |-> "clean"]

\* Bytes of a request, opcode included; REGISTER has eleven.
RequestSize(m) == IF m.op = "other" THEN 11 ELSE m.len + 1

\* What recv returns when several requests have arrived: the first, with the
\* bytes of the others behind it.
Coalesced(ms) ==
  LET behind[n \in 1 .. Len(ms)] ==
        IF n = 1 THEN 0 ELSE behind[n - 1] + RequestSize(ms[n])
      m == Head(ms)
  IN  IF m.op = "other" THEN m ELSE [m EXCEPT !.len = @ + behind[Len(ms)]]

\* The requests that a peer can send.
PeerRequests(p) ==
  {join_request(p), register_request, publish_request(p)} \cup {search_request(n) : n \in Names}

\* What one recv of the registry can return includes them, run together.
ASSUME SentAssumption ==
  \A p \in Conns : \A k \in 1 .. UpCap :
    \A ms \in [1 .. k -> PeerRequests(p)] : Coalesced(ms) \in Requests

-----------------------------------------------------------------------------
(* The connection.                                                         *)

\* The registry's end is closed, or the connection was reset.
Dead(p) == conn[p] = "done" \/ gone[p] = "rst"

\* write_all.  On a dead connection the bytes are lost, or it fails.
Write(p, m) ==
  IF Dead(p)
    THEN up' = [up EXCEPT ![p] = <<>>]
    ELSE /\ Len(up[p]) < UpCap
         /\ up' = [up EXCEPT ![p] = Append(@, m)]

Written(p) == {TRUE} \cup (IF Dead(p) THEN {FALSE} ELSE {})

\* TCP hands over one or more requests at once, and one recv takes them all:
\* its limit of 2048 bytes is not modelled, nor is a request that TCP splits.
Arrive(p) ==
  /\ \E k \in 1 .. Len(up[p]) :
       /\ Deliver(p, Coalesced(SubSeq(up[p], 1, k)))
       /\ up' = [up EXCEPT ![p] = SubSeq(@, k + 1, Len(@))]
       /\ swallowed' = [swallowed EXCEPT ![p] = k > 1 /\ up[p][k].op = "search"]
  /\ UNCHANGED <<typed, pc, joined_registry, asked>>

\* The connection breaks; what was on the way is lost.
Breaks(p) ==
  /\ Reset(p)
  /\ up' = [up EXCEPT ![p] = <<>>]
  /\ UNCHANGED <<typed, pc, joined_registry, asked, swallowed>>

-----------------------------------------------------------------------------
(* main                                                                    *)

Connects(p) ==
  /\ pc[p] = "start"
  /\ Connect(p)
  /\ pc' = [pc EXCEPT ![p] = "prompt"]
  /\ UNCHANGED <<typed, joined_registry, up, asked, swallowed>>

\* An argument is wrong, or the registry cannot be reached: main panics.
Panics(p) ==
  /\ pc[p] = "start"
  /\ pc' = [pc EXCEPT ![p] = "done"]
  /\ UNCHANGED <<vars, typed, joined_registry, up, asked, swallowed>>

\* The user types a command at the prompt.
Typed(p) ==
  /\ pc[p] = "prompt"
  /\ typed[p] < MaxTyped[p]
  /\ typed' = [typed EXCEPT ![p] = @ + 1]

\* JOIN and REGISTER set the flag as soon as the bytes are written.
JoinOrRegister(p, m) ==
  /\ Typed(p)
  /\ Write(p, m)
  /\ \E ok \in Written(p) :
       joined_registry' = [joined_registry EXCEPT ![p] = @ \/ ok]
  /\ UNCHANGED <<vars, pc, asked, swallowed>>

send_join(p) == "join" \in commands[p] /\ JoinOrRegister(p, join_request(p))
send_register(p) == "register" \in commands[p] /\ JoinOrRegister(p, register_request)

send_publish(p) ==
  /\ "publish" \in commands[p]
  /\ Typed(p)
  /\ joined_registry[p]
  /\ Write(p, publish_request(p))
  /\ UNCHANGED <<vars, pc, joined_registry, asked, swallowed>>

\* SEARCH, or the first half of FETCH: the request is written and the peer
\* waits for ten bytes.
search_registry(p, n) ==
  /\ n \in wanted[p]
  /\ Typed(p)
  /\ joined_registry[p]
  /\ Write(p, search_request(n))
  /\ pc' = [pc EXCEPT ![p] = "wait"]
  /\ asked' = [asked EXCEPT ![p] = n]
  /\ UNCHANGED <<vars, joined_registry, swallowed>>

Found(r) == r.id # 0

\* read_exact returns.  An id of 0 means "not found", whatever the address.
\* SEARCH prints the answer; FETCH goes on when there is one.
Answered(p) ==
  /\ pc[p] = "wait"
  /\ TakeReply(p)
  /\ \/ pc' = [pc EXCEPT ![p] = "prompt"]
     \/ Found(Head(outbox[p])) /\ pc' = [pc EXCEPT ![p] = "fetch"]
  /\ asked' = [asked EXCEPT ![p] = None]
  /\ UNCHANGED <<typed, joined_registry, up, swallowed>>

SearchFails_Spins_Mutant(p) ==
  /\ pc[p] = "wait"
  /\ Dead(p)
  /\ UNCHANGED sessionVars

\* The write or the read fails; the error is printed and the loop goes on.
SearchFails(p) ==
  /\ pc[p] = "wait"
  /\ Dead(p)
  /\ outbox[p] = <<>>
  /\ pc' = [pc EXCEPT ![p] = "prompt"]
  /\ up' = [up EXCEPT ![p] = <<>>]
  /\ asked' = [asked EXCEPT ![p] = None]
  /\ UNCHANGED <<vars, typed, joined_registry, swallowed>>

\* The rest of send_fetch, with or without success.
FetchReturns(p) ==
  /\ pc[p] = "fetch"
  /\ pc' = [pc EXCEPT ![p] = "prompt"]
  /\ UNCHANGED <<vars, typed, joined_registry, up, asked, swallowed>>

Exit(p) ==
  /\ pc[p] = "prompt"
  /\ pc' = [pc EXCEPT ![p] = "exit"]
  /\ UNCHANGED <<vars, typed, joined_registry, up, asked, swallowed>>

\* main returns and the socket is closed; TCP delivers what was written first.
Leaves(p) ==
  /\ pc[p] = "exit"
  /\ IF Dead(p) THEN UNCHANGED vars ELSE up[p] = <<>> /\ Close(p)
  /\ pc' = [pc EXCEPT ![p] = "done"]
  /\ up' = [up EXCEPT ![p] = <<>>]
  /\ UNCHANGED <<typed, joined_registry, asked, swallowed>>

\* A command that sends nothing: help, an empty line, a missing file name, a
\* name that is not ASCII, PUBLISH and SEARCH before JOIN, a listener that
\* cannot be bound, a directory that cannot be read.
OtherCommand(p) ==
  /\ pc[p] = "prompt"
  /\ UNCHANGED sessionVars

-----------------------------------------------------------------------------
\* What a peer does of itself once it has been told to search or to exit.
PeerRuns(p) == Answered(p) \/ SearchFails(p) \/ FetchReturns(p) \/ Leaves(p)

PeerCommand(p) ==
  \/ Connects(p)
  \/ Panics(p)
  \/ send_join(p)
  \/ send_register(p)
  \/ send_publish(p)
  \/ \E n \in Names : search_registry(p, n)
  \/ Exit(p)
  \/ OtherCommand(p)

\* The peer waits in read_exact, and there is nothing on the way that it could
\* read or that the registry could answer.
Hangs(p) ==
  /\ pc[p] = "wait"
  /\ up[p] = <<>>
  /\ inbox[p] = None
  /\ outbox[p] = <<>>
  /\ sending.to # p
  /\ ~Dead(p)

\* The registry waits in pselect and no peer will ever do anything again.
Quiet ==
  /\ AtSelect \/ phase = "deaf"
  /\ \A p \in Conns : pc[p] = "done" \/ Hangs(p)
  /\ UNCHANGED sessionVars

\* Nobody stops the registry with a signal here; it may still die.
RegistryStep == (Start \/ StartFails \/ Server \/ Finished) /\ UNCHANGED peerVars

SessionNext ==
  \/ \E p \in Conns : PeerCommand(p) \/ PeerRuns(p) \/ Arrive(p) \/ Breaks(p)
  \/ RegistryStep
  \/ Quiet

SessionSpec == SessionInit /\ [][SessionNext]_sessionVars

\* The registry's thread and the peers' threads keep running, and TCP
\* delivers.  No user is ever obliged to type a command.
SessionFairness ==
  /\ WF_sessionVars((Start \/ Server) /\ UNCHANGED peerVars)
  /\ \A p \in Conns : WF_sessionVars(PeerRuns(p)) /\ WF_sessionVars(Arrive(p))

FairSession == SessionSpec /\ SessionFairness

-----------------------------------------------------------------------------
(* Properties                                                              *)

\* Types of the peers' variables, and of the registry's when it is driven by
\* them; a SEARCH is the last request on the way, as its peer waits.
SessionTypeOK ==
  /\ TypeOK
  /\ pc \in [Conns -> {"start", "prompt", "wait", "fetch", "exit", "done"}]
  /\ typed \in [Conns -> Nat]
  /\ joined_registry \in [Conns -> BOOLEAN]
  /\ \A p \in Conns :
       /\ Len(up[p]) <= UpCap
       /\ \A k \in 1 .. Len(up[p]) : up[p][k].op = "search" => k = Len(up[p]) /\ pc[p] = "wait"
  /\ asked \in [Conns -> Names \cup {None}]
  /\ swallowed \in [Conns -> BOOLEAN]

\* Replies on the way to a peer: decided by the registry and not yet read.
Owed(p) == outbox[p] \o (IF sending.to = p THEN sending.replies ELSE <<>>)

\* Requests and answers never get out of step: a reply is only ever under way
\* to a peer that waits for it, whose search is no longer on its way, and
\* there is one.  So what search_registry reads is the answer to its own
\* question, however JOIN, REGISTER, PUBLISH and SEARCH were run together.
AnswersInStep ==
  \A p \in Conns :
    Owed(p) # <<>> =>
      /\ Len(Owed(p)) = 1
      /\ pc[p] = "wait" \/ gone[p] # "no" \/ conn[p] = "done"
      /\ up[p] = <<>>
      /\ inbox[p] = None

\* An answer that a peer is about to read pairs the address of a peer with the
\* id which that peer was started with, and that peer shares a file whose name
\* begins the name asked for: slots and descriptors that are reused, and
\* requests that were swallowed, never mix two peers up.
AnswersAreTruthful ==
  \A p \in Conns : \A k \in 1 .. Len(outbox[p]) :
    Found(outbox[p][k]) =>
      LET q == outbox[p][k].addr
      IN  /\ q \in Conns
          /\ outbox[p][k].id = peer_id[q]
          /\ \E f \in 1 .. Len(shared_dir[q]) : NameMatches(shared_dir[q][f], asked[p])

\* The file list of a client is empty or the whole list that its own peer
\* sends: no part of one, no other peer's, and nothing of the requests that
\* arrived together with it.
PublishedWhole ==
  \A i \in ActiveSlots :
    clients[i].files # <<>> => clients[i].files = Fitting(shared_dir[clients[i].addr])

\* The registry has recorded the JOIN of p.
Recorded(p) == \E i \in ActiveSlots : clients[i].addr = p /\ clients[i].type = "JOINED"

\* search_registry reads without a time-out and hangs if the registry never
\* answers.  That happens in three cases only: the request arrived behind
\* another in one recv, the registry has not recorded the peer's JOIN (a JOIN
\* that was run together with the next request, or a REGISTER alone, though
\* both set joined_registry), or the name is too long.
HangsAreExplained ==
  \A p \in Conns :
    Hangs(p) => swallowed[p] \/ ~Recorded(p) \/ Len(asked[p]) + 1 >= SearchLimit

\* A SEARCH that reaches the registry as a recv of its own, after the registry
\* recorded the JOIN, makes search_registry return, with an answer or an error,
\* however busy the other peers keep the registry.  A name that is too
\* long (99 characters) is the exception: handle_search sends nothing.
SearchReturns ==
  \A p \in Conns :
    (inbox[p] # None /\ inbox[p].op = "search" /\ inbox[p].len < SearchLimit /\ Recorded(p))
      ~> pc[p] # "wait"

=============================================================================
