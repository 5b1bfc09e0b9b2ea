----------------------------- MODULE CPeerFetch -----------------------------
(***************************************************************************)
(* src/program_03/peer.c: the peer of module CPeer with the command FETCH, *)
(* which searches, connects to the peer whose address is in two global     *)
(* variables and saves what that peer sends.  Only a search that found     *)
(* something sets the variables; FETCH goes on after every search.         *)
(***************************************************************************)
EXTENDS CPeer

CONSTANT Content  \* Content[q][n]: the file n of peer q, or None

ASSUME ContentAssumption == Content \in [Owners -> [Names -> Seq(Nat) \cup {None}]]

VARIABLES
  target,      \* peerIPStrGlobal and peerPortGlobal, as bytes; None before the first
  file,        \* what was written to it, None if it was not opened
  firstChunk,
  feed,        \* bytes that the contacted peer sent and fetch has not received
  ending,      \* how the contacted peer ends them: "fin", "rst" or "never"
  said,        \* what FETCH has reported: "fetched", "failed" or None
  source,      \* history: the peer that the file comes from
  sent         \* history: that peer sent the "whole" file, a "part" or an "error"

transfer == <<file, firstChunk, feed, ending, source, sent>>
fetchVars == <<vars, target, transfer, said>>

FetchInit ==
  /\ Init
  /\ target = None
  /\ file = None
  /\ firstChunk = TRUE
  /\ feed = <<>>
  /\ ending = "never"
  /\ said = None
  /\ source = None
  /\ sent = "error"

-----------------------------------------------------------------------------
(* The commands that this program has in common with program_02.           *)

Unrelated(A) == A /\ UNCHANGED <<target, transfer, said>>

SameCommands == Unrelated(print_options)
RecvFields   == Unrelated(RecvId \/ RecvIp)
ShowAnswer   == cmd = "search" /\ Unrelated(RecvPort)
main         == Unrelated(Connect)

-----------------------------------------------------------------------------
(* searchForFetch                                                          *)

fetch(n) ==
  /\ Ask(n, "fetch", "connect")
  /\ file' = None
  /\ said' = None
  /\ source' = None
  /\ UNCHANGED <<target, firstChunk, feed, ending, sent>>

\* The loop of print_options with the new command.
Commands == SameCommands \/ \E n \in Names : fetch(n)

NonZero(s) == \E i \in 1 .. Len(s) : s[i] # 0

Id(r)      == SubSeq(r, 1, IdLen)
Ip(r)      == SubSeq(r, IdLen + 1, IdLen + IpLen)
Port(r)    == SubSeq(r, IdLen + IpLen + 1, AnswerLen)
Address(r) == Ip(r) \o Port(r)

\* "store the peer's address and port for fetching the file"
Usable(r) == r # None /\ NonZero(Id(r)) /\ NonZero(Ip(r)) /\ NonZero(Port(r))

Remember_Always_Mutant(r) == IF r # None THEN Address(r) ELSE target

Remember(r) == IF Usable(r) THEN Address(r) ELSE target

UseAnswer ==
  /\ cmd = "fetch"
  /\ RecvPort
  /\ target' = Remember(shown')
  /\ UNCHANGED <<transfer, said>>

-----------------------------------------------------------------------------
(* fetch                                                                   *)

\* What q may send for n before it closes, breaks off or falls silent: the
\* result code 0 and the file, a part of that, or another code.
Sendings(q, n) ==
  LET f == Content[q][n]
      part == IF f = None THEN {<<>>} ELSE {SubSeq(<<0>> \o f, 1, k) : k \in 0 .. Len(f)}
  IN  [bytes : part, how : {"fin", "rst", "never"}, sent : {"part"}]
      \cup [bytes : {<<1>>}, how : {"fin"}, sent : {"error"}]
      \cup IF f = None THEN {} ELSE [bytes : {<<0>> \o f}, how : {"fin"}, sent : {"whole"}]

\* The connection is made and the request sent, and the local file is opened,
\* which empties it.
ContactPeer ==
  /\ pc = "connect"
  /\ \E q \in Owners :
       /\ target = Address(Reply[q])
       /\ source' = q
       /\ \E s \in Sendings(q, fileName) : feed' = s.bytes /\ ending' = s.how /\ sent' = s.sent
  /\ file' = <<>>
  /\ firstChunk' = TRUE
  /\ pc' = "receive"
  /\ UNCHANGED <<cmd, fileName, typed, got, shown, network, history, target, said>>

\* fetchBuffer has room for the operation and 99 characters and the NUL; of a
\* longer name strcpy writes the NUL behind it.  That does no harm, or makes
\* send or fopen fail (ContactFails), or ends the process.
OverrunFetchBuffer ==
  /\ pc = "connect"
  /\ NameLen[fileName] >= 100
  /\ \E q \in Owners : target = Address(Reply[q])
  /\ pc' = "dead"
  /\ UNCHANGED <<cmd, fileName, typed, got, shown, network, history, target, transfer, said>>

\* socket, connect, send or fopen fails.
ContactFails ==
  /\ pc = "connect"
  /\ pc' = "prompt"
  /\ said' = "failed"
  /\ UNCHANGED <<cmd, fileName, typed, got, shown, network, history, target, transfer>>

Data_EveryChunk_Mutant(chunk) == Tail(chunk)

\* "If this is the first chunk, skip the first byte which is the result code"
Data(chunk) == IF firstChunk THEN Tail(chunk) ELSE chunk

ReceiveChunk ==
  /\ pc = "receive"
  /\ \E chunk \in Prefixes(feed) \ {<<>>} :
       /\ file' = file \o Data(chunk)
       /\ feed' = SubSeq(feed, Len(chunk) + 1, Len(feed))
  /\ firstChunk' = FALSE
  /\ UNCHANGED <<vars, target, ending, said, source, sent>>

\* recv returns 0, or -1.
EndOfFile ==
  /\ pc = "receive"
  /\ feed = <<>>
  /\ ending # "never"
  /\ said' = IF ending = "fin" THEN "fetched" ELSE "failed"
  /\ pc' = "prompt"
  /\ UNCHANGED <<cmd, fileName, typed, got, shown, network, history, target, transfer>>

-----------------------------------------------------------------------------
\* The peer waits for an answer, and there is none on the way.
Hangs == pc \in {"id", "ip", "port"} /\ up = <<>> /\ down = <<>> /\ line = "open"

\* The contacted peer neither sends nor closes.
Stalls == pc = "receive" /\ feed = <<>> /\ ending = "never"

PeerRuns ==
  \/ RecvFields \/ ShowAnswer \/ UseAnswer
  \/ ContactPeer \/ OverrunFetchBuffer \/ ContactFails \/ ReceiveChunk \/ EndOfFile

Idle == (pc \in {"dead", "spin"} \/ Hangs \/ Stalls) /\ UNCHANGED fetchVars

FetchNext ==
  \/ main
  \/ Commands
  \/ PeerRuns
  \/ Unrelated(Registry)
  \/ Unrelated(LoseLine)
  \/ Idle

FetchSpec == FetchInit /\ [][FetchNext]_fetchVars

\* The registry's thread and the peer's keep running; nobody has to type.
FairFetchSpec ==
  FetchSpec /\ WF_fetchVars(PeerRuns) /\ WF_fetchVars(Unrelated(Registry))

-----------------------------------------------------------------------------
(* Properties                                                              *)

\* The variables have the types of the program's locals and globals.
FetchTypeOK ==
  /\ pc \in {"start", "prompt", "id", "ip", "port", "connect", "receive", "spin", "dead"}
  /\ cmd \in {"search", "fetch"}
  /\ typed \in 0 .. MaxTyped
  /\ got \in Seq(Seq(Nat)) /\ Len(got) = 3
  /\ shown = None \/ Len(shown) = AnswerLen
  /\ up \in Seq([op : {"join", "publish", "search"}, len : Nat, name : Names \cup {None},
                 eightbit : Nat])
  /\ down \in Seq(Nat)
  /\ line \in {"open", "fin", "rst", "broken"}
  /\ joined \in BOOLEAN /\ torn \in BOOLEAN /\ swallowed \in BOOLEAN
  /\ target = None \/ Len(target) = IpLen + PortLen
  /\ fileName \in Names \cup {None}
  /\ file = None \/ file \in Seq(Nat)
  /\ feed \in Seq(Nat)

\* The bytes of the answer that the recv at hand and those after it are due.
Due == CASE pc = "id" -> {0, AnswerLen}
         [] pc = "ip" -> {IpLen + PortLen}
         [] pc = "port" -> {PortLen}
         [] OTHER -> {0}

\* Peer and registry stay in step as long as every recv returned its whole
\* field and no name had an 8-bit character: at the prompt nothing is left in
\* the stream and no SEARCH is under way, each recv finds its own field, and
\* the answer that is shown or used is the one that the registry gave to this
\* request, whatever was sent before it and whenever the registry went away.
FieldsInStep ==
  ~torn => /\ Len(down) \in Due
           /\ \A i \in 1 .. Len(up) :
                up[i].op = "search" => i = Len(up) /\ pc = "id" /\ down = <<>>
           /\ shown # None => shown = answer

\* FETCH connects to the peer that the registry has just named.  If it named
\* none, or one whose id, address or port is 0, it connects to one that it
\* named to an earlier FETCH.  Anything else needs an answer that was torn.
ContactsAreNamed ==
  ~torn => /\ target # None => \E q \in Owners : target = Address(Reply[q])
           /\ pc = "connect" /\ shown # None /\ Usable(answer) => target = Address(answer)

\* The local file holds a prefix of the contacted peer's file, without the
\* result code however the stream was cut up, and the whole of it when that
\* peer sent it and FETCH reports success.
FileIsThePeers ==
  cmd = "fetch" /\ source # None =>
    LET f == IF Content[source][fileName] = None THEN <<>> ELSE Content[source][fileName]
    IN  /\ IsPrefix(file, f)
        /\ said = "fetched" /\ sent = "whole" => file = f

\* Every PUBLISH that is sent is short enough for handle_publish, which
\* counts without the opcode what publish counts with it.
PublishIsAdmitted ==
  \A i \in 1 .. Len(up) : up[i].op = "publish" => up[i].len < PublishLimit

\* A peer waits for ever only because the registry has not let it join, took
\* the SEARCH for the tail of another request, or refused a name of more than
\* 98 characters, or after a torn answer.
WaitsAreExplained ==
  Hangs => \/ ~joined
           \/ swallowed
           \/ torn
           \/ NameLen[fileName] + 1 >= SearchLimit

\* Every command returns to the prompt unless the peer hangs or the contacted
\* peer stalls it.
CommandsReturn ==
  pc \in {"id", "connect", "receive"} ~> pc \in {"prompt", "dead"} \/ Hangs \/ Stalls

=============================================================================
