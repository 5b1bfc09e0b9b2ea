------------------------------- MODULE CPeer -------------------------------
(***************************************************************************)
(* src/program_02/peer.c, the peer written in C, and the registry of       *)
(* src/program_04/registry.c as far as one peer can see it.                *)
(*                                                                         *)
(* JOIN and PUBLISH are sent and forgotten.  SEARCH reads its answer with  *)
(* one recv for each of three fields, and gives up when they do not add up *)
(* to an answer; what it has not read stays in the stream.  The registry   *)
(* takes whatever one recv returns for one request.                        *)
(*                                                                         *)
(* Definitions whose name ends in _Mutant are plausible mistakes in the    *)
(* definition that follows them; no specification uses them.               *)
(***************************************************************************)
EXTENDS Integers, Sequences, SequencesExt

CONSTANTS
  Owners,       \* peers that the registry may name
  Reply,        \* Reply[q]: the bytes of an answer that names q
  IdLen, IpLen, PortLen,  \* bytes of its three fields (4, 4 and 2)
  Names,        \* file names that users search for
  NameLen,      \* NameLen[n]: characters
  EightBit,     \* EightBit[n]: how many of them are not ASCII
  Dirs,         \* states of ./SharedFiles: lengths of the names, in order
  DirEightBit,  \* DirEightBit[dir]: bytes >= 128 of the PUBLISH of dir
  IdEightBit,   \* bytes >= 128 of this peer's id
  IdTail,       \* 1 if the last byte of the id is not 0
  MaxTyped,     \* bound: commands typed
  None

BufferSize   == 1200  \* buffer of publish
PublishLimit == 1199  \* handle_publish refuses a PUBLISH of so many bytes ...
SearchLimit  == 100   \* ... and handle_search such a SEARCH, opcodes not counted

AnswerLen == IdLen + IpLen + PortLen
NotFound  == [i \in 1 .. AnswerLen |-> 0]

ASSUME CPeerAssumption ==
  /\ {IdLen, IpLen, PortLen} \subseteq Nat \ {0}
  /\ Reply \in [Owners -> [1 .. AnswerLen -> Nat]]
  /\ NameLen \in [Names -> 1 .. 100]
  /\ EightBit \in [Names -> Nat]
  /\ Dirs \subseteq Seq(1 .. 255)
  /\ DirEightBit \in [Dirs -> Nat]
  /\ IdEightBit \in 0 .. 4 /\ IdTail \in {0, 1}
  /\ MaxTyped \in Nat
  /\ None \notin Owners \cup Names \cup {"fetched"}

VARIABLES
  pc,      \* "start", "prompt", "id", "ip", "port" (in recv), "connect",
           \* "receive", "spin" (in the loop of getchar) or "dead"
  cmd,     \* "search" or "fetch", the command that is being carried out
  fileName,  \* the name that the last SEARCH or FETCH asked for
  typed,   \* number of commands typed
  got,     \* bytesReceived, and the bytes: got[1] of the id, ...
  shown,   \* what the last SEARCH or FETCH has made of its answer, or None
  up,      \* requests that were sent and not received
  down,    \* bytes that the registry sent and the peer has not received
  line,    \* what the peer's kernel knows: "open", "fin", "rst" or "broken"
  joined,  \* the registry's table: this peer has joined
  answer,  \* history: what the registry made of the last SEARCH
  torn,    \* history: an answer was read in part, or there was more than one
  swallowed  \* history: the last SEARCH arrived behind another request

peerState == <<pc, cmd, fileName, typed, got, shown>>
network   == <<up, down, line, joined>>
history   == <<answer, torn, swallowed>>
vars      == <<pc, cmd, fileName, typed, got, shown, up, down, line, joined, answer, torn, swallowed>>

NoBytes == <<<<>>, <<>>, <<>>>>

\* The registry may give the peer a slot whose last client had joined, and
\* takes the peer for one that has (clear_client leaves the type).
Init ==
  /\ pc = "start"
  /\ cmd = "search"
  /\ fileName = None
  /\ typed = 0
  /\ got = NoBytes
  /\ shown = None
  /\ up = <<>>
  /\ down = <<>>
  /\ line = "open"
  /\ joined \in BOOLEAN
  /\ answer = None
  /\ torn = FALSE
  /\ swallowed = FALSE

-----------------------------------------------------------------------------
(* The requests: operation, and length and bytes >= 128 without the opcode. *)

join_request == [op |-> "join", len |-> 4, name |-> None, eightbit |-> IdEightBit]

Fits_Exactly_Mutant(offset, nameLen) == offset + nameLen + 1 <= BufferSize

Fits(offset, nameLen) == offset + nameLen + 1 < BufferSize

\* The loop takes the names up to the first that does not fit.
Offset(dir) ==
  LET after[k \in 0 .. Len(dir)] ==
        IF k = 0 THEN [offset |-> 5, full |-> FALSE]
        ELSE LET l == after[k - 1] IN
             IF l.full \/ ~Fits(l.offset, dir[k]) THEN [l EXCEPT !.full = TRUE]
             ELSE [l EXCEPT !.offset = @ + dir[k] + 1]
  IN  after[Len(dir)].offset

publish_request(dir) ==
  [op |-> "publish", len |-> Offset(dir) - 1, name |-> None, eightbit |-> DirEightBit[dir]]

search_request_TwoNul_Mutant(n) ==
  [op |-> "search", len |-> NameLen[n] + 2, name |-> n, eightbit |-> EightBit[n]]

search_request(n) ==
  [op |-> "search", len |-> NameLen[n] + 1, name |-> n, eightbit |-> EightBit[n]]

-----------------------------------------------------------------------------
(* main, print_options and the commands                                    *)

\* An argument is wrong, the registry is not there, or it is.
Connect ==
  /\ pc = "start"
  /\ pc' \in {"prompt", "dead"}
  /\ UNCHANGED <<cmd, fileName, typed, got, shown, network, history>>

\* send on the connection to the registry: it takes everything, loses it as
\* the registry is gone, returns -1 or ends the process with SIGPIPE.
\* next is where the command goes on if there was no error.
Send(m, next, back) ==
  /\ pc = "prompt"
  /\ typed < MaxTyped
  /\ typed' = typed + 1
  /\ \/ line = "open" /\ pc' = next /\ up' = Append(up, m) /\ UNCHANGED line
     \/ line = "fin" /\ pc' = next /\ line' \in {"fin", "broken"} /\ UNCHANGED up
     \/ line = "rst" /\ pc' = back /\ line' = "broken" /\ UNCHANGED up
     \/ line = "broken" /\ pc' = "dead" /\ UNCHANGED <<line, up>>
  /\ got' = NoBytes
  /\ UNCHANGED <<down, joined, torn>>

join == Send(join_request, "prompt", "prompt") /\ UNCHANGED <<cmd, fileName, shown, answer, swallowed>>

publish ==
  /\ \E dir \in Dirs : Send(publish_request(dir), "prompt", "prompt")
  /\ UNCHANGED <<cmd, fileName, shown, answer, swallowed>>

\* The request of SEARCH and of FETCH.
Ask(n, how, back) ==
  /\ Send(search_request(n), "id", back)
  /\ cmd' = how
  /\ fileName' = n
  /\ shown' = None
  /\ answer' = None
  /\ swallowed' = FALSE

search_NoWait_Mutant(n) ==
  /\ Send(search_request(n), "prompt", "prompt")
  /\ UNCHANGED <<cmd, fileName, shown, answer, swallowed>>

\* The name is read into fileName, which is not set if the input ends here:
\* then n is whatever name its bytes happen to spell.
search(n) == Ask(n, "search", "prompt")

\* EXIT, after which main returns.
Exit ==
  /\ pc = "prompt"
  /\ pc' = "dead"
  /\ UNCHANGED <<cmd, fileName, typed, got, shown, network, history>>

\* The input ends, or cannot be read: getchar never returns '\n' again.
EndOfInput ==
  /\ pc = "prompt"
  /\ pc' = "spin"
  /\ UNCHANGED <<cmd, fileName, typed, got, shown, network, history>>

print_options == join \/ publish \/ (\E n \in Names : search(n)) \/ Exit \/ EndOfInput

-----------------------------------------------------------------------------
(* The answer                                                              *)

\* Where searching returns to: the loop of commands, or the rest of fetch.
Back == IF cmd = "fetch" THEN "connect" ELSE "prompt"

\* recv of at most want bytes returns the bytes s, none at the end of the
\* stream.  After a reset it returns -1 once, which also makes the answer
\* incomplete: bytesReceived stays above 0 as the first recv returned bytes.
Recv(want, s) ==
  IF down = <<>>
    THEN /\ line # "open"
         /\ s = <<>>
         /\ line' = (IF line = "rst" THEN "broken" ELSE line)
         /\ UNCHANGED <<down, torn>>
    ELSE /\ s # <<>> /\ Len(s) <= want
         /\ down' = SubSeq(down, Len(s) + 1, Len(down))
         /\ torn' = (torn \/ Len(s) < want)
         /\ UNCHANGED line

RecvId_Again_Mutant ==
  /\ pc = "id"
  /\ \E s \in Prefixes(down) :
       /\ Recv(IdLen, s)
       /\ pc' = (IF s = <<>> THEN "id" ELSE "ip")
       /\ got' = [got EXCEPT ![1] = s]
  /\ UNCHANGED <<cmd, fileName, typed, shown, up, joined, answer, swallowed>>

RecvId ==
  /\ pc = "id"
  /\ \E s \in Prefixes(down) :
       /\ Recv(IdLen, s)
       /\ pc' = (IF s = <<>> THEN Back ELSE "ip")
       /\ got' = [got EXCEPT ![1] = s]
  /\ UNCHANGED <<cmd, fileName, typed, shown, up, joined, answer, swallowed>>

RecvIp ==
  /\ pc = "ip"
  /\ \E s \in Prefixes(down) : Recv(IpLen, s) /\ got' = [got EXCEPT ![2] = s]
  /\ pc' = "port"
  /\ UNCHANGED <<cmd, fileName, typed, shown, up, joined, answer, swallowed>>

\* "Incomplete response from registry."
Complete(bytes) == Len(bytes) >= AnswerLen

\* The last recv, the test of the length, and what is made of the answer.
RecvPort ==
  /\ pc = "port"
  /\ \E s \in Prefixes(down) :
       LET bytes == got[1] \o got[2] \o s
       IN  /\ Recv(PortLen, s)
           /\ shown' = IF Complete(bytes) THEN bytes ELSE None
           /\ got' = NoBytes
  /\ pc' = Back
  /\ UNCHANGED <<cmd, fileName, typed, up, joined, answer, swallowed>>

-----------------------------------------------------------------------------
(* The registry: handle_client and the three handlers.                     *)

\* The length that the handler is given when k requests came in one recv.
Received(k) ==
  LET size[i \in 1 .. k] == IF i = 1 THEN up[1].len ELSE size[i - 1] + up[i].len + 1
  IN  size[k]

Taken(k) ==
  /\ up' = SubSeq(up, k + 1, Len(up))
  /\ swallowed' = (swallowed \/ \E i \in 2 .. k : up[i].op = "search")
  /\ UNCHANGED <<peerState, line>>

\* handle_join ignores an id that is taken.
TakeJoin(k) ==
  /\ Head(up).op = "join"
  /\ joined' \in (IF Received(k) = 4 THEN {TRUE, joined} ELSE {joined})
  /\ Taken(k)
  /\ UNCHANGED <<down, answer, torn>>

\* Whether the list is taken or refused, the peer hears nothing of it.
TakePublish(k) ==
  /\ Head(up).op = "publish"
  /\ Taken(k)
  /\ UNCHANGED <<down, joined, answer, torn>>

\* The bytes >= 128 of the k requests.
EightBits(k) ==
  LET sum[i \in 1 .. k] == IF i = 1 THEN up[1].eightbit ELSE sum[i - 1] + up[i].eightbit
  IN  sum[k]

\* An answer for each byte that is not ASCII, one more if the last byte
\* received is not 0, which only that of a JOIN can be, and the real one.
TakeSearch(k) ==
  LET extra == EightBits(k) + (IF up[k].op = "join" THEN IdTail ELSE 0)
  IN  /\ Head(up).op = "search"
      /\ Taken(k)
      /\ IF joined /\ Received(k) < SearchLimit
           THEN \E r \in {Reply[q] : q \in Owners} \cup {NotFound} :
                  /\ down' = down \o FlattenSeq([i \in 1 .. extra |-> NotFound]) \o r
                  /\ answer' = r
                  /\ torn' = (torn \/ extra > 0)
           ELSE UNCHANGED <<down, answer, torn>>
      /\ UNCHANGED joined

Registry == \E k \in 1 .. Len(up) : TakeJoin(k) \/ TakePublish(k) \/ TakeSearch(k)

\* The registry ends or the connection breaks; requests under way are lost.
LoseLine ==
  /\ pc \notin {"start", "dead"}
  /\ line = "open"
  /\ line' \in {"fin", "rst"}
  /\ up' = <<>>
  /\ UNCHANGED <<peerState, down, joined, history>>

=============================================================================
