-------------------------------- MODULE Calc --------------------------------
(***************************************************************************)
(* src/lab_03/client.c and src/lab_03/server.c: clients send two numbers   *)
(* and the character '+' and print the sum that the server sends back.     *)
(* The server serves one client after the other.                           *)
(*                                                                         *)
(* TCP may split what is sent, and send and recv may handle a part only.   *)
(* Both programs loop over send and recv, but the loops forget where they  *)
(* are in the buffer: recv always writes to its start, and send_bytes      *)
(* increments the first byte where it means to advance.                    *)
(*                                                                         *)
(* Definitions whose name ends in _Mutant are plausible mistakes in the    *)
(* definition that follows them; no specification uses them.               *)
(***************************************************************************)
EXTENDS Integers, Sequences

CONSTANTS
  Clients,
  Server,
  None,
  Base,       \* number of values of a byte (256)
  Width,      \* bytes of an operand (4)
  WideWidth,  \* bytes of the result (8)
  Plus,       \* the byte '+'
  Inputs,     \* pairs of numbers that users enter
  Leftover    \* bytes the server's recv_buffer may be full of at the start

Byte == 0 .. Base - 1

RequestLen == 2 * Width + 1

\* n >> 8 * k.  A number of k bytes is one that this leaves nothing of.
Shifted(n, k) ==
  LET q[i \in 0 .. k] == IF i = 0 THEN n ELSE q[i - 1] \div Base
  IN  q[k]

ASSUME CalcAssumption ==
  /\ Server \notin Clients
  /\ None \notin Clients \cup {Server}
  /\ Base \in Nat \ {0, 1}
  /\ Width \in Nat \ {0}
  /\ WideWidth \in Nat /\ WideWidth > Width /\ WideWidth <= RequestLen
  /\ Plus \in Byte
  /\ Inputs \subseteq Nat \X Nat
  /\ \A in \in Inputs : Shifted(in[1], Width) = 0 /\ Shifted(in[2], Width) = 0
  /\ Leftover \subseteq Byte

Ends       == Clients \cup {Server}

VARIABLES
  pc,          \* "start", "accept", "prompt", "send", "recv" or "dead"
  cur,         \* clientfd: the client that is served, or None
  accepting,   \* what accept does with serverfd and client_len as they are
  mem,         \* the buffers of each program and how far it is in them
  calc,        \* each client's operands, and the sum it printed for them;
               \* history: whether a send or recv was short
  backlog,     \* kernel: clients that wait to be accepted
  wire,        \* kernel: bytes under way, by client and direction
  ear          \* kernel: what the reader of that direction knows of its writer

vars == <<pc, cur, accepting, mem, calc, backlog, wire, ear>>

Streams == Clients \X {"up", "down"}
Out(e)  == IF e = Server THEN <<cur, "down">> ELSE <<e, "up">>
In(e)   == IF e = Server THEN <<cur, "up">> ELSE <<e, "down">>
Who(e)  == IF e = Server THEN cur ELSE e

Filled(b) == [i \in 1 .. RequestLen |-> b]

\* What the client's loop begins with.
Cleared == [send_buffer |-> <<>>, length |-> 0, recv_buffer |-> Filled(0), total_read |-> 0]

NoSum == [lhs |-> 0, rhs |-> 0, shown |-> None, cut |-> FALSE]

Init ==
  /\ pc = [e \in Ends |-> "start"]
  /\ cur = None
  /\ accepting \in {"first", "drops"}
  /\ \E b \in Leftover : mem = [e \in Ends |-> IF e = Server
                                  THEN [Cleared EXCEPT !.recv_buffer = Filled(b)] ELSE Cleared]
  /\ calc = [c \in Clients |-> NoSum]
  /\ backlog = {}
  /\ wire = [s \in Streams |-> <<>>]
  /\ ear = [s \in Streams |-> "open"]

-----------------------------------------------------------------------------
(* Numbers in big-endian order.                                            *)

Encode(n, w) == [i \in 1 .. w |-> Shifted(n, w - i) % Base]

Decode(s) ==
  LET f[i \in 0 .. Len(s)] == IF i = 0 THEN 0 ELSE f[i - 1] * Base + s[i]
  IN  f[Len(s)]

-----------------------------------------------------------------------------
(* send_bytes, the same text in both programs.                             *)

Short(c, yes) == calc' = [calc EXCEPT ![c].cut = @ \/ yes]

\* "*p += sent": the first byte is incremented, the pointer stays.
Advance(buf, n) == [buf EXCEPT ![1] = (@ + n) % Base]

\* send takes n bytes; they are lost if the other end is gone already, which
\* the kernel may or may not hear of before the next call.  The buffer is
\* filled anew before it is used again, so its contents are forgotten after
\* the last piece.
SendPiece(e) ==
  /\ pc[e] = "send"
  /\ ear[In(e)] \in {"open", "fin"}
  /\ \E n \in 1 .. mem[e].length :
       /\ Short(Who(e), n < mem[e].length)
       /\ IF n < mem[e].length
            THEN /\ mem' = [mem EXCEPT ![e].send_buffer = Advance(@, n), ![e].length = @ - n]
                 /\ UNCHANGED pc
            ELSE /\ mem' = [mem EXCEPT ![e].send_buffer = <<>>, ![e].length = 0, ![e].total_read = 0]
                 /\ pc' = [pc EXCEPT ![e] = "recv"]
       /\ IF ear[In(e)] = "open"
            THEN /\ wire' = [wire EXCEPT ![Out(e)] = @ \o SubSeq(mem[e].send_buffer, 1, n)]
                 /\ UNCHANGED ear
            ELSE /\ ear' \in {ear, [ear EXCEPT ![In(e)] = "broken"]}
                 /\ UNCHANGED wire
  /\ UNCHANGED <<cur, accepting, backlog>>

-----------------------------------------------------------------------------
(* recv: each call writes at the start of the buffer, and what lies behind *)
(* keeps what it was.                                                      *)

Overwrite(buf, s) == [i \in 1 .. RequestLen |-> IF i <= Len(s) THEN s[i] ELSE buf[i]]

\* The memory of e when recv has returned n bytes.
Received(e, n) ==
  [mem[e] EXCEPT !.recv_buffer = Overwrite(@, SubSeq(wire[In(e)], 1, n)), !.total_read = @ + n]

Consume(e, n) == wire' = [wire EXCEPT ![In(e)] = SubSeq(@, n + 1, Len(@))]

-----------------------------------------------------------------------------
(* client.c                                                                *)

\* lookup_and_connect.
Connect(c) ==
  /\ pc[c] = "start"
  /\ IF pc[Server] \notin {"start", "dead"}
       THEN pc' = [pc EXCEPT ![c] = "prompt"] /\ backlog' = backlog \cup {c}
       ELSE pc' = [pc EXCEPT ![c] = "dead"] /\ UNCHANGED backlog
  /\ UNCHANGED <<cur, accepting, mem, calc, wire, ear>>

\* The user enters two numbers.  Anything else only repeats the prompt.
Prompt(c) ==
  /\ pc[c] = "prompt"
  /\ \E in \in Inputs :
       /\ calc' = [calc EXCEPT ![c] = [NoSum EXCEPT !.lhs = in[1], !.rhs = in[2]]]
       /\ mem' = [mem EXCEPT ![c].send_buffer = Encode(in[1], Width) \o <<Plus>> \o Encode(in[2], Width),
                             ![c].length = RequestLen]
  /\ pc' = [pc EXCEPT ![c] = "send"]
  /\ UNCHANGED <<cur, accepting, backlog, wire, ear>>

Enough_Any_Mutant(total, want)  == total > 0
Enough_More_Mutant(total, want) == total > want

\* "while (total_read < 8)" and "while (total_read < 9)"
Enough(total, want) == total >= want

\* The loop ends when the whole reply has been received, and the sum is shown
\* if that was all.
ReadReply(c) ==
  /\ pc[c] = "recv"
  /\ \E n \in 1 .. Len(wire[In(c)]) :
       LET m == Received(c, n)
       IN  /\ Consume(c, n)
           /\ IF ~Enough(m.total_read, WideWidth)
                THEN mem' = [mem EXCEPT ![c] = m] /\ Short(c, TRUE) /\ UNCHANGED pc
                ELSE /\ mem' = [mem EXCEPT ![c] = Cleared]
                     /\ pc' = [pc EXCEPT ![c] = "prompt"]
                     /\ calc' = [calc EXCEPT ![c].shown =
                                   IF m.total_read # WideWidth THEN None
                                   ELSE Decode(SubSeq(m.recv_buffer, 1, WideWidth))]
  /\ UNCHANGED <<cur, accepting, backlog, ear>>

\* recv returns 0 for ever, and the loop that leaves only on -1 goes on.
Spinning(c) == pc[c] = "recv" /\ wire[In(c)] = <<>> /\ ear[In(c)] \in {"fin", "broken"}

\* send or recv returns -1, once, after a reset; main goes back to the prompt.
SeeReset(c) ==
  /\ ear[In(c)] = "rst"
  /\ pc[c] = "send" \/ (pc[c] = "recv" /\ wire[In(c)] = <<>>)
  /\ pc' = [pc EXCEPT ![c] = "prompt"]
  /\ mem' = [mem EXCEPT ![c] = Cleared]
  /\ ear' = [ear EXCEPT ![In(c)] = "broken"]
  /\ UNCHANGED <<cur, accepting, calc, backlog, wire>>

-----------------------------------------------------------------------------
(* server.c                                                                *)

\* bind_and_listen; main exits when it fails.
Listen ==
  /\ pc[Server] = "start"
  /\ \E p \in {"accept", "dead"} : pc' = [pc EXCEPT ![Server] = p]
  /\ UNCHANGED <<cur, accepting, mem, calc, backlog, wire, ear>>

\* What the other end learns when e closes its connection with client c or
\* its process ends: the end of the stream, or a reset if the server never
\* accepted the connection or data for e was left unread.
Hangup(e, c) ==
  LET out == <<c, IF e = Server THEN "down" ELSE "up">>
      in  == <<c, IF e = Server THEN "up" ELSE "down">>
  IN  IF ear[out] # "open" THEN ear[out]
      ELSE IF wire[in] # <<>> \/ (e = Server /\ c \in backlog) THEN "rst" ELSE "fin"

\* accept reads client_len, which nothing has set before the first success
\* ("drops": it is negative, accept fails and the kernel drops the new
\* connection, and main tries again with the same value).  A client_len above
\* 16 lets it write the 28 bytes of an IPv6 address to the 16 of client_addr,
\* over what the build puts next to it: a part of recv_buffer, or serverfd,
\* which AcceptFails tells.  main sets its other variables before it reads
\* them, and never returns.
Accept(c) ==
  /\ pc[Server] = "accept"
  /\ c \in backlog
  /\ backlog' = backlog \ {c}
  /\ \/ /\ accepting \in {"first", "works"}
        /\ accepting' = "works"
        /\ cur' = c
        /\ pc' = [pc EXCEPT ![Server] = "recv"]
        /\ \E buf \in {mem[Server].recv_buffer} \cup {Filled(b) : b \in Leftover} :
             mem' = [mem EXCEPT ![Server].recv_buffer = buf, ![Server].total_read = 0]
        /\ UNCHANGED <<wire, ear>>
     \/ /\ accepting = "drops"
        /\ ear' = [ear EXCEPT ![<<c, "down">>] = Hangup(Server, c)]
        /\ wire' = [wire EXCEPT ![<<c, "up">>] = <<>>]
        /\ UNCHANGED <<accepting, cur, pc, mem>>
  /\ UNCHANGED calc

\* An earlier accept wrote over serverfd: now and from here on accept fails at
\* once and takes nothing.
AcceptFails ==
  /\ pc[Server] = "accept"
  /\ accepting = "works"
  /\ accepting' = "fails"
  /\ UNCHANGED <<pc, cur, mem, calc, backlog, wire, ear>>

Result_Narrow_Mutant(buf) ==
  IF buf[Width + 1] = Plus
    THEN (Decode(SubSeq(buf, 1, Width)) + Decode(SubSeq(buf, Width + 2, RequestLen)))
           % (Decode([i \in 1 .. Width |-> Base - 1]) + 1)
    ELSE 0

\* The sum is made in 64 bits and cannot overflow.
Result(buf) ==
  IF buf[Width + 1] = Plus
    THEN Decode(SubSeq(buf, 1, Width)) + Decode(SubSeq(buf, Width + 2, RequestLen))
    ELSE 0

\* shutdown tells the client of the end of the stream, and close resets the
\* connection if bytes were left unread, which the client may see first.
CloseClient(unread) ==
  /\ cur' = None
  /\ pc' = [pc EXCEPT ![Server] = "accept"]
  /\ \E k \in {"fin"} \cup (IF unread THEN {"rst"} ELSE {}) :
       ear' = [ear EXCEPT ![Out(Server)] = IF @ = "open" THEN k ELSE @]

\* Fewer bytes than a request: recv again.  Exactly a request: answer it.
\* More: hang up.
ReadRequest ==
  /\ pc[Server] = "recv"
  /\ \E n \in 1 .. Len(wire[In(Server)]) :
       LET m == Received(Server, n)
       IN  /\ Short(cur, m.total_read < RequestLen)
           /\ IF ~Enough(m.total_read, RequestLen)
                THEN /\ mem' = [mem EXCEPT ![Server] = m]
                     /\ Consume(Server, n)
                     /\ UNCHANGED <<pc, cur, ear>>
                ELSE IF m.total_read # RequestLen
                THEN /\ mem' = [mem EXCEPT ![Server] = m]
                     /\ wire' = [wire EXCEPT ![In(Server)] = <<>>]
                     /\ CloseClient(n < Len(wire[In(Server)]))
                ELSE /\ Consume(Server, n)
                     /\ mem' = [mem EXCEPT ![Server] =
                                  [m EXCEPT !.send_buffer = Encode(Result(m.recv_buffer), WideWidth),
                                            !.length = WideWidth]]
                     /\ pc' = [pc EXCEPT ![Server] = "send"]
                     /\ UNCHANGED <<cur, ear>>
  /\ UNCHANGED <<accepting, backlog>>

LoseClient_OnReset_Mutant ==
  /\ pc[Server] \in {"recv", "send"}
  /\ ear[In(Server)] = "rst"
  /\ CloseClient(wire[In(Server)] # <<>>)
  /\ UNCHANGED <<accepting, mem, calc, backlog, wire>>

LoseClient_Answers_Mutant ==
  /\ pc[Server] = "recv" /\ wire[In(Server)] = <<>> /\ ear[In(Server)] # "open"
  /\ pc' = [pc EXCEPT ![Server] = "send"]
  /\ mem' = [mem EXCEPT ![Server].send_buffer = Encode(0, WideWidth), ![Server].length = WideWidth]
  /\ UNCHANGED <<cur, accepting, calc, backlog, wire, ear>>

\* recv returns 0 or -1, or send returns -1: the next client.
LoseClient ==
  /\ \/ pc[Server] = "recv" /\ wire[In(Server)] = <<>> /\ ear[In(Server)] # "open"
     \/ pc[Server] = "send" /\ ear[In(Server)] = "rst"
  /\ CloseClient(wire[In(Server)] # <<>>)
  /\ UNCHANGED <<accepting, mem, calc, backlog, wire>>

-----------------------------------------------------------------------------
(* A process ends: from outside, or with SIGPIPE when it writes to a       *)
(* connection that is known to be broken.                                  *)

Die(e) ==
  LET others == IF e # Server THEN {e} ELSE backlog \cup ({cur} \ {None})
      out(c) == <<c, IF e = Server THEN "down" ELSE "up">>
      in(c)  == <<c, IF e = Server THEN "up" ELSE "down">>
  IN  /\ pc' = [pc EXCEPT ![e] = "dead"]
      /\ mem' = [mem EXCEPT ![e] = Cleared]
      /\ ear' = [s \in Streams |->
                   IF \E c \in others : s = out(c) THEN Hangup(e, s[1]) ELSE ear[s]]
      /\ wire' = [s \in Streams |-> IF \E c \in others : s = in(c) THEN <<>> ELSE wire[s]]
      /\ IF e = Server
           THEN cur' = None /\ backlog' = {} /\ UNCHANGED calc
           ELSE calc' = [calc EXCEPT ![e] = [NoSum EXCEPT !.cut = calc[e].cut]] /\ UNCHANGED <<cur, backlog>>
      /\ UNCHANGED accepting

Kill(e) == pc[e] \notin {"start", "dead"} /\ Die(e)

SigPipe(e) == pc[e] = "send" /\ ear[In(e)] = "broken" /\ Die(e)

-----------------------------------------------------------------------------
ServerStep ==
  \/ \E c \in Clients : Accept(c)
  \/ ReadRequest
  \/ SendPiece(Server)
  \/ LoseClient
  \/ SigPipe(Server)

\* What the client does between two prompts.
ClientStep(c) == SendPiece(c) \/ ReadReply(c) \/ SeeReset(c) \/ SigPipe(c)

AllDead == (\A e \in Ends : pc[e] = "dead") /\ UNCHANGED vars

Next ==
  \/ Listen
  \/ ServerStep
  \/ AcceptFails
  \/ \E c \in Clients : Connect(c) \/ Prompt(c) \/ ClientStep(c)
  \/ \E e \in Ends : Kill(e)
  \/ AllDead

Spec == Init /\ [][Next]_vars

\* Processes keep running; users need not enter anything or end a program.
FairSpec == Spec /\ WF_vars(ServerStep) /\ \A c \in Clients : WF_vars(ClientStep(c))

-----------------------------------------------------------------------------
(* Properties                                                              *)

\* The variables have the types of the two programs' locals.
TypeOK ==
  /\ pc \in [Ends -> {"start", "accept", "prompt", "send", "recv", "dead"}]
  /\ cur \in Clients \cup {None}
  /\ accepting \in {"first", "works", "drops", "fails"}
  /\ mem \in [Ends -> [send_buffer : Seq(Byte), length : 0 .. RequestLen,
                       recv_buffer : [1 .. RequestLen -> Byte], total_read : Nat]]
  /\ calc \in [Clients -> [lhs : Nat, rhs : Nat,
                           shown : Nat \cup {None}, cut : BOOLEAN]]
  /\ backlog \subseteq Clients
  /\ wire \in [Streams -> Seq(Byte)]
  /\ ear \in [Streams -> {"open", "fin", "rst", "broken"}]

Live(c) == pc[c] \notin {"start", "dead"} /\ pc[Server] # "dead" /\ ear[<<c, "down">>] = "open"

\* Bytes of a request that were sent and are not answered yet, and bytes of
\* an answer that the client has not got to the end of.
Asked(c)    == Len(wire[<<c, "up">>])
               + (IF cur = c /\ pc[Server] = "recv" THEN mem[Server].total_read ELSE 0)
Answered(c) == Len(wire[<<c, "down">>])
               + (IF cur = c /\ pc[Server] = "send" THEN mem[Server].length ELSE 0)
               + (IF pc[c] = "recv" THEN mem[c].total_read ELSE 0)

\* Client c and the server are in the same calculation.
InStepWith(c) ==
  \/ pc[c] = "prompt" /\ Asked(c) = 0 /\ Answered(c) = 0
  \/ pc[c] = "send" /\ Asked(c) = RequestLen - mem[c].length /\ Answered(c) = 0
  \/ pc[c] = "recv" /\ Asked(c) = RequestLen /\ Answered(c) = 0
  \/ pc[c] = "recv" /\ Asked(c) = 0 /\ Answered(c) = WideWidth

\* However send and recv cut the bytes up, client and server never disagree
\* about which calculation they are in: no byte of one exchange is ever left
\* over for the next.
InStep == \A c \in Clients : Live(c) => InStepWith(c)

\* "%u + %u = %lu": the sum that is printed is the sum of the two numbers,
\* above 2^32 too, in every calculation in which no send or recv was short.
SumsAreRight ==
  \A c \in Clients : LET s == calc[c] IN s.shown # None /\ ~s.cut => s.shown = s.lhs + s.rhs

\* A client that goes away makes send fail, or takes the server with it
\* (SIGPIPE, for which it has no handler), only in the middle of a reply: a
\* part of it has been sent already, and send took less than it was given.
OnlyCutRepliesKill ==
  pc[Server] = "send" /\ ear[In(Server)] \in {"rst", "broken"} => mem[Server].length < WideWidth

\* A client that is being served leaves the receive loop, unless the server
\* has ended: then the loop runs for ever.
WaitsEnd ==
  \A c \in Clients : pc[c] = "recv" /\ cur = c ~> pc[c] # "recv" \/ Spinning(c)

\* The server notices that its client has gone and turns to the next one.
NextInTurn ==
  \A c \in Clients : pc[c] = "dead" /\ cur = c ~> cur # c

=============================================================================
