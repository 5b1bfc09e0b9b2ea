---------------------------- MODULE FileTransfer ----------------------------
(***************************************************************************)
(* The transfer of a file between two peers of src/program_03: send_fetch  *)
(* (fetch.rs) run by each fetcher, and the listener thread of the peer     *)
(* that shares the file (listener.rs), which serves one connection at a    *)
(* time.  TCP is two byte streams per connection: a read returns any       *)
(* non-empty prefix of what has arrived, a write may be taken in pieces.   *)
(*                                                                         *)
(* Definitions whose name ends in _Mutant are plausible mistakes in the    *)
(* definition that follows them; no specification uses them.               *)
(***************************************************************************)
EXTENDS Integers, Sequences, FiniteSets

CONSTANTS
  Fetchers,     \* peers that fetch, one connection each
  Names,        \* file names, as sequences of characters (none is 0)
  Store,        \* Store[n]: what open finds for name n under the shared directory
  Buffer,       \* size of the read and write buffers (2048)
  NameCap,      \* capacity of the collected name (100)
  Window,       \* bytes that fit between the listener's write and a fetcher's read
  None

\* types.rs
ERROR_Zero_Mutant == 0
SUCCESS       == 0
ERROR         == 1
UNKNOWN_ACTION == 2
UNHANDLED_ACTION == 3
TOO_MUCH_DATA == 5
INVALID_DATA  == 6
FETCH         == 3
NUL           == 0

\* kind is "file", "missing" (open fails), "invalid" (a path component that
\* is neither a name nor "."), or "dir" (open succeeds, read fails).
Entries == [kind : {"file", "missing", "invalid", "dir"}, data : Seq(Nat)]

ASSUME SizesAssumption ==
  /\ Buffer \in Nat \ {0, 1}
  /\ NameCap \in Nat \ {0}
  /\ Window \in Nat \ {0}

ASSUME StoreAssumption ==
  /\ Names \subseteq Seq(Nat \ {0})
  /\ Store \in [Names -> Entries]

ASSUME NoneAssumption == None \notin Fetchers /\ None \notin Names /\ None \notin Seq(Nat)

VARIABLES
  fpc,        \* control state of each fetcher
  want,       \* the name each asked for
  out,        \* contents of each output file; None when not created
  up,         \* bytes on the way to the listener
  down,       \* bytes on the way to the fetcher
  left,       \* the fetcher has closed its socket
  ended,      \* the listener's end of the connection: "open", "eof" or "rst"
  queue,      \* connections not yet accepted
  lpc,        \* control state of the listener thread
  cur,        \* the connection being served
  collected,  \* get_action: the name so far, None before the first read
  src,        \* handle_fetch: the part of the file not read yet
  offset,     \* handle_fetch: offset of the next read into the buffer
  pending,    \* bytes handed to write_all and not yet taken by the kernel
  accept_conn \* the flag shared with the main thread

fetchVars  == <<fpc, want, out, left>>
listenVars == <<lpc, cur, collected, src, offset, pending>>
vars == <<fpc, want, out, up, down, left, ended, queue, lpc, cur, collected,
          src, offset, pending, accept_conn>>

Init ==
  /\ fpc = [f \in Fetchers |-> "idle"]
  /\ want = [f \in Fetchers |-> None]
  /\ out = [f \in Fetchers |-> None]
  /\ up = [f \in Fetchers |-> <<>>]
  /\ down = [f \in Fetchers |-> <<>>]
  /\ left = [f \in Fetchers |-> FALSE]
  /\ ended = [f \in Fetchers |-> "open"]
  /\ queue = {}
  /\ lpc = "accept"
  /\ cur = None
  /\ collected = None
  /\ src = <<>>
  /\ offset = 1
  /\ pending = <<>>
  /\ accept_conn = TRUE

PrefixesOf(s) == {SubSeq(s, 1, k) : k \in 1 .. Len(s)}
Drop(s, k) == SubSeq(s, k + 1, Len(s))
Min2(x, y) == IF x < y THEN x ELSE y

-----------------------------------------------------------------------------
(* send_fetch.  The registry's answer is an input: found, or anything that *)
(* makes send_fetch return before it creates the output file.              *)

SearchFound(f, n) ==
  /\ fpc[f] = "idle"
  /\ want' = [want EXCEPT ![f] = n]
  /\ out' = [out EXCEPT ![f] = <<>>]
  /\ fpc' = [fpc EXCEPT ![f] = "connect"]
  /\ UNCHANGED <<up, down, left, ended, queue, listenVars, accept_conn>>

SearchFails(f) ==
  /\ fpc[f] = "idle"
  /\ fpc' = [fpc EXCEPT ![f] = "error"]
  /\ UNCHANGED <<want, out, up, down, left, ended, queue, listenVars, accept_conn>>

Connect(f) ==
  /\ fpc[f] = "connect"
  /\ lpc # "closed"
  /\ queue' = queue \cup {f}
  /\ fpc' = [fpc EXCEPT ![f] = "request"]
  /\ UNCHANGED <<want, out, up, down, left, ended, listenVars, accept_conn>>

\* The listener is gone, or the connection is not made in five seconds.
ConnectFails(f) ==
  /\ fpc[f] = "connect"
  /\ fpc' = [fpc EXCEPT ![f] = "error"]
  /\ UNCHANGED <<want, out, up, down, left, ended, queue, listenVars, accept_conn>>

\* A program other than send_fetch connects and sends some other opcode:
\* PUBLISH, which the listener knows but does not handle, or an unknown one.
OtherOpcodes == {1, 9}

SendOther(f, op) ==
  /\ fpc[f] = "idle"
  /\ lpc # "closed"
  /\ queue' = queue \cup {f}
  /\ up' = [up EXCEPT ![f] = <<op>>]
  /\ fpc' = [fpc EXCEPT ![f] = "other"]
  /\ UNCHANGED <<want, out, down, left, ended, listenVars, accept_conn>>

\* The request is written: opcode, name and NUL.
SendRequest(f) ==
  /\ fpc[f] = "request"
  /\ up' = [up EXCEPT ![f] = Append(<<FETCH>> \o want[f], NUL)]
  /\ fpc' = [fpc EXCEPT ![f] = "first"]
  /\ UNCHANGED <<want, out, down, left, ended, queue, listenVars, accept_conn>>

\* send_fetch returns, and the socket is dropped.
Returns(f, result) ==
  /\ fpc' = [fpc EXCEPT ![f] = result]
  /\ left' = [left EXCEPT ![f] = TRUE]

\* The listener dropped the connection before the request was written.
SendRequestFails(f) ==
  /\ fpc[f] = "request"
  /\ ended[f] # "open"
  /\ Returns(f, "error")
  /\ UNCHANGED <<want, out, up, down, ended, queue, listenVars, accept_conn>>

\* The bytes one read can return.
Arrived(f) == {p \in PrefixesOf(down[f]) : Len(p) <= Buffer}

\* The first read: a status byte, then file data.
ReadStatus(f) ==
  /\ fpc[f] = "first"
  /\ \E p \in Arrived(f) :
       /\ down' = [down EXCEPT ![f] = Drop(@, Len(p))]
       /\ IF p[1] # SUCCESS
            THEN Returns(f, "error") /\ UNCHANGED out
            ELSE /\ fpc' = [fpc EXCEPT ![f] = "rest"]
                 /\ out' = [out EXCEPT ![f] = @ \o Tail(p)]
                 /\ UNCHANGED left
  /\ UNCHANGED <<want, up, ended, queue, listenVars, accept_conn>>

ReadData(f) ==
  /\ fpc[f] = "rest"
  /\ \E p \in Arrived(f) :
       /\ down' = [down EXCEPT ![f] = Drop(@, Len(p))]
       /\ out' = [out EXCEPT ![f] = @ \o p]
  /\ UNCHANGED <<fpc, want, up, left, ended, queue, listenVars, accept_conn>>

\* read returns 0: an error before the status byte, the end of the file after.
ReadEnd(f) ==
  /\ fpc[f] \in {"first", "rest"}
  /\ ended[f] = "eof"
  /\ down[f] = <<>>
  /\ Returns(f, IF fpc[f] = "rest" THEN "ok" ELSE "error")
  /\ UNCHANGED <<want, out, up, down, ended, queue, listenVars, accept_conn>>

ReadError(f) ==
  /\ fpc[f] \in {"first", "rest"}
  /\ ended[f] = "rst"
  /\ Returns(f, "error")
  /\ UNCHANGED <<want, out, up, down, ended, queue, listenVars, accept_conn>>

\* The output cannot be written, or the fetching process is interrupted,
\* perhaps within the request.
FetcherDies(f) ==
  /\ fpc[f] \in {"connect", "request", "first", "rest", "other"}
  /\ Returns(f, "error")
  /\ \/ UNCHANGED up
     \/ fpc[f] = "request" /\ \E p \in PrefixesOf(<<FETCH>> \o want[f]) :
                                up' = [up EXCEPT ![f] = p]
  /\ UNCHANGED <<want, out, down, ended, queue, listenVars, accept_conn>>

-----------------------------------------------------------------------------
(* handle_listener                                                         *)

\* Bytes that were never read turn the close into a reset.
Closing(f) == ended' = [ended EXCEPT ![f] = IF up[f] # <<>> THEN "rst" ELSE "eof"]

Finish_Leaks_Mutant ==
  /\ lpc' = "accept"
  /\ cur' = None
  /\ collected' = None
  /\ src' = <<>>
  /\ offset' = 1
  /\ pending' = <<>>
  /\ UNCHANGED ended

\* handle_conn returns, with or without error, and the stream is dropped.
Finish ==
  /\ Closing(cur)
  /\ lpc' = "accept"
  /\ cur' = None
  /\ collected' = None
  /\ src' = <<>>
  /\ offset' = 1
  /\ pending' = <<>>

Accept(f) ==
  /\ lpc = "accept"
  /\ accept_conn
  /\ f \in queue
  /\ queue' = queue \ {f}
  /\ cur' = f
  /\ lpc' = "action"
  /\ UNCHANGED <<fetchVars, up, down, ended, collected, src, offset, pending, accept_conn>>

\* A socket option cannot be set: the connection is dropped.
AcceptDrops(f) ==
  /\ lpc = "accept"
  /\ accept_conn
  /\ f \in queue
  /\ queue' = queue \ {f}
  /\ Closing(f)
  /\ UNCHANGED <<fetchVars, up, down, listenVars, accept_conn>>

\* The loop ends: the flag was cleared, or accept failed.  Connections that
\* were not accepted are reset.
ListenerEnds ==
  /\ lpc = "accept"
  /\ lpc' = "closed"
  /\ queue' = {}
  /\ ended' = [f \in Fetchers |-> IF f \in queue THEN "rst" ELSE ended[f]]
  /\ UNCHANGED <<fetchVars, up, down, cur, collected, src, offset, pending, accept_conn>>

\* main clears the flag after EXIT.
ClearFlag ==
  /\ accept_conn
  /\ accept_conn' = FALSE
  /\ UNCHANGED <<fetchVars, up, down, ended, queue, listenVars>>

-----------------------------------------------------------------------------
(* get_action                                                              *)

\* Characters before the first NUL of a piece of the request.
BeforeNul(p) ==
  IF \E k \in 1 .. Len(p) : p[k] = NUL
    THEN SubSeq(p, 1, (CHOOSE k \in 1 .. Len(p) :
                         p[k] = NUL /\ \A j \in 1 .. k - 1 : p[j] # NUL) - 1)
    ELSE p

\* send_response, and handle_conn returns the error.
Respond(status) ==
  /\ lpc' = "respond"
  /\ pending' = <<status>>

\* The name is complete: what handle_fetch makes of it.  The empty name is the
\* shared directory itself.
Resolve(name) ==
  LET entry == IF name \in Names THEN Store[name]
               ELSE [kind |-> IF name = <<>> THEN "dir" ELSE "missing", data |-> <<>>]
  IN  CASE entry.kind = "invalid" -> Respond(INVALID_DATA) /\ UNCHANGED <<src, offset>>
        [] entry.kind = "missing" -> Respond(ERROR) /\ UNCHANGED <<src, offset>>
        [] entry.kind = "dir"     -> /\ lpc' = "fail"
                                     /\ UNCHANGED <<src, offset, pending>>
        [] entry.kind = "file"    -> /\ lpc' = "send"
                                     /\ src' = entry.data
                                     /\ offset' = 1
                                     /\ UNCHANGED pending

\* One read of the request.  The capacity is compared before the NUL is
\* looked for, and a NUL must be the last byte that was read.
ReadAction ==
  /\ lpc = "action"
  /\ \E p \in {q \in PrefixesOf(up[cur]) : Len(q) <= Buffer} :
       LET first == collected = None
           body  == IF first THEN Tail(p) ELSE p
           text  == BeforeNul(body)
           name  == (IF first THEN <<>> ELSE collected) \o text
           nul   == Len(text) < Len(body)
       IN  /\ up' = [up EXCEPT ![cur] = Drop(@, Len(p))]
           /\ \/ /\ first /\ p[1] # FETCH
                 /\ Respond(IF p[1] <= 4 THEN UNHANDLED_ACTION ELSE UNKNOWN_ACTION)
                 /\ UNCHANGED <<collected, src, offset>>
              \/ /\ first => p[1] = FETCH
                 /\ \/ Len(name) > NameCap
                    \/ nul /\ Len(name) = NameCap
                    \/ nul /\ Len(text) + 1 < Len(body)
                 /\ Respond(TOO_MUCH_DATA)
                 /\ UNCHANGED <<collected, src, offset>>
              \/ /\ first => p[1] = FETCH
                 /\ Len(name) < NameCap
                 /\ nul
                 /\ Len(text) + 1 = Len(body)
                 /\ Resolve(name)
                 /\ collected' = name
              \/ /\ first => p[1] = FETCH
                 /\ Len(name) <= NameCap
                 /\ ~nul
                 /\ collected' = name
                 /\ UNCHANGED <<lpc, src, offset, pending>>
  /\ UNCHANGED <<fetchVars, down, ended, queue, cur, accept_conn>>

\* read returns 0: nothing to do before the first byte; afterwards what was
\* collected is taken for the name.
ActionEnds ==
  /\ lpc = "action"
  /\ left[cur]
  /\ up[cur] = <<>>
  /\ IF collected = None
       THEN Finish
       ELSE Resolve(collected) /\ UNCHANGED <<ended, cur, collected>>
  /\ UNCHANGED <<fetchVars, up, down, queue, accept_conn>>

ReadTimeout_None_Mutant == FALSE

\* The read fails: three seconds in which no byte arrived (one may still be
\* on its way), or a reset.
ReadTimeout ==
  /\ lpc = "action"
  /\ Finish
  /\ UNCHANGED <<fetchVars, up, down, queue, accept_conn>>

-----------------------------------------------------------------------------
(* handle_fetch                                                            *)

\* One turn of the loop: read behind the offset, then write as many bytes as
\* were read from the start of the buffer.  The first time the buffer starts
\* with the status byte.
SendChunk ==
  /\ lpc = "send"
  /\ src # <<>>
  /\ pending = <<>>
  /\ LET read  == Min2(Len(src), Buffer - offset)
         bytes == (IF offset = 1 THEN <<SUCCESS>> ELSE <<>>) \o SubSeq(src, 1, read)
     IN  /\ pending' = SubSeq(bytes, 1, read)
         /\ src' = Drop(src, read)
  /\ offset' = 0
  /\ UNCHANGED <<fetchVars, up, down, ended, queue, lpc, cur, collected, accept_conn>>

\* Nothing was read at all: the status byte alone.
SendEmpty ==
  /\ lpc = "send"
  /\ src = <<>>
  /\ offset = 1
  /\ Respond(SUCCESS)
  /\ UNCHANGED <<fetchVars, up, down, ended, queue, cur, collected, src, offset, accept_conn>>

\* write_all: the kernel takes what fits.
Write ==
  /\ pending # <<>>
  /\ ~left[cur]
  /\ \E p \in PrefixesOf(pending) :
       /\ Len(down[cur]) + Len(p) <= Window
       /\ down' = [down EXCEPT ![cur] = @ \o p]
       /\ pending' = Drop(pending, Len(p))
  /\ UNCHANGED <<fetchVars, up, ended, queue, lpc, cur, collected, src, offset, accept_conn>>

\* Three seconds without room, or the fetcher is gone.
WriteFails ==
  /\ pending # <<>>
  /\ left[cur] \/ Len(down[cur]) = Window
  /\ Finish
  /\ UNCHANGED <<fetchVars, up, down, queue, accept_conn>>

\* The end of handle_conn.
ConnDone ==
  /\ pending = <<>>
  /\ \/ lpc = "send" /\ src = <<>> /\ offset = 0
     \/ lpc \in {"respond", "fail"}
  /\ Finish
  /\ UNCHANGED <<fetchVars, up, down, queue, accept_conn>>

-----------------------------------------------------------------------------
Fetcher(f) ==
  \/ \E n \in Names : SearchFound(f, n)
  \/ SearchFails(f)
  \/ Connect(f)
  \/ ConnectFails(f)
  \/ SendRequest(f)
  \/ SendRequestFails(f)
  \/ ReadStatus(f)
  \/ ReadData(f)
  \/ ReadEnd(f)
  \/ ReadError(f)

ServeConn ==
  \/ ReadAction
  \/ ActionEnds
  \/ ReadTimeout
  \/ SendChunk
  \/ SendEmpty
  \/ Write
  \/ WriteFails
  \/ ConnDone

Listener == ServeConn \/ \E f \in Fetchers : Accept(f) \/ AcceptDrops(f)

Finished ==
  /\ lpc = "closed"
  /\ \A f \in Fetchers : fpc[f] \in {"ok", "error"}
  /\ UNCHANGED vars

Next ==
  \/ \E f \in Fetchers : \/ Fetcher(f)
                         \/ FetcherDies(f)
                         \/ \E op \in OtherOpcodes : SendOther(f, op)
  \/ Listener
  \/ ListenerEnds
  \/ ClearFlag
  \/ Finished

Spec == Init /\ [][Next]_vars

\* The listener's thread keeps running, and leaves its loop when the flag is
\* clear.  The fetchers, and whoever else connects, may stall.
Fairness == WF_vars(Listener) /\ WF_vars(~accept_conn /\ ListenerEnds)

FairSpec == Spec /\ Fairness

FetchersRun == \A f \in Fetchers : WF_vars(Fetcher(f))

-----------------------------------------------------------------------------
(* Properties                                                              *)

\* The variables hold bytes, names and control states of the two programs.
TypeOK ==
  /\ fpc \in [Fetchers -> {"idle", "connect", "request", "first", "rest", "other", "ok", "error"}]
  /\ want \in [Fetchers -> Names \cup {None}]
  /\ out \in [Fetchers -> Seq(Nat) \cup {None}]
  /\ up \in [Fetchers -> Seq(Nat)]
  /\ down \in [Fetchers -> Seq(Nat)]
  /\ left \in [Fetchers -> BOOLEAN]
  /\ ended \in [Fetchers -> {"open", "eof", "rst"}]
  /\ queue \subseteq Fetchers
  /\ lpc \in {"accept", "action", "respond", "send", "fail", "closed"}
  /\ cur \in Fetchers \cup {None}
  /\ collected = None \/ collected \in Seq(Nat)
  /\ src \in Seq(Nat)
  /\ offset \in {0, 1}
  /\ pending \in Seq(Nat)
  /\ accept_conn \in BOOLEAN

\* What the listener's loop puts on the wire for a file, status byte apart:
\* the first write is one byte short, so the last byte of the first read is
\* left out.
Wire(data) ==
  LET k == Min2(Len(data), Buffer - 1)
  IN  IF data = <<>> THEN <<>> ELSE SubSeq(data, 1, k - 1) \o Drop(data, k)

IsPrefixOf(s, t) == Len(s) <= Len(t) /\ \A k \in 1 .. Len(s) : s[k] = t[k]

\* However reads and writes are cut, whichever connections were served before
\* and however they ended, an output file never holds anything but a prefix
\* of what is sent for the file asked for: no byte of a status, of an error
\* response or of another transfer, nothing twice or out of order.  It stays
\* empty, and the fetch is not reported successful, for what is no file.
OutputIsFromTheFile ==
  \A f \in Fetchers :
    out[f] # None /\ (out[f] # <<>> \/ fpc[f] = "ok") =>
      Store[want[f]].kind = "file" /\ IsPrefixOf(out[f], Wire(Store[want[f]].data))

\* Although send_fetch reads without a time-out, a fetch ends when its own
\* thread keeps running, also when the listener is busy, stops or drops it.
FetchEnds ==
  FetchersRun => \A f \in Fetchers : fpc[f] = "connect" ~> fpc[f] \in {"ok", "error"}

\* After EXIT the join of the listener thread returns: thanks to the timeouts
\* a peer that stays silent or does not read cannot hold the listener for ever.
ListenerStops == ~accept_conn ~> lpc = "closed"

\* main.rs:83, of FETCH: "will then attempt to retrieve that file from the
\* specified peer".  A fetch that is reported successful has the whole file.
FetchedIsTheFile ==
  \A f \in Fetchers : fpc[f] = "ok" => out[f] = Store[want[f]].data

=============================================================================
