# A verification project for EECE-446-SP-2024

The repository holds the network programs of one course. Its core is a small
peer-to-peer file sharing system: a **registry** (`program_04/registry.c`) that
knows which peer shares which file, and **peers** (`program_03`, in Rust and C)
that join it, publish the names of their files, search, and fetch files from one
another. Around it are earlier programs: an HTTP tag counter (`program_01`), the
first peers (`program_02`), and exercises (`lab_*`, `socket-*-rs`).

This directory models the core and the larger of the other programs in TLA+,
checks them with TLC on small instances, and proves with TLAPS, for every size,
the invariants that matter most of nearly every component and that the registry
implements its abstract specification.

## Inventory

| Part | State | Operations | What is hard about it | What makes it correct |
|---|---|---|---|---|
| Registry server (`program_04/registry.c`) | slot table, count, watched descriptors, `max_socket`, signal mask | accept, JOIN, PUBLISH, SEARCH, disconnect, signals, start, stop | one thread serves all clients in passes over descriptors; slots and descriptors are reused; clients reset, leave or stay silent; the limit; blocking sends | table, watched set and kernel agree; nobody is confused with an earlier client; nobody is forgotten; answers are true when decided |
| Rust peer, command loop (`program_03/src/main.rs`, `join`, `register`, `publish`, `search`) | `joined_registry`, the connection, the listener's handle and flag | the commands | requests without answer run together in one recv; a search waits without time-out | answers belong to their searches; lists arrive whole; a search returns |
| Peer file transfer (`fetch.rs`, `listener.rs`) | output file, request, file offset, two byte streams | request, status, chunks, time-outs | arbitrary reads and writes, a serial listener, interrupted transfers | output holds only bytes of the file, in order; fetches and listener end |
| h1-counter (`program_01`) | buffer, counters | recv, count | segments and buffers cut the page anywhere | bytes accounted for, no tag counted twice, count independent of segments |
| C peers (`program_02/peer.c`, `program_03/peer.c`) | the connection; the address of the last successful search in globals | JOIN, PUBLISH, SEARCH, FETCH, EXIT | an answer is read by three recv calls; FETCH goes on after a search that failed; stale globals | what is shown, contacted and saved is what the registry and that peer sent; commands return |
| Calculation client and server (`lab_03`) | two buffers and a count each | connect, prompt, send, receive, accept, reply | loops over send and recv that forget where they are; one client at a time; SIGPIPE | both sides stay in the same exchange; sums are right; clients are served in turn |
| Select server (`lab_10/server.c`) | watched set, `max_socket`, ready set | accept, receive, close | the walk over ready descriptors changes the set, and numbers are reused | the watched set is the open descriptors, none above `max_socket`; nothing in the walk blocks; everybody is heard |
| First Rust peer (`program_02/src`), other exercises (`lab_03/http_start.c`, `lab_04`, `lab_10/echo.c`, `socket-*-rs`) | little | request and answer loops | ends of streams | not modelled |
| Logging, `print_buffer`, error texts | none | output | nothing | not modelled |

The parts interact only by TCP: peers hold one connection to the registry each,
and open one to the listener of another peer per FETCH. Within a Rust peer the
command loop and the listener thread share the flag `accept_conn`.

## Modules

| Module | Models |
|---|---|
| `Registry` | `registry.c`: `main`'s loop, `server_accept`, `handle_client`, the three handlers, `search_client_files`, `send_bytes`, start-up, signals, shutdown |
| `Directory` | what the registry promises its clients: connections online, their ids and names, the answers owed |
| `RegistryDirectory` | the refinement mapping from `Registry` to `Directory` |
| `RegistryClaims` | what comments of `registry.c` say where the code does something else |
| `RegistryProofs` | the theorems about the table of `Registry`, and that it implements `Directory` |
| `PeerSession` | the peers' command loop composed with `Registry` through TCP streams |
| `FileTransfer` | `send_fetch` and the listener thread |
| `H1Counter` | `h1-counter.c` |
| `SelectServer` | `lab_10/server.c` |
| `SelectServerProofs` | the theorems about `SelectServer` |
| `Calc` | `lab_03/client.c` and `lab_03/server.c` together |
| `CPeer` | `program_02/peer.c`, with the registry as far as one peer sees it |
| `CPeerFetch` | `program_03/peer.c`: `CPeer` with FETCH |
| `PeerSessionProofs`, `CalcProofs`, `FileTransferProofs`, `CPeerProofs`, `H1CounterProofs` | the theorems about `PeerSession`, `Calc`, `FileTransfer`, `CPeerFetch` and `H1Counter` |
| `ByteSequences` | lemmas those five share: induction over the natural numbers, byte sequences cut and put together |
| `MCRegistry`, `MCPeerSession`, `MCFileTransfer`, `MCH1Counter`, `MCSelectServer`, `MCCalc`, `MCCPeer` | the small instances for TLC |

Definitions whose name ends in `_Mutant` are plausible mistakes in the
definition that follows them. No specification uses them; for every property
that a run checks, `PROJECT.json` names one with which that property fails, so
that it is known to say something about the code.

### Registry

The variables are the fields of `struct server` and `struct client`, plus the
kernel's side: `fdconn` (which connection is behind a descriptor), `conn`,
`inbox` (what the next `recv` returns), `gone`, `outbox`. A connection is a model
value that also stands for the client's address, since that is what SEARCH hands
out. `accept` returns the lowest free descriptor, as POSIX says, so descriptors
are reused in the model as they are in the program. `accept` may also fail at any
time, for want of descriptors or memory, and leave the connection queued
(`AcceptFails`), so that the next pass finds the listening socket ready again. The
lengths from which PUBLISH and SEARCH are
refused are the constants `PublishLimit` and `SearchLimit`.

One pass of `main` is `SelectReady`, which fills `call_set`, and one step per
descriptor in ascending order (`Dispatched`): `server_accept` or `handle_client`.
The handlers are atomic, as there is one thread, except for `send_bytes`: each
reply of `handle_search` is a step of its own (`sending`), because `send` blocks
while the client does not read. Undefined behaviour is a choice: a name that is
stored without terminator may or may not match (`MayMatch`, `MustMatch`), an
unterminated search runs on into old bytes (`SearchedFor`), a failed `calloc` of
the list crashes (`PublishCrashes`), `FD_SET(-1)` gives a deaf or a dead server.

Things the model takes over from the code as they are, and that a reader of the
code may not expect: `handle_join` compares the id with that of the first active
slot only, so ids are not unique; `clear_client` leaves `type`; a refused
connection falls through into the table; a published name matches every search
that begins with it; a malformed search is answered more than once; a search by
a client that has not joined, or of 100 bytes and more, is not answered at all; a
PUBLISH of exactly 1200 bytes is refused as longer than 1200.

### Directory

`Directory` states the match of a name and a search by itself (`Matches`), not
with the operator of `Registry`, and a publish puts down one of `Lists`: in the
refinement the lists of the requests that parse to the end and are not too long
(`WholeLists`), so that a list of which some names were lost is no step of it.
It allows the registry to collapse at any moment, since the code has several ways
to end (SIGPIPE, a failed `calloc`, `EBADF`), and it lets ids coincide, since the
registry does.

### PeerSession

`PeerSession` extends `Registry` and replaces its free environment by peers that
run `main.rs`. JOIN, REGISTER and PUBLISH are written without waiting, so they
queue in `up`, and `Arrive` hands the registry any number of them as one recv
(`Coalesced`: the first request with the bytes of the others behind it). A
SEARCH, alone or as the first half of FETCH, waits in `read_exact`. The registry
does not know REGISTER (opcode 4), yet `joined_registry` is set by it.
Requests that TCP splits in two are not modelled: they have at most 1200 bytes
and are written with one call on an otherwise idle connection. Nor is the cut
that `recv` makes in requests that run together beyond its 2048 bytes. In both
cases the registry would take the rest for a request of its own, whose operation
is whatever byte it begins with. A name of 100 bytes and more with its NUL is
refused without an answer (registry.c:830); the instance has one, and
`SearchReturns` is about the others. Signals to the
registry are left out here; they are in `Registry`. `SentAssumption` ties the two
modules' constants together: the requests that `Registry` is prepared for include
everything the peers can send, run together in any way.

### FileTransfer

Two byte streams per connection, `up` and `down`. A read returns any non-empty
prefix of what has arrived, up to the buffer; `write_all` is taken in pieces that
fit the window. The registry's answer is an input (`SearchFound`,
`SearchFails`). The listener accepts one connection at a time; its time-outs may
fire whenever a read or a write could wait (`ReadTimeout`, `WriteFails`). Closing
a connection with unread bytes resets it. A name of exactly `NameCap` characters
is refused, and the first chunk loses a byte, as in the code. Not modelled: a
failed `set_nonblocking` on the listening socket, names with bytes above 127.

### H1Counter

`count_occurances` is a recursive function that follows the shared index of the
two loops, so it skips a character after a match as the code does. `Recv` takes
any part of the rest that fits the buffer.

### SelectServer

The variables are `main`'s two sets and `max_socket`, and the kernel's side as in
`Registry`. `Select` fills `call_set`, and each further step handles its lowest
descriptor: `Accept`, `Receive`, or the close after a recv that returned 0 or -1.
Unlike the registry's, the listening descriptor may lie anywhere among the
others. `accept` may fail for want of descriptors. Data is a number of pieces:
what is received is only printed. `find_max_fd` is never called and not modelled.

### Calc

Both programs run the same loops, so send and recv are written once for either
end (`Out`, `In`). The wire is a byte stream in each direction; a recv takes any
non-empty part of what has arrived, and *always into the start of the buffer*;
`send_bytes` after a short send increments the first byte (`Advance`) instead of
moving the pointer. Operands and sum are encoded in big-endian bytes of `Base`
values, and the narrow operands overflow into the wide sum. `ear` is what TCP has
told a reader about the writer, so a write to a peer that has gone is survived
once and then raises SIGPIPE. `accepting` is what `accept` does with `client_len`,
which the server does not initialise: it works, or, while the value is negative,
drops every new connection. Each accept also returns the length of the address
there, which for an IPv6 peer is more than `client_addr` has room for; the next
one may then write behind it, over a part of `recv_buffer` or over the listening
socket's number (which shows at the next accept, `AcceptFails`: no connection is
taken any more). A client that the
server hangs up on (`CloseClient`) sees the end of the stream that `shutdown`
sends, or a reset if bytes of its were left unread. The byte totals that `session_read` prints are left out.

### CPeer and CPeerFetch

A request on the way is its opcode, its length and the name asked for; an answer
is its bytes, as they are read in fields. `Registry` hands over any number of
requests as one recv: the first is acted on, with the length of all, and the rest
is lost (`swallowed`). The history variable `torn` records that a recv returned
less than its field or that the registry sent more than one answer: from then on
fields are taken from the wrong place, which the code has no means to notice.
The registry sends one for every 8-bit byte of what it received, the requests
behind the SEARCH included (`EightBits`). The peer may start in the slot of a
client that had joined (`joined` is arbitrary in `Init`), since the registry does
not reset it. At the end of its input the peer looks for a newline for ever
(`EndOfInput`), and a SEARCH or FETCH whose name cannot be read any more takes
the one that its uninitialised buffer happens to spell.
`CPeerFetch` adds the globals that only a search with a result sets (`Remember`),
the connection to the address in them, and the loop that writes what is received,
result code of the first chunk apart. A name of 100 characters and more overruns
`fetchBuffer` (`OverrunFetchBuffer`): the copy goes unnoticed, or something fails,
or the process ends. The contacted peer may refuse, send the
file, a part of it or an error code, and close, reset or stall.

## Runs

Passing runs:

| Run | Instance | Shows |
|---|---|---|
| `registry_table` | 3 connections (symmetric), 3 slots, so the limit of 2 is reached; 3 descriptors; one request of each kind | the six table properties, 820 000 states |
| `registry_directory` | 2 connections, one without IPv4 address; 9 requests incl. malformed ones; one name a search may overlook | the registry implements `Directory`, 700 000 states |
| `registry_live` | 2 connections, JOIN and SEARCH; `accept` may fail over and over | requests read, departures noticed, signal obeyed; connections taken once `accept` recovers |
| `peer_session` | 2 peers: one joins and publishes one name less than it shares, the other joins, registers and searches, one time for a name longer than the registry admits (limits scaled down); 2 and 3 commands; 2 requests on the way | answers in step and truthful, lists whole, hangs explained, `SearchReturns`; no other standstill (`Quiet`), 490 000 states |
| `file_transfer` | 2 fetchers, 7 names (file of 6 bytes, empty file, directory, missing, forbidden, too long, as long as the limit), buffer 3, window 2 | `OutputIsFromTheFile`, `FetchEnds`, `ListenerStops` |
| `h1_counter` | every page of up to 6 characters over 3, a tag of 2, buffers 0, 2, 3, 8, both modes | the four properties, 115 000 states |
| `select_server` | 3 connections, 2 descriptors, one on either side of the listening one, so that `accept` runs out of them; 2 pieces of unread data | the watched set and its bound, the walk, departures noticed and connections accepted |
| `calc` | 2 clients, bytes of 4 values, operands of 1 byte and sums of 2; two pairs of numbers, one of which outgrows the operands | the exchange stays in step, sums, SIGPIPE, `WaitsEnd`, `NextInTurn`, 240 000 states |
| `c_peer` | 3 commands, 4 names (98 and 99 characters, on either side of the limit, 100 that overrun the buffer of FETCH, and one with an 8-bit character), 3 owners, of which one joined with the id 0, fields of 2, 2 and 1 bytes, a listing of 1199 bytes and one name more | the six properties, 900 000 states |

The bounds are the smallest at which the cases meet: a table with a spare slot
and two usable ones, so that a slot is reused while another client is served and
the limit is reached; a file of several buffers; pages longer than two buffers.
The number of commands a user types (`MaxTyped`) and of requests on the way
(`UpCap`) are bounds of the model, named in `PeerSession`; so are the unread pieces
(`UnreadCap`) of `SelectServer` and the commands (`MaxTyped`) of `CPeer`. A fetch
after a fetch after a search takes three commands, in a slot that starts as joined
or after JOIN two of them, and a stale address or a shifted field shows up with
these. `Base` and the widths of `Calc`
keep what matters of 256, 4 and 8: a sum of two operands needs one byte more.

Each module keeps a `TypeOK` (`FetchTypeOK`, `SessionTypeOK`) that states the
ranges of its variables. No run lists those of the modules that a proof is about:
there the types are part of the inductive invariant.

Runs that end in a violation, each of something the repository says of itself:

| Run | Says | The code |
|---|---|---|
| `claim_connected` | registry.c:85, `all_socks` is "all currently connected sockets" | a refused connection's closed descriptor is watched; the next `pselect` fails and the server ends |
| `claim_unknown` | registry.c:101 "resets and frees allocated data for a client" | a new client in a used slot is already `CLIENT_JOINED` |
| `claim_fetched` | main.rs:83, FETCH "will then attempt to retrieve that file" | the last byte of the first chunk is never sent |

Other places where the code is not what is said of it, which the models take as the
code has them:

* lab_10/server.c:47 says that `max_socket` "should always contain the socket fd with
  the largest value". It never decreases, so it is above all of them once that one is
  closed. `WatchedAreOpen` checks the bound that `select` needs, and not this.
* lab_03/client.c:21 and server.c:23 say of `send_bytes` "send a buffer in its
  entirety". After a short send it sends the buffer from its start again, with its
  first byte changed (`Advance`), so the properties of `Calc` about contents leave out
  the calculations in which a send was short.
* registry.c:87 calls `max_socket` "the currently highest socket value", with the
  same exception.

### Fairness

`registry_live` assumes weak fairness of the server's thread (one process that
the kernel schedules) and of the clients' reading of answers; without the latter
one client that never reads blocks `send` and with it everybody. That `accept`
succeeds at last when it is tried again and again (`AcceptRecovers`) is a hypothesis
of `ConnectionsAreTaken` only; the other properties hold though it fails for ever.
`peer_session` does not assume the latter: that peers read their answers is
their code, of which only "the thread runs" and "TCP delivers" are assumed, and
no user is obliged to type anything. `file_transfer` assumes only that the
listener's thread runs, which its time-outs justify: no read or write of it lasts
for ever. `FetchEnds` takes the fetchers' threads to run as well, as a hypothesis
of the property. `h1_counter` assumes that the remote host sends its page and
closes; errors may happen but are not needed. `select_server` assumes that the
one thread runs, and nothing of the clients, who may keep the low descriptors
busy for ever. `calc` assumes that each program goes on when it can; users may
stop to type and anybody may be killed. `c_peer` assumes that the peer's thread
and the registry run and that TCP delivers; the contacted peer may stall for
ever, and `CommandsReturn` says so.

## What is proved

Every theorem holds for all values of the constants that satisfy the named
assumptions of the modules: sizes are natural numbers in their ranges, names,
pages and files are sequences of bytes, requests are well-shaped records, model
values such as `None` are none of the real ones. None of the assumptions is about
behaviour. `PROJECT.json` lists each theorem with the property it states.

### Registry: the table (`RegistryProofs`)

* `TypeCorrect`: `Spec => []TypeOK`.
* `TableConsistent`: `Spec => []TableInvariant`.
* `DispatchAlwaysFinds`: the lookup that `main` calls "a logic bug somewhere" when
  it fails, never fails.
* `NoDescriptorLeaks`: an open descriptor belongs to exactly one active slot, and
  the address there is its peer's.
* `CountStaysAccurate`: `active_clients` is the number of active slots.
* `NothingIsInherited`: a freed slot is blank but for the type.
* `NobodyIsForgotten`: active clients are watched, below `max_socket`.
* `BoundedConnections`: at most `max_conn - 1` connections are open.

None of the six table properties is inductive. Their common strengthening is
`TableInvariant`. Its delicate part is `PassIsSound`: after a connection was
refused at the limit, a slot holds a *closed* descriptor. If the kernel could hand
that number out again while the slot is active, two slots would hold one socket.
It cannot, because the pass began with `pselect` accepting every watched
descriptor, the listening socket is the lowest and is served first and once per
pass, and the next `pselect` sees the closed descriptor and ends the server:
hence "as long as the listening socket is still to be served, every active slot
is open". `LastSlotIsSpare` uses the same fact to show that only the closed
descriptor can take the last slot, so the count never passes `max_conn`. The
proof has one lemma per action.

### Registry: the refinement (`RegistryProofs`)

`RegistryIsADirectory`: `Spec => ImplementsDirectory`, that is, every behaviour of
the registry is, under the mapping of `RegistryDirectory`, one of `Directory`.
The mapping takes `online` from the open descriptors, and the id and names of a
connection from its slot. Beyond `TableInvariant` it needs `DirectoryInvariant`:
an open connection was accepted and is behind one descriptor; the slot of a
descriptor that was closed at the limit shares no names, so no search finds it;
answers are owed to a connection. One lemma per action shows which step of
`Directory` it is, or that it changes nothing there. The heart is that a client
has exactly one slot (from `NoDescriptorLeaks`), so that writing to the slot of a
descriptor changes one client of the directory only, and that the search loop,
which looks at slots, decides only answers that the directory allows. That the
names in a slot are a whole list, and none of the names that were read before a
PUBLISH failed, is the lemma `PublishedFiles`; that the comparison of the search
loop and the directory's own `Matches` agree is `SameMatch`.

### PeerSession (`PeerSessionProofs`)

`SessionIsARegistry`: a session of peers satisfies the registry's own `Spec`, so
that `TypeOK`, `TableInvariant` and `DirectoryInvariant` hold in it without a new
proof. `SessionConsistent`: the invariant `SessionInv` is kept by every step of the
peers, of TCP and of the registry, for any number of peers, slots, names and
requests on the way. From it follow `AnswersStayInStep`, `AnswersStayTruthful`,
`ListsStayWhole` and `HangsStayExplained`. None of the four is inductive; what
`SessionInv` adds is

* of each peer (`PeerInv`): a SEARCH on its way is the last request, and once it
  has arrived nothing is behind it (`SearchIsLast`, `SearchIsAlone`); a reply has
  used up the SEARCH it answers (`OneReply`); the JOIN and the PUBLISH that have
  arrived carry the peer's own id and names, whatever was run together with them
  (`RequestIsOwn`); a connection that is done has nothing left to serve
  (`EndIsClean`); and the reason why a peer waits is settled when the registry
  drops its request, and stays settled (`WaitIsExplained`);
* of the slots (`SlotInv`): an id or a list in a slot is that of the peer whose
  address is there;
* `RefusedAreDone`: the slot that was given to a descriptor closed at the limit
  holds the address of a peer which was refused. Without it such a slot could hold
  the address of a connected peer with the type of an earlier one, and "not
  recorded" would not follow from the type of the slot that is served.

A frame lemma (`KeptInv`) covers the peers that a step is not about. That a
PUBLISH carries a beginning of the directory's listing (`FittingIsPrefix`) is
proved by induction over the number of names.

### SelectServer (`SelectServerProofs`)

`TypeCorrect`; `ServerConsistent`, the inductive invariant `ServerInvariant`;
`SelectAsksAboutAllAndOnlyOpen`, that the watched set is exactly the open
descriptors and the listening one, and none of them above `max_socket`, which is
only a bound; and `NeverBlocksInTheWalk`, that what
select reported is still readable when the walk gets to it. The last needs that no
connection is behind two descriptors: reading one of them would empty the other,
which may still be in `call_set`. A number that is closed in the walk has been
passed already, and a new connection is not put in `call_set`; so a reused number
never stands for a client that has sent nothing. `WatchedAreOpen` in turn needs
that nothing is open before the start.

### Calc (`CalcProofs`)

`CalcIsInvariant`, `TypeCorrect`, `AlwaysInStep`, `UncutSumsAreRight` and
`OnlyACutReplyKills`. The inductive invariant says, of each client, how many bytes
of the request and of the reply are written, under way and read, and whose turn it
is; while nothing was cut they are bytes of *this* request and *this* reply, in
order. A frame lemma (`Untouched`) covers the clients that a step is not about.
`OnlyACutReplyKills` speaks of the reply that is being sent: before its first byte
the client waits with an empty stream, and a client that ends then is a FIN to the
server, not a reset; so a reset, or a write after one, finds a part of the reply
sent already, which takes a short send.
`UncutSumsAreRight` also needs that decoding undoes encoding and that the sum of
two operands fits the reply: `Encode` and `Decode` are recursive functions, and
both facts are proved by induction over the number of bytes.

### FileTransfer (`FileTransferProofs`)

`TransferConsistent` (the invariant `TransferInv`), `TypeCorrect` and
`OutputComesFromTheFile`. The idea of the invariant: *what a fetcher was sent and
what the listener still holds back for it are together one complete answer*, an
error status or the success status and the bytes of the file as they are sent
(`Full`; the byte that the first chunk loses is missing from it). To know that
the answer is that of the file asked for, the invariant follows the request as
well: what was collected and what is under way is the name with its terminator,
so the name that is opened is the one that was asked for, however the reads cut
it and whoever was served before.

### CPeer and CPeerFetch (`CPeerProofs`)

`ConnectionConsistent` and `FileConsistent` are the two inductive invariants; from
them follow `AnswersStayInStep`, `ContactsWereNamed`, `SilenceHasAReason` and
`FetchedFileIsThePeers`; `PublishFits` is a fact about the requests.

* `ConnInv`, unless `torn`: a SEARCH on the way is the last request and its peer
  waits (`SearchIsLast`); the fields received so far and what is under way are
  together one answer (`AnswerIsWhole`); a peer that waits with nothing under way
  has a reason (`SilenceIsExplained`); and the remembered address is one of an
  answer, that of the last answer if it named a peer (`TargetIsNamed`).
* `FileInv`: what was written and what is under way is a start of the contacted
  peer's file, and all of it if that peer sent all.
* `PublishFits` bounds the request that `publish` writes, for every directory, by
  induction over the rounds of its loop: the limit of the loop is below the 1200
  bytes that the registry admits.

`ContactsAreNamed` compares the contacted address with the answer only where the
answer is usable. An answer with the id 0 is "not found" to the peer though the
registry hands out the address of a client that joined with that id; FETCH then
goes on with the address of an earlier search. The instance of `c_peer` has such
an owner.

### H1Counter (`H1CounterProofs`)

`CounterConsistent`, `EveryByteIsAccounted`, `CountIsALowerBound` and
`SegmentsDoNotMatter`, for every page, tag, buffer size and segmentation. The
invariant `H1Inv`: what is received, in the buffer and still to come are slices of
the page; a buffer that is filled starts at a multiple of its size; and the count
belongs to the bytes before the buffer. What `count_occurances` returns is bounded
by induction from the end of the text backwards: a match of the inner loop is a
tag at that index, and the loop goes on behind it, so the tags that are counted
are different ones. A tag lies in one buffer or across two, so the bounds of the
buffers add up. For `SegmentsDoNotMatter` the sum over the pieces is shown to grow
by exactly the piece that is searched next, whatever the recv calls returned.

### How the inductions are done

The provers cannot instantiate an induction theorem that takes a predicate, so
`ByteSequences` proves induction with a *set* in place of the predicate, from the
well-foundedness of the natural numbers. A recursive function `f[i \in S] == ...`
is a CHOOSE, so each proof first shows that such a function exists, by the same
induction, and then uses its equation.

### Only model-checked

* All liveness properties and what depends on ENABLED: TLAPS has no reasoning
  about fairness. These are the properties of `registry_live`, and `SearchReturns`,
  `FetchEnds`, `ListenerStops`, `Terminates`, `WaitsEnd`, `NextInTurn`,
  `CommandsReturn`, `ClosedAreNoticed` and `QueuedAreTaken`.

The inductive invariants were checked by TLC on the instances of the runs before
they were proved; as they are proved, no run lists them.

## Not modelled

* The listener threads of the Rust command loop: a second REGISTER overwrites the
  handle of the first thread, which EXIT then does not wait for. `FileTransfer`
  has one listener, which a second one does not disturb (own port, own socket).
* The end of standard input as a step of its own in the Rust peer, whose prompt
  loop spins there: `OtherCommand` is that step, and no command is obliged to
  follow it. (In the C peer it is `EndOfInput`.)
* Requests to the registry that TCP splits, and the cut of `recv` after 2048 bytes
  (see `PeerSession`).
* A client of the registry that never reads (`registry.c:984`) stalls everybody;
  the fairness of `registry_live` excludes it, since the code does not handle it.
* `program_02/src/main.rs`: the Rust peer before REGISTER and FETCH; its commands
  are those of `PeerSession`.
* `socket-client-rs`, `socket-server-rs`: an echo server and a client that writes
  a message and reads as much back; an exercise apart from the system.
* `lab_03/http_start.c`, `lab_04`: one request is sent and the answer printed or
  copied until the other side closes; `lab_10/echo.c`: terminal input with a
  time-out.
* Logging and printing, option and address parsing, error texts.

## Plan

1. Done: `Registry`, `Directory` and the refinement, `FileTransfer`, `H1Counter`,
   `PeerSession`, `SelectServer`, `Calc`, `CPeer`; a proof of every invariant that a
   run checks.
2. Left: the sharpening of the proved invariants where a reader of the code would
   ask for more, and the liveness properties, which stay with TLC.
