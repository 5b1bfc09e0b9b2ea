----------------------------- MODULE Directory -----------------------------
(***************************************************************************)
(* What the registry promises its clients, without slots, descriptors,     *)
(* passes or buffers: a directory of the connections that are online, the  *)
(* id each gave, the names each shares, and the answers it owes.           *)
(*                                                                         *)
(* An answer is decided against the directory as it is at that moment.  It *)
(* names a client that is online and shares a matching name, together with *)
(* that client's current id; "not found" is given only when no client is   *)
(* sure to be found, or when a client found has no IPv4 address to give.   *)
(***************************************************************************)
EXTENDS Integers, Sequences, FiniteSets

CONSTANTS
  Conns,              \* connections
  V4,                 \* those with an IPv4 address
  Ids,                \* client ids
  Names,              \* file names
  Sure,               \* names a search never overlooks
  Lists,              \* the sets of names that whole PUBLISH requests carry
  Misses,             \* numbers of misses a malformed search can cost
  Capacity,           \* most connections online at a time
  None

VARIABLES
  online,   \* set of connections
  ident,    \* the id each gave; 0 before
  shared,   \* the names each shares
  due       \* answers decided and not yet sent, per connection

dvars == <<online, ident, shared, due>>

Miss == [id |-> 0, addr |-> None]

\* A shared name answers every search that begins with it.
Matches(f, find) == Len(f) <= Len(find) /\ SubSeq(find, 1, Len(f)) = f

Holders(find) == {c \in online : \E f \in shared[c] : Matches(f, find)}

SureHolders(find) == {c \in online : \E f \in shared[c] : f \in Sure /\ Matches(f, find)}

Answers(find) ==
  {[id |-> ident[c], addr |-> c] : c \in Holders(find) \cap V4}
    \cup (IF SureHolders(find) = {} \/ Holders(find) \ V4 # {} THEN {Miss} ELSE {})

DInit ==
  /\ online = {}
  /\ ident = [c \in Conns |-> 0]
  /\ shared = [c \in Conns |-> {}]
  /\ due = [c \in Conns |-> <<>>]

Arrive(c) ==
  /\ c \notin online
  /\ Cardinality(online) < Capacity
  /\ online' = online \cup {c}
  /\ UNCHANGED <<ident, shared, due>>

\* A client that leaves is forgotten altogether.
Leave(c) ==
  /\ c \in online
  /\ due[c] = <<>>
  /\ online' = online \ {c}
  /\ ident' = [ident EXCEPT ![c] = 0]
  /\ shared' = [shared EXCEPT ![c] = {}]
  /\ UNCHANGED due

Join(c, id) ==
  /\ c \in online
  /\ ident' = [ident EXCEPT ![c] = id]
  /\ UNCHANGED <<online, shared, due>>

\* PUBLISH replaces the whole list, by all the names of one request.
Publish(c, F) ==
  /\ c \in online
  /\ shared' = [shared EXCEPT ![c] = F]
  /\ UNCHANGED <<online, ident, due>>

\* A search from c; a malformed one is owed misses as well as its answer.
Search(c, find, misses) ==
  /\ c \in online
  /\ due[c] = <<>>
  /\ \E r \in Answers(find) :
       due' = [due EXCEPT ![c] = Append([k \in 1 .. misses |-> Miss], r)]
  /\ UNCHANGED <<online, ident, shared>>

\* The oldest answer owed to c is sent.
Send(c) ==
  /\ due[c] # <<>>
  /\ due' = [due EXCEPT ![c] = Tail(@)]
  /\ UNCHANGED <<online, ident, shared>>

\* The connection turned out to be dead.
GiveUp(c) ==
  /\ due[c] # <<>>
  /\ due' = [due EXCEPT ![c] = <<>>]
  /\ UNCHANGED <<online, ident, shared>>

\* The process ends.
Collapse ==
  /\ online' = {}
  /\ ident' = [c \in Conns |-> 0]
  /\ shared' = [c \in Conns |-> {}]
  /\ due' = [c \in Conns |-> <<>>]

DNext ==
  \/ \E c \in Conns : \/ Arrive(c)
                      \/ Leave(c)
                      \/ \E id \in Ids : Join(c, id)
                      \/ \E F \in Lists : Publish(c, F)
                      \/ \E find \in Names, misses \in Misses : Search(c, find, misses)
                      \/ Send(c)
                      \/ GiveUp(c)
  \/ Collapse

DSpec == DInit /\ [][DNext]_dvars

=============================================================================
