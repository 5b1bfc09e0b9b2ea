----------------------------- MODULE MCRegistry -----------------------------
(* Small instances of Registry for TLC. *)
EXTENDS RegistryDirectory, RegistryClaims, TLC

CONSTANTS c1, c2, c3

MCFds == 5 .. 7
MCSymmetry == Permutations(Conns)

a  == <<1>>
ab == <<1, 2>>
MCNames == {a, ab}

Join(id) == [op |-> "join", len |-> 4, id |-> id]
Publish(strs) == [op |-> "publish", len |-> 4 + 2 * Len(strs), count |-> Len(strs),
                  strs |-> strs]
Search(n) == [op |-> "search", len |-> Len(n) + 1, name |-> n, eightbit |-> 0,
              tail |-> "clean"]

\* One well-formed request of each kind.
PlainRequests == {Join(1), Publish(<<a>>), Search(a)}

\* Requests that take the other paths of the handlers: a JOIN that a second
\* request was read with, two PUBLISH requests that do not parse or carry too
\* many names, SEARCH requests with trailing bytes, without NUL and with a
\* byte >= 128, and an opcode the registry does not know.
OddRequests ==
  {Join(1), Publish(<<a>>), Search(ab),
   [op |-> "join", len |-> 9, id |-> 1],
   [op |-> "publish", len |-> 9, count |-> 2, strs |-> <<ab>>],
   Publish(<<a, a, a>>),
   [Search(a) EXCEPT !.tail = "open"],
   [Search(a) EXCEPT !.eightbit = 1, !.tail = "junk"],
   [op |-> "other"]}

OnlyA == {a}

LiveRequests == {Join(1), Search(a)}
=============================================================================
