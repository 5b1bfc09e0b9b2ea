--------------------------- MODULE MCPeerSession ---------------------------
(* A small instance of PeerSession for TLC: two peers, of which the first  *)
(* shares one name more than its PUBLISH buffer holds.                     *)
EXTENDS PeerSession, TLC

CONSTANTS c1, c2

MCFds == 5 .. 6

a  == <<1>>
ab == <<1, 2>>
long == <<1, 1, 1>>
MCNames == {a, ab, long}

MCPeerId    == (c1 :> 1) @@ (c2 :> 2)
MCSharedDir == (c1 :> <<a, ab>>) @@ (c2 :> <<ab>>)

\* The first peer shares files; the second joins or registers and searches
\* for a name of which the first has published the beginning, or for one that
\* is a character too long for the registry.
MCCommands  == (c1 :> {"join", "publish"}) @@ (c2 :> {"join", "register"})
MCWanted    == (c1 :> {}) @@ (c2 :> {ab, long})
MCMaxTyped  == (c1 :> 2) @@ (c2 :> 3)

\* What the peers can have on the way, run together in one recv.
MCRequests ==
  {Coalesced(s) : s \in UNION {[1 .. k -> PeerRequests(p)] : k \in 1 .. UpCap, p \in Conns}}
=============================================================================
