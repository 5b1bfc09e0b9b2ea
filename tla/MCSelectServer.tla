--------------------------- MODULE MCSelectServer ---------------------------
(* A small instance of SelectServer for TLC: the listening descriptor lies *)
(* between those of the clients, and there are fewer than connections.     *)
EXTENDS SelectServer

CONSTANTS c1, c2, c3

MCFds == {3, 5}
=============================================================================
