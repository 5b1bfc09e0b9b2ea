---------------------------- MODULE MCH1Counter ----------------------------
(* Small instances of H1Counter for TLC: every page over two characters of *)
(* the tag and a third, with a tag of two characters.                      *)
EXTENDS H1Counter

Texts(n) == UNION {[1 .. k -> 1 .. 3] : k \in 0 .. n}
MCPages == Texts(6)
MCNeedle == <<1, 2>>
=============================================================================
