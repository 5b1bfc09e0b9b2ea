------------------------------ MODULE MCCPeer ------------------------------
(* A small instance of CPeerFetch for TLC.  The fields of an answer take   *)
(* 2, 2 and 1 bytes; the last owner joined with the id 0.  One name has an *)
(* 8-bit character, one is a character too long for the registry, one     *)
(* too long for fetchBuffer as well.  The last byte of the id is not 0.    *)
(* The last directory fills the buffer of PUBLISH to the byte before last, and *)
(* one file more would not fit.                                            *)
EXTENDS CPeerFetch, TLC

CONSTANTS q1, q2, q0, plain, accent, long, longer

MCReply    == (q1 :> <<0, 1, 7, 1, 5>>) @@ (q2 :> <<0, 2, 7, 2, 6>>)
              @@ (q0 :> <<0, 0, 7, 3, 5>>)
MCNameLen  == (plain :> 98) @@ (accent :> 3) @@ (long :> 99) @@ (longer :> 100)
MCEightBit == (plain :> 0) @@ (accent :> 1) @@ (long :> 0) @@ (longer :> 0)
MCDirs     == {<<>>, <<255, 255, 255, 255, 169, 1>>, <<255, 255, 255, 255, 170>>}
MCDirEightBit == [dir \in MCDirs |-> 0]
MCContent  == (q1 :> [n \in Names |-> IF n = plain THEN <<8, 9>> ELSE None])
              @@ [q \in {q2, q0} |-> [n \in Names |-> None]]
=============================================================================
