----------------------------- MODULE H1Counter -----------------------------
(***************************************************************************)
(* src/program_01/h1-counter.c: requests a page and counts the <h1> tags   *)
(* in the answer, one buffer at a time.  By default a buffer is filled by  *)
(* several recv calls before it is searched; with --partial-buffer what    *)
(* one recv returns is searched.                                           *)
(*                                                                         *)
(* Definitions whose name ends in _Mutant are plausible mistakes in the    *)
(* definition that follows them; no specification uses them.               *)
(***************************************************************************)
EXTENDS Integers, Sequences, FiniteSets

CONSTANTS
  Pages,        \* answers of the remote host, as sequences of bytes
  needle,       \* the tag
  BufferSizes   \* values of --buffer-size

ASSUME H1Assumption ==
  /\ Pages \subseteq Seq(Nat)
  /\ needle \in Seq(Nat) /\ needle # <<>>
  /\ BufferSizes \subseteq Nat

VARIABLES
  pc,            \* "start", "read", "done" or "failed"
  page,          \* the whole answer
  rest,          \* the part of it that has not been received
  buffer_len,    \* --buffer-size
  fill_buffer,   \* FALSE with --partial-buffer
  buffer,        \* the first fill_read bytes of the buffer
  needle_count,
  total_read

options == <<page, buffer_len, fill_buffer>>
vars == <<pc, page, rest, buffer_len, fill_buffer, buffer, needle_count, total_read>>

-----------------------------------------------------------------------------
(* count_occurances                                                        *)

\* How far the inner loop gets from index i.
CheckRead(haystack, i) ==
  CHOOSE m \in 0 .. Len(needle) :
    /\ i + m - 1 <= Len(haystack)
    /\ \A k \in 1 .. m : haystack[i + k - 1] = needle[k]
    /\ m < Len(needle) /\ i + m <= Len(haystack) => haystack[i + m] # needle[m + 1]

count_occurances_Partial_Mutant(haystack) ==
  LET from[i \in 1 .. Len(haystack) + Len(needle) + 1] ==
        IF i > Len(haystack) THEN 0
        ELSE IF haystack[i] # needle[1] THEN from[i + 1]
        ELSE LET m == CheckRead(haystack, i)
             IN  (IF m = Len(needle) \/ i + m > Len(haystack) THEN 1 ELSE 0) + from[i + m + 1]
  IN  from[1]

\* The inner loop advances the index of the outer one, which then adds one
\* more: the character after a match, or the one that ended it, is skipped.
count_occurances(haystack) ==
  LET from[i \in 1 .. Len(haystack) + Len(needle) + 1] ==
        IF i > Len(haystack) THEN 0
        ELSE IF haystack[i] # needle[1] THEN from[i + 1]
        ELSE LET m == CheckRead(haystack, i)
             IN  (IF m = Len(needle) THEN 1 ELSE 0) + from[i + m + 1]
  IN  from[1]

-----------------------------------------------------------------------------
(* main                                                                    *)

Init ==
  /\ pc = "start"
  /\ page \in Pages
  /\ rest = page
  /\ buffer_len \in BufferSizes
  /\ fill_buffer \in BOOLEAN
  /\ buffer = <<>>
  /\ needle_count = 0
  /\ total_read = 0

\* connect_socket and the request.
SendRequest ==
  /\ pc = "start"
  /\ pc' \in {"read", "failed"}
  /\ UNCHANGED <<options, rest, buffer, needle_count, total_read>>

Recv_NoReset_Mutant ==
  /\ pc = "read"
  /\ \E k \in 1 .. Len(rest) :
       LET filled == buffer \o SubSeq(rest, 1, k)
       IN  /\ Len(filled) <= buffer_len
           /\ rest' = SubSeq(rest, k + 1, Len(rest))
           /\ total_read' = total_read + k
           /\ IF fill_buffer
                THEN buffer' = filled
                ELSE buffer' = <<>>
           /\ needle_count' = needle_count +
                (IF fill_buffer /\ Len(filled) < buffer_len THEN 0 ELSE count_occurances(filled))
  /\ UNCHANGED <<pc, options>>

\* One recv.  What is received is added to the buffer, and counted when the
\* buffer is full or need not be.
Recv ==
  /\ pc = "read"
  /\ \E k \in 1 .. Len(rest) :
       LET filled == buffer \o SubSeq(rest, 1, k)
       IN  /\ Len(filled) <= buffer_len
           /\ rest' = SubSeq(rest, k + 1, Len(rest))
           /\ total_read' = total_read + k
           /\ IF fill_buffer /\ Len(filled) < buffer_len
                THEN buffer' = filled /\ UNCHANGED needle_count
                ELSE /\ buffer' = <<>>
                     /\ needle_count' = needle_count + count_occurances(filled)
  /\ UNCHANGED <<pc, options>>

Finish_Unfilled_Mutant ==
  /\ pc' = "done"
  /\ UNCHANGED <<options, rest, buffer, needle_count, total_read>>

\* end_main_loop: what a last, incomplete fill left in the buffer is counted.
Finish ==
  /\ pc' = "done"
  /\ buffer' = <<>>
  /\ needle_count' = needle_count + (IF fill_buffer THEN count_occurances(buffer) ELSE 0)
  /\ UNCHANGED <<options, rest, total_read>>

RecvEnd_Retries_Mutant ==
  /\ pc = "read"
  /\ rest = <<>> \/ buffer_len = 0
  /\ UNCHANGED vars

\* recv returns 0 at the end of the answer, and for a buffer of no bytes.
RecvEnd ==
  /\ pc = "read"
  /\ ~(fill_buffer /\ buffer_len = 0)
  /\ rest = <<>> \/ buffer_len = 0
  /\ Finish

\* recv returns -1.
RecvError ==
  /\ pc = "read"
  /\ ~(fill_buffer /\ buffer_len = 0)
  /\ Finish

\* An empty buffer is always full: main counts it over and over.
Spin ==
  /\ pc = "read"
  /\ fill_buffer
  /\ buffer_len = 0
  /\ UNCHANGED vars

Finished == pc \in {"done", "failed"} /\ UNCHANGED vars

Next == SendRequest \/ Recv \/ RecvEnd \/ RecvError \/ Spin \/ Finished

\* The remote host sends the page and closes the connection.
Spec == Init /\ [][Next]_vars /\ WF_vars(SendRequest) /\ WF_vars(Recv \/ RecvEnd)

-----------------------------------------------------------------------------
(* Properties                                                              *)

\* The positions at which the tag occurs.
Occurrences(text) ==
  {i \in 1 .. Len(text) - Len(needle) + 1 :
     SubSeq(text, i, i + Len(needle) - 1) = needle}

Received == SubSeq(page, 1, Len(page) - Len(rest))

\* The values main can hold.
TypeOK ==
  /\ pc \in {"start", "read", "done", "failed"}
  /\ page \in Pages
  /\ buffer_len \in BufferSizes
  /\ fill_buffer \in BOOLEAN
  /\ Len(buffer) <= buffer_len
  /\ needle_count \in Nat
  /\ total_read \in Nat

\* Every byte is counted once, however recv cuts the page: the bytes received
\* are the ones reported, and the buffer, which never overflows, holds those
\* since the last multiple of its size.
BytesAreAccounted ==
  /\ total_read = Len(Received)
  /\ Len(buffer) <= buffer_len
  /\ fill_buffer /\ pc = "read" /\ buffer_len > 0 =>
       buffer = SubSeq(Received, total_read - (total_read % buffer_len) + 1, total_read)

\* A tag is never counted twice or where there is none, however the answer
\* is cut into segments and buffers.
NeverOvercounts == needle_count <= Cardinality(Occurrences(Received))

\* The number of tags in text when it is cut into pieces of n characters.
InPieces(text, n) ==
  LET piece(k) == SubSeq(text, (k - 1) * n + 1, IF k * n < Len(text) THEN k * n ELSE Len(text))
      sum[k \in 0 .. Len(text)] ==
        IF k = 0 \/ (k - 1) * n >= Len(text) THEN (IF k = 0 THEN 0 ELSE sum[k - 1])
        ELSE sum[k - 1] + count_occurances(piece(k))
  IN  sum[Len(text)]

\* When buffers are filled, the count does not depend on how TCP cut the
\* answer: it is that of the pieces of buffer_len bytes, the last included.
FillingIsDeterministic ==
  pc = "done" /\ fill_buffer => needle_count = InPieces(Received, buffer_len)

\* With a buffer of at least one byte the program ends.
Terminates == buffer_len > 0 ~> pc \in {"done", "failed"}

=============================================================================
