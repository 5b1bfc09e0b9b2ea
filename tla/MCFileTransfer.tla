--------------------------- MODULE MCFileTransfer ---------------------------
(* Small instances of FileTransfer for TLC. *)
EXTENDS FileTransfer, TLC

CONSTANTS f1, f2

\* A file of several buffers, an empty one, a directory, a name that is not
\* shared, one with a forbidden component, one that is too long and one whose length is the limit.
Long    == <<11>>
Empty   == <<12>>
Dir     == <<13>>
Unknown == <<14>>
Bad     == <<15>>
TooLong == <<16, 16, 16>>
Exact   == <<17, 17>>

Entry(kind, data) == [kind |-> kind, data |-> data]

AllNames == {Long, Empty, Dir, Unknown, Bad, TooLong, Exact}
AllStore ==
  (Long    :> Entry("file", <<21, 22, 23, 24, 25, 26>>)) @@
  (Empty   :> Entry("file", <<>>)) @@
  (Dir     :> Entry("dir", <<>>)) @@
  (Unknown :> Entry("missing", <<>>)) @@
  (Bad     :> Entry("invalid", <<>>)) @@
  (TooLong :> Entry("file", <<31>>)) @@
  (Exact   :> Entry("file", <<32>>))

ShortNames == {Long}
ShortStore == Long :> Entry("file", <<21>>)
=============================================================================
