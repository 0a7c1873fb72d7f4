------------------------------- MODULE MCShell -------------------------------
(* Short sessions on a small device. *)
EXTENDS Shell

CONSTANTS part, full, F1, F2

MCNames == {"a", "b"}
MCRank == [n \in MCNames |-> IF n = "a" THEN 1 ELSE 2]

\* With four bytes to a block: one block, and two of which the second is empty.
MCDiskFiles == {part, full}
MCSize == [d \in MCDiskFiles |-> IF d = part THEN 0 ELSE 4]

\* With 16 values to a word: no number; the least; the size of the device wraps
\* (4, 5); the count is negative as an int (8); the number of marks wraps (15);
\* too large.
MCTyped == {0, 1, 4, 5, 8, 15, 16}
=============================================================================
