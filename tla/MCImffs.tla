------------------------------- MODULE MCImffs -------------------------------
(* Small devices for TLC. *)
EXTENDS ImffsStore

CONSTANTS part, full, F1, F2, F3

\* "a" and "A" are one name to strcasecmp.
MCNames == {"a", "A", "b"}
MCRank == [n \in MCNames |-> IF n = "b" THEN 2 ELSE 1]

\* With two bytes to a block: a block that is not full, and two full blocks,
\* which take a third one that nothing is read into.
MCDiskFiles == {part, full}
MCSize == [d \in MCDiskFiles |-> IF d = part THEN 1 ELSE 4]

Addresses == Permutations(FileIds)
=============================================================================
