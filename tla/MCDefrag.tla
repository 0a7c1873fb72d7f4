------------------------------- MODULE MCDefrag -------------------------------
(* Small devices to defragment. *)
EXTENDS DefragStore

CONSTANTS part, full, F1, F2

Two == {"a", "b"}
RankTwo == [n \in Two |-> IF n = "a" THEN 1 ELSE 2]

MCDiskFiles == {part, full}
\* With two bytes to a block: a block that is not full; two full blocks, which
\* take a third, empty one.
MCSize == [d \in MCDiskFiles |-> IF d = part THEN 1 ELSE 4]
\* With one byte to a block: an empty file, and one of a full and an empty block.
ShortSize == [d \in MCDiskFiles |-> IF d = part THEN 0 ELSE 1]

Addresses == Permutations(FileIds)
=============================================================================
