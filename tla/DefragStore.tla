----------------------------- MODULE DefragStore -----------------------------
(***************************************************************************)
(* imffs with defragmentation implements a FileStore too.  While blocks    *)
(* move, a file is what its blocks hold in ascending order, whoever's      *)
(* clusters the index still names.                                         *)
(***************************************************************************)
EXTENDS ImffsStore, ImffsDefrag

Gathered(f) ==
  LET blocks == InOrder({b \in Blocks : df.owners[b] = f})
      count == Lesser(Len(blocks), BlocksWithBytes(heap[f].byte_len))
  IN [bytes |-> heap[f].byte_len, chunks |-> [i \in 1 .. count |-> data[blocks[i]]]]

DContentAt(k) ==
  IF df.phase = "idle" \/ FilesAt(k) = {}
    THEN ContentAt(k)
    ELSE Gathered(CHOOSE f \in FilesAt(k) : TRUE)

DFS == INSTANCE FileStore WITH
         Keys <- StoreKeys,
         Contents <- {DiskContent(d) : d \in DiskFiles},
         NoFile <- NULL,
         MemoryMayFail <- MallocMayFail,
         store <- [k \in StoreKeys |-> DContentAt(k)],
         reply <- Answer

\* No move of a defragmentation changes what a file holds: a block is never
\* overwritten before it is copied, and the new index gives back every byte
\* (imffs_defrag, lines 780 to 876).
DefragKeepsFiles == DFS!Spec

\* With failing mallocs too, a file is lost by a rename only.
DefragLosesOnlyByRename == DFS!LossySpec
=============================================================================
