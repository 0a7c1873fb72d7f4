------------------------------ MODULE ImffsStore ------------------------------
(***************************************************************************)
(* imffs implements a FileStore: the device, its marks, the index and the  *)
(* heap together are one map from names (up to case) to what was saved.    *)
(***************************************************************************)
EXTENDS Imffs

Key(n) == IF n = NULL THEN NULL ELSE Rank[n]

DiskContent(d) ==
  [bytes |-> Size[d],
   chunks |-> [i \in 1 .. BlocksWithBytes(Size[d]) |-> <<d, i - 1>>]]

\* The File stored under key k; one that is being saved is not stored yet.
FilesAt(k) ==
  {f \in Keyed \ {sv.file} : heap[f] # NULL /\ Rank[heap[f].name] = k}

ContentAt(k) ==
  IF FilesAt(k) = {} THEN NULL ELSE Output(CHOOSE f \in FilesAt(k) : TRUE)

StoreKeys == {Rank[n] : n \in Names}

\* The map, and the answers to a user who does not see the device.
Store == [k \in StoreKeys |-> ContentAt(k)]
Answer ==
  [op |-> reply.op, key |-> Key(reply.name), result |-> reply.result, out |-> reply.out,
   rows |-> {<<Key(row.name), row.bytes>> : row \in reply.rows}]

Contents == {DiskContent(d) : d \in DiskFiles}

\* The content of no disk file is taken for the absence of a file.
ASSUME NoFileAssumption == NULL \notin Contents

FS == INSTANCE FileStore WITH
        Keys <- StoreKeys,
        Contents <- Contents,
        NoFile <- NULL,
        MemoryMayFail <- MallocMayFail,
        store <- Store,
        reply <- Answer

\* Every step of the device is a step of the store or leaves it as it is: a
\* save appears all at once or not at all, a load returns what was saved, and no
\* operation on one file changes another (imffs_save, _load, _delete, _rename).
ImplementsFileStore == FS!Spec

\* When memory fails, the promise is broken in one way only: a rename that has no
\* memory for the new name loses its file (imffs_rename, lines 599 to 607).  No
\* other file is lost, none is changed, and nothing else answers wrongly.
LosesOnlyByRename == FS!LossySpec

\* A file that imffs_rename reports as renamed is there under its new name: "rename
\* the IMFFS file from imffsold to imffsnew, keeping all of the data intact"
\* (a5_main.c, line 154).
RenameKeepsFile ==
  reply.op = "rename" /\ reply.result = "OK" => Found(reply.name) # {}
=============================================================================
