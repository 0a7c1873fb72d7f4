-------------------------------- MODULE Imffs --------------------------------
(***************************************************************************)
(* The in-memory flat file system of a5_imffs.c: a device of blocks, the   *)
(* mark of each block (used or free), and the index, a multimap from a     *)
(* File on the heap to the clusters (runs of adjacent blocks) that hold    *)
(* its bytes.  A save is modelled block by block, as its loop runs; every  *)
(* other operation is one step.  Defragmentation is in ImffsDefrag.        *)
(*                                                                         *)
(* Assertions are on, as in the repository's Makefile: one that fails      *)
(* leads to status "aborted".  "undefined" stands for every behaviour of   *)
(* a process that has used a dangling or null pointer.                     *)
(***************************************************************************)
EXTENDS Integers, FiniteSets, SequencesExt

CONSTANTS
  BlockCount,       \* blocks of the device
  BytesPerBlock,    \* BYTES_PER_BLOCK, 256 in the code
  Names,            \* file names a user types
  Rank,             \* the order of strcasecmp: equal ranks, equal names
  DiskFiles,        \* files outside the device
  Size,             \* their lengths in bytes
  FileIds,          \* heap addresses a File can have
  NULL,
  Garbage,          \* what malloc leaves in a block
  MallocMayFail     \* whether a malloc can return NULL

ASSUME BlockCountAssumption == BlockCount \in Nat \ {0}
ASSUME BytesPerBlockAssumption == BytesPerBlock \in Nat \ {0}
ASSUME RankAssumption == Rank \in [Names -> Nat]
ASSUME SizeAssumption == Size \in [DiskFiles -> Nat]

Blocks == 0 .. BlockCount - 1
Chunks == DiskFiles \X Nat   \* <<d, i>>: the i-th block of the bytes of d
Cluster == [num : Nat, start : Nat]
FileRecord == [name : Names, byte_len : Nat]

ASSUME NullAssumption ==
  NULL \notin FileIds \cup Names \cup DiskFiles /\ NULL \notin FileRecord
ASSUME GarbageAssumption == Garbage \notin Chunks
ASSUME MallocAssumption == MallocMayFail \in BOOLEAN

VARIABLES
  data,     \* what each block holds
  used,     \* the blocks marked 'X'
  index,    \* the clusters of each File, <<>> when it is not a key
  heap,     \* the File at each address, NULL when it is not allocated
  sv,       \* the locals of the save in progress
  status,   \* of the process
  reply     \* what the last operation returned

vars == <<data, used, index, heap, sv, status, reply>>

NoOutput == [bytes |-> 0, chunks |-> <<>>]
Reply(op, name, result) ==
  [op |-> op, name |-> name, result |-> result, out |-> NoOutput, rows |-> {}]
NoReply == Reply("none", NULL, "OK")

Idle == [file |-> NULL, src |-> NULL, eof |-> FALSE, ok |-> TRUE,
         start |-> 0, num |-> 0, prev |-> 0]

-----------------------------------------------------------------------------
(* Files, clusters and blocks. *)

Keyed == {f \in FileIds : index[f] # <<>>}

Covers(c, b) == c.start <= b /\ b < c.start + c.num

Owned(f) == {b \in Blocks : \E i \in DOMAIN index[f] : Covers(index[f][i], b)}

\* The blocks a save has taken and not yet entered in the index.
Pending == {b \in Blocks : Covers(sv, b)}

\* The blocks of f in the order of its clusters.
BlocksOf(f) ==
  FlattenSeq([i \in DOMAIN index[f] |->
                [j \in 1 .. index[f][i].num |-> index[f][i].start + j - 1]])

\* Variant: names compared with strcmp.
FoundByCase(n) == {f \in Keyed : heap[f] # NULL /\ heap[f].name = n}

\* find_matching_file, and the key find_key_pos lands on.
Found(n) == {f \in Keyed : heap[f] # NULL /\ Rank[heap[f].name] = Rank[n]}

\* mm_insert_value adds a key only while there are fewer keys than blocks.
CanInsert(f) == f \in Keyed \/ Cardinality(Keyed) < BlockCount

\* Variant: a new cluster goes first.
InsertedFirst(f, c) == [index EXCEPT ![f] = <<c>> \o @]

\* compare_always_greater puts a new cluster last.
Inserted(f, c) == [index EXCEPT ![f] = Append(@, c)]

Lesser(a, b) == IF a < b THEN a ELSE b

\* A file takes a block more than its full ones, even when nothing is left for it.
BlocksFor(bytes) == bytes \div BytesPerBlock + 1
BlocksWithBytes(bytes) == (bytes + BytesPerBlock - 1) \div BytesPerBlock

\* find_next_free_block from the position of the previous block.
NextFree(b) ==
  /\ b \in Blocks \ used
  /\ sv.prev <= b
  /\ \A c \in sv.prev .. b - 1 : c \in used

-----------------------------------------------------------------------------
Init ==
  /\ data = [b \in Blocks |-> Garbage]
  /\ used = {}
  /\ index = [f \in FileIds |-> <<>>]
  /\ heap = [f \in FileIds |-> NULL]
  /\ sv = Idle
  /\ status = "running"
  /\ reply = NoReply

\* No key of the index is a freed File.
Clean == \A f \in Keyed : heap[f] # NULL

Between == status = "running" /\ sv.file = NULL
Ready == Between /\ Clean
Saving == status = "running" /\ sv.file # NULL

Halt(how) ==
  /\ status' = how
  /\ UNCHANGED <<data, used, index, heap, sv, reply>>

\* An operation that gives up before it changes anything.
Refuse(op, n) ==
  /\ reply' = Reply(op, n, "ERROR")
  /\ UNCHANGED <<data, used, index, heap, sv, status>>

\* Every operation that looks in the index compares its keys.
TouchDangling ==
  /\ Between
  /\ ~Clean
  /\ Halt("undefined")

-----------------------------------------------------------------------------
(* imffs_save *)

\* fopen fails, or a malloc for the File or its name.
SaveUnopened(n) == Between /\ Refuse("save", n)

SaveDuplicate(n) == Ready /\ Found(n) # {} /\ Refuse("save", n)

SaveOpen(n, d, f) ==
  /\ Ready
  /\ Found(n) = {}
  /\ heap[f] = NULL
  /\ heap' = [heap EXCEPT ![f] = [name |-> n, byte_len |-> 0]]
  /\ sv' = [Idle EXCEPT !.file = f, !.src = d]
  /\ reply' = NoReply
  /\ UNCHANGED <<data, used, index, status>>

Got == Lesser(BytesPerBlock, Size[sv.src] - heap[sv.file].byte_len)

\* Variant: the end is noticed with the last byte.
AtEofEarly == heap[sv.file].byte_len + Got = Size[sv.src]

\* feof holds after a short read only.
AtEof == Got < BytesPerBlock

\* Variant: a block that nothing is read into is not marked.
StoreChunkMarksFilled(b) ==
  LET i == heap[sv.file].byte_len \div BytesPerBlock IN
  /\ data' = IF Got > 0 THEN [data EXCEPT ![b] = <<sv.src, i>>] ELSE data
  /\ heap' = [heap EXCEPT ![sv.file].byte_len = @ + Got]
  /\ used' = IF Got > 0 THEN used \cup {b} ELSE used

\* fread fills block b, and it is marked.
StoreChunk(b) ==
  LET i == heap[sv.file].byte_len \div BytesPerBlock IN
  /\ data' = IF Got > 0 THEN [data EXCEPT ![b] = <<sv.src, i>>] ELSE data
  /\ heap' = [heap EXCEPT ![sv.file].byte_len = @ + Got]
  /\ used' = used \cup {b}

Looping == Saving /\ ~sv.eof /\ sv.ok

\* Variant: every block is a cluster.
AdjoinsNever(b) == sv.num = 0

Adjoins(b) == sv.num = 0 \/ b <= sv.prev + 1

SaveBlock(b) ==
  /\ Looping
  /\ NextFree(b)
  /\ Adjoins(b)
  /\ StoreChunk(b)
  /\ sv' = [sv EXCEPT !.start = IF sv.num = 0 THEN b ELSE @,
                      !.num = @ + 1,
                      !.prev = b,
                      !.eof = AtEof]
  /\ UNCHANGED <<index, status, reply>>

\* Variant: the last block is not counted.
EndedShort == [num |-> sv.num - 1, start |-> sv.start]

\* The blocks so far are a cluster, and b starts the next one.
Ended == [num |-> sv.num, start |-> sv.start]

SaveCluster(b) ==
  /\ Looping
  /\ NextFree(b)
  /\ ~Adjoins(b)
  /\ StoreChunk(b)
  /\ index' = IF CanInsert(sv.file) THEN Inserted(sv.file, Ended) ELSE index
  /\ sv' = [sv EXCEPT !.start = b,
                      !.num = 1,
                      !.prev = b,
                      !.eof = AtEof,
                      !.ok = CanInsert(sv.file)]
  /\ UNCHANGED <<status, reply>>

\* ferror: the few bytes read are in the block and counted; it stays unmarked.
SaveReadError(b) ==
  /\ Looping
  /\ NextFree(b)
  /\ \E few \in 0 .. Lesser(Got, BytesPerBlock - 1) :
       /\ data' = IF few > 0 THEN [data EXCEPT ![b] = Garbage] ELSE data
       /\ heap' = [heap EXCEPT ![sv.file].byte_len = @ + few]
  /\ sv' = [sv EXCEPT !.ok = FALSE]
  /\ UNCHANGED <<used, index, status, reply>>

\* Variant: the loop does not notice that no block is free.
LoopOverAtEnd == Saving /\ ~Looping

LoopOver == Saving /\ (~Looping \/ \A b \in Blocks : ~NextFree(b))

\* Variant: the save keeps its File when it has answered.
SaveReturnsHolding(result) ==
  /\ reply' = Reply("save", heap[sv.file].name, result)
  /\ sv' = [Idle EXCEPT !.file = sv.file, !.src = sv.src]
  /\ UNCHANGED <<data, status>>

SaveReturns(result) ==
  /\ reply' = Reply("save", heap[sv.file].name, result)
  /\ sv' = Idle
  /\ UNCHANGED <<data, status>>

Stored == sv.eof /\ sv.ok

SaveCommit ==
  /\ LoopOver
  /\ Stored
  /\ CanInsert(sv.file)
  /\ index' = Inserted(sv.file, Ended)
  /\ SaveReturns("OK")
  /\ UNCHANGED <<used, heap>>

\* Variant: only the last cluster is taken back.
SaveRollbackLast ==
  /\ LoopOver
  /\ ~Stored
  /\ sv.num > 0
  /\ CanInsert(sv.file)
  /\ used' = used \ Pending
  /\ index' = [index EXCEPT ![sv.file] = <<>>]
  /\ heap' = [heap EXCEPT ![sv.file] = NULL]
  /\ SaveReturns("OK")

\* Out of space or a read error, after at least one block: the last cluster is
\* inserted, imffs_delete takes all of it back, and its OK is what save returns.
SaveRollback ==
  /\ LoopOver
  /\ ~Stored
  /\ sv.num > 0
  /\ CanInsert(sv.file)
  /\ used' = used \ (Owned(sv.file) \cup Pending)
  /\ index' = [index EXCEPT ![sv.file] = <<>>]
  /\ heap' = [heap EXCEPT ![sv.file] = NULL]
  /\ SaveReturns("OK")

\* Variant: the marks of the last cluster are cleared, though it stays a value.
SaveRollbackFailsUnmarked ==
  /\ MallocMayFail
  /\ LoopOver
  /\ ~Stored
  /\ sv.num > 0
  /\ CanInsert(sv.file)
  /\ index' = Inserted(sv.file, Ended)
  /\ heap' = [heap EXCEPT ![sv.file] = NULL]
  /\ used' = used \ Pending
  /\ SaveReturns("ERROR")

\* The same, but imffs_delete has no memory for its array of values: save then
\* frees the File, which is still a key.
SaveRollbackFails ==
  /\ MallocMayFail
  /\ LoopOver
  /\ ~Stored
  /\ sv.num > 0
  /\ CanInsert(sv.file)
  /\ index' = Inserted(sv.file, Ended)
  /\ heap' = [heap EXCEPT ![sv.file] = NULL]
  /\ SaveReturns("ERROR")
  /\ UNCHANGED used

\* Variant: the File is not freed.
SaveAbandonedUnfreed ==
  /\ LoopOver
  /\ sv.num = 0 \/ ~CanInsert(sv.file)
  /\ SaveReturns("ERROR")
  /\ UNCHANGED <<used, index, heap>>

\* Nothing was entered in the index: no block was filled, or the index is full
\* (and the blocks that were filled stay marked).
SaveAbandoned ==
  /\ LoopOver
  /\ sv.num = 0 \/ ~CanInsert(sv.file)
  /\ heap' = [heap EXCEPT ![sv.file] = NULL]
  /\ SaveReturns("ERROR")
  /\ UNCHANGED <<used, index>>

\* mm_insert_value asserts that the malloc of its node succeeds.
SaveInsertAborts ==
  /\ MallocMayFail
  /\ Saving
  /\ sv.num > 0
  /\ CanInsert(sv.file)
  /\ LoopOver \/ \E b \in Blocks : NextFree(b) /\ ~Adjoins(b)
  /\ Halt("aborted")

SaveStep ==
  \/ \E b \in Blocks : SaveBlock(b) \/ SaveCluster(b) \/ SaveReadError(b)
  \/ SaveCommit
  \/ SaveRollback
  \/ SaveRollbackFails
  \/ SaveAbandoned
  \/ SaveInsertAborts

-----------------------------------------------------------------------------
(* imffs_load, imffs_dir, imffs_fulldir *)

\* The clusters of f up to its length: the chunk that each block holds.
Output(f) ==
  LET blocks == BlocksOf(f)
      count == Lesser(Len(blocks), BlocksWithBytes(heap[f].byte_len))
  IN [bytes |-> heap[f].byte_len, chunks |-> [i \in 1 .. count |-> data[blocks[i]]]]

\* The assertion that no byte is left when the clusters end.
LengthCovered(f) == Len(BlocksOf(f)) * BytesPerBlock >= heap[f].byte_len

Load(n, f) ==
  /\ Ready
  /\ f \in Found(n)
  /\ IF LengthCovered(f)
       THEN /\ reply' = [Reply("load", n, "OK") EXCEPT !.out = Output(f)]
            /\ UNCHANGED <<data, used, index, heap, sv, status>>
       ELSE Halt("aborted")

LoadMissing(n) == Ready /\ Found(n) = {} /\ Refuse("load", n)

\* fopen fails, malloc fails or ferror holds after a cluster.
LoadFailed(n) == Ready /\ Found(n) # {} /\ Refuse("load", n)

\* Variant: the blocks are worked out from the length.
RowByLength(f) ==
  [name |-> heap[f].name, bytes |-> heap[f].byte_len,
   blocks |-> BlocksWithBytes(heap[f].byte_len), chunks |-> Len(index[f])]

Row(f) ==
  [name |-> heap[f].name, bytes |-> heap[f].byte_len,
   blocks |-> Len(BlocksOf(f)), chunks |-> Len(index[f])]

Dir ==
  /\ Ready
  /\ reply' = [Reply("dir", NULL, "OK") EXCEPT !.rows = {Row(f) : f \in Keyed}]
  /\ UNCHANGED <<data, used, index, heap, sv, status>>

\* mm_get_values asserts that it is given an array.
DirAborts ==
  /\ MallocMayFail
  /\ Ready
  /\ Keyed # {}
  /\ Halt("aborted")

-----------------------------------------------------------------------------
(* imffs_delete, imffs_rename, imffs_destroy *)

\* restore_free_space asserts of each block that it is on the device and still
\* marked; the clusters are unmarked one after the other.
Restorable(f) ==
  \A i \in DOMAIN index[f] :
    \A b \in index[f][i].start .. index[f][i].start + index[f][i].num - 1 :
      /\ b \in used
      /\ \A j \in 1 .. i - 1 : ~Covers(index[f][j], b)

Delete(n, f) ==
  /\ Ready
  /\ f \in Found(n)
  /\ IF Restorable(f)
       THEN /\ used' = used \ Owned(f)
            /\ index' = [index EXCEPT ![f] = <<>>]
            /\ heap' = [heap EXCEPT ![f] = NULL]
            /\ reply' = Reply("delete", n, "OK")
            /\ UNCHANGED <<data, sv, status>>
       ELSE Halt("aborted")

DeleteMissing(n) == Ready /\ Found(n) = {} /\ Refuse("delete", n)

DeleteUnread(n) ==
  MallocMayFail /\ Ready /\ Found(n) # {} /\ Refuse("delete", n)

\* The key is removed and inserted again under its new name, cluster by cluster.
Rename(old, new, f) ==
  /\ Ready
  /\ f \in Found(old)
  /\ Found(new) = {}
  /\ heap' = [heap EXCEPT ![f].name = new]
  /\ reply' = Reply("rename", new, "OK")
  /\ UNCHANGED <<data, used, index, sv, status>>

RenameRefused(old, new) ==
  /\ Ready
  /\ Found(old) = {} \/ Found(new) # {}
  /\ Refuse("rename", new)

RenameUnread(old, new) ==
  /\ MallocMayFail
  /\ Ready
  /\ Found(old) # {}
  /\ Found(new) = {}
  /\ Refuse("rename", new)

\* Variant: the loss is reported as a refusal.
RenameLosesFileRefused(old, new, f) ==
  /\ MallocMayFail
  /\ Ready
  /\ f \in Found(old)
  /\ Found(new) = {}
  /\ index' = [index EXCEPT ![f] = <<>>]
  /\ reply' = Reply("rename", new, "ERROR")
  /\ UNCHANGED <<data, used, heap, sv, status>>

\* No memory for the new name: the key is already removed, and the answer is OK.
RenameLosesFile(old, new, f) ==
  /\ MallocMayFail
  /\ Ready
  /\ f \in Found(old)
  /\ Found(new) = {}
  /\ index' = [index EXCEPT ![f] = <<>>]
  /\ reply' = Reply("rename", new, "OK")
  /\ UNCHANGED <<data, used, heap, sv, status>>

RenameAborts(old, new) ==
  /\ MallocMayFail
  /\ Ready
  /\ Found(old) # {}
  /\ Found(new) = {}
  /\ Halt("aborted")

Destroy ==
  /\ Ready
  /\ index' = [f \in FileIds |-> <<>>]
  /\ heap' = [f \in FileIds |-> IF f \in Keyed THEN NULL ELSE heap[f]]
  /\ used' = {}
  /\ status' = "destroyed"
  /\ reply' = Reply("destroy", NULL, "OK")
  /\ UNCHANGED <<data, sv>>

Halted == status # "running" /\ UNCHANGED vars

-----------------------------------------------------------------------------
Lookup ==
  \/ \E n \in Names :
       \/ LoadMissing(n) \/ LoadFailed(n)
       \/ \E f \in FileIds : Load(n, f)
  \/ Dir
  \/ DirAborts

Alter ==
  \/ \E n \in Names :
       \/ SaveUnopened(n) \/ SaveDuplicate(n) \/ DeleteMissing(n) \/ DeleteUnread(n)
       \/ \E f \in FileIds : Delete(n, f) \/ \E d \in DiskFiles : SaveOpen(n, d, f)
  \/ \E old, new \in Names :
       \/ RenameRefused(old, new) \/ RenameUnread(old, new) \/ RenameAborts(old, new)
       \/ \E f \in FileIds : Rename(old, new, f) \/ RenameLosesFile(old, new, f)

Next ==
  \/ SaveStep \/ Lookup \/ Alter
  \/ Destroy \/ TouchDangling \/ Halted

Spec == Init /\ [][Next]_vars

-----------------------------------------------------------------------------
(* Properties *)

\* Every variable stays in its range; a save in progress has a live File.
TypeOK ==
  /\ data \in [Blocks -> Chunks \cup {Garbage}]
  /\ used \subseteq Blocks
  /\ index \in [FileIds -> Seq(Cluster)]
  /\ heap \in [FileIds -> FileRecord \cup {NULL}]
  /\ sv \in [file : FileIds \cup {NULL}, src : DiskFiles \cup {NULL},
             eof : BOOLEAN, ok : BOOLEAN, start : Blocks, num : Nat, prev : Blocks]
  /\ status \in {"running", "aborted", "undefined", "destroyed"}
  /\ sv.file # NULL => sv.src # NULL /\ heap[sv.file] # NULL

\* No block belongs to two clusters, of one file or of two, nor to a cluster and
\* to the save in progress.
Disjoint ==
  \A f, g \in FileIds : \A i \in DOMAIN index[f], j \in DOMAIN index[g] :
    \A b \in Blocks :
      /\ Covers(index[f][i], b) /\ Covers(index[g][j], b) => f = g /\ i = j
      /\ ~(Covers(index[f][i], b) /\ b \in Pending)

\* Every cluster lies on the device and is not empty, whatever imffs_save has
\* entered in the index or imffs_defrag has rebuilt.
OnDevice ==
  \A f \in FileIds : \A i \in DOMAIN index[f] :
    index[f][i].num > 0 /\ index[f][i].start + index[f][i].num <= BlockCount

\* Whatever is stored or being stored is marked, so no later save takes it.
Protected ==
  /\ Pending \subseteq used
  /\ \A f \in FileIds : Owned(f) \subseteq used

\* A block is stored into for one file at a time: imffs_save takes none that a
\* file holds, because every block held is marked and belongs to one cluster.
NoBlockShared == Disjoint /\ OnDevice /\ Protected

\* No block is lost: a marked one belongs to a file or to the save in progress
\* (imffs_save's rollback and imffs_delete give all of them back).
NoBlockLeaked ==
  status = "running" =>
    used \subseteq Pending \cup UNION {Owned(f) : f \in FileIds}

\* The clusters of a stored file hold exactly the byte_len \div 256 + 1 blocks
\* that imffs_defrag takes for granted.
BlocksMatchLength ==
  \A f \in Keyed \ {sv.file} :
    heap[f] # NULL => Len(BlocksOf(f)) = BlocksFor(heap[f].byte_len)

\* The clusters of a file ascend on the device and no two touch, so dir's count
\* of chunks is the count of runs.
ClustersAscend ==
  \A f \in FileIds : \A i \in 1 .. Len(index[f]) - 1 :
    index[f][i].start + index[f][i].num < index[f][i + 1].start

\* A save that has taken a block always finds room in the index: though the index
\* has as many places as the device has blocks, and may be full, imffs_save is
\* never left with marked blocks that it can neither enter nor take back (lines
\* 415 to 418).
IndexHasRoom == Saving /\ sv.num > 0 => CanInsert(sv.file)

\* Two files never go by the same name up to case, nor does a file that is being
\* saved go by the name of another: the check for duplicates is made before the
\* first block is read, and the key is inserted after the last.
Live == {f \in Keyed \cup ({sv.file} \ {NULL}) : heap[f] # NULL}

NamesUnique ==
  \A f, g \in Live : Rank[heap[f].name] = Rank[heap[g].name] => f = g

\* Every File on the heap is a key or is being saved, and every key is a live
\* File: nothing leaks and nothing dangles.
HeapExact ==
  {f \in FileIds : heap[f] # NULL} = Keyed \cup ({sv.file} \ {NULL})

\* A file that imffs_save reports as saved is in the index.
SavedIsStored ==
  reply.op = "save" /\ reply.result = "OK" => Found(reply.name) # {}

\* restore_free_space would never fail its assertions, whichever file is deleted:
\* no block is unmarked twice.
DeleteNeverAborts == \A f \in FileIds : Restorable(f)

\* No assertion of imffs fails, and no freed File is used: a delete finds every
\* block marked (line 105), a load finds a block for every byte (line 502), a
\* compaction passes its check.  What the multimap asserts of itself is ValidIndex.
NoAbort == status \in {"running", "destroyed"}

\* No freed File is used: a File that imffs_save frees is never a key of the index.
NoDangling == status # "undefined"

\* The blocks that dir lists are the blocks that are marked, when no save runs.
DirAccountsForBlocks ==
  reply.op = "dir" =>
    Cardinality(used) = SumFunction([row \in reply.rows |-> row.blocks])
=============================================================================
