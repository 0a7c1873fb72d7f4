----------------------------- MODULE ImffsProofs -----------------------------
(***************************************************************************)
(* For every device, every set of files and every interleaving of the      *)
(* operations of Imffs: types, the separation of the blocks of files, the  *)
(* room in the index, that no block is lost, and that clusters ascend.     *)
(***************************************************************************)
EXTENDS Imffs, FiniteSetTheorems, TLAPS

\* The locals of a save: its pending blocks are a run that ends at prev, which is
\* marked; it has read no more than there is, it has taken a block when it sees the
\* end of the file, and it has no key before its second cluster.
SaveOK ==
  /\ sv.num > 0 => sv.start + sv.num = sv.prev + 1 /\ sv.prev \in used
  /\ sv.file = NULL => sv.num = 0
  /\ sv.eof => sv.num > 0
  /\ sv.file # NULL =>
       /\ heap[sv.file].byte_len <= Size[sv.src]
       /\ sv.num = 0 => index[sv.file] = <<>>

\* What the operations keep even where marks and clusters have come apart.
LocalOK == TypeOK /\ SaveOK /\ OnDevice

IInv == LocalOK /\ Disjoint /\ Protected

\* The same, where the marks may be wrong as long as no save goes by them.
CInv == LocalOK /\ Disjoint /\ (sv.file # NULL => Protected)

LEMMA StrongerInv == IInv => CInv
BY DEF IInv, CInv

LEMMA SaveProtected ==
  ASSUME CInv, NullAssumption, sv.file \in FileIds
  PROVE  Protected
BY DEF CInv, NullAssumption

USE DEF Blocks, Cluster, Chunks

-----------------------------------------------------------------------------
(* The operators the actions are built from *)

LEMMA GotBounds ==
  ASSUME BytesPerBlockAssumption, SizeAssumption, TypeOK, SaveOK, sv.file # NULL
  PROVE  /\ Got \in Nat
         /\ heap[sv.file].byte_len + Got <= Size[sv.src]
BY DEF BytesPerBlockAssumption, SizeAssumption, TypeOK, SaveOK, FileRecord, Got, Lesser

LEMMA AppendedClusters ==
  ASSUME index \in [FileIds -> Seq(Cluster)], NEW f \in FileIds, NEW c \in Cluster
  PROVE  /\ Inserted(f, c) \in [FileIds -> Seq(Cluster)]
         /\ \A g \in FileIds : \A i \in DOMAIN Inserted(f, c)[g] :
              \/ i \in DOMAIN index[g] /\ Inserted(f, c)[g][i] = index[g][i]
              \/ g = f /\ i = Len(index[f]) + 1 /\ Inserted(f, c)[g][i] = c
         /\ \A g \in FileIds : DOMAIN index[g] \subseteq DOMAIN Inserted(f, c)[g]
         /\ Len(index[f]) + 1 \notin DOMAIN index[f]
<1> USE DEF Inserted
<1> DEFINE s == index[f]
<1>1. s \in Seq(Cluster) /\ Append(s, c) \in Seq(Cluster)
  OBVIOUS
<1>2. Inserted(f, c) \in [FileIds -> Seq(Cluster)]
  BY <1>1
<1>3. /\ Inserted(f, c)[f] = Append(s, c)
      /\ \A g \in FileIds \ {f} : Inserted(f, c)[g] = index[g]
  OBVIOUS
<1>4. /\ DOMAIN s = 1 .. Len(s) /\ Len(s) \in Nat
      /\ DOMAIN Append(s, c) = 1 .. Len(s) + 1
      /\ \A i \in 1 .. Len(s) : Append(s, c)[i] = s[i]
      /\ Append(s, c)[Len(s) + 1] = c
  BY <1>1
<1> QED BY <1>2, <1>3, <1>4

\* A new cluster is that of a save, and lies on the device.
LEMMA InsertedOnDevice ==
  ASSUME LocalOK, BlockCountAssumption, sv.file \in FileIds, sv.num > 0,
         index' = Inserted(sv.file, Ended)
  PROVE  /\ Ended \in Cluster /\ Ended.num > 0 /\ Ended.start + Ended.num <= BlockCount
         /\ index' \in [FileIds -> Seq(Cluster)]
         /\ \A g \in FileIds : \A i \in DOMAIN index'[g] :
              \/ i \in DOMAIN index[g] /\ index'[g][i] = index[g][i]
              \/ g = sv.file /\ i = Len(index[sv.file]) + 1 /\ index'[g][i] = Ended
         /\ OnDevice'
<1> USE DEF LocalOK
<1>1. Ended \in Cluster /\ Ended.num > 0 /\ Ended.start + Ended.num <= BlockCount
  BY DEF TypeOK, SaveOK, Ended, BlockCountAssumption
<1>2. /\ index' \in [FileIds -> Seq(Cluster)]
      /\ \A g \in FileIds : \A i \in DOMAIN index'[g] :
           \/ i \in DOMAIN index[g] /\ index'[g][i] = index[g][i]
           \/ g = sv.file /\ i = Len(index[sv.file]) + 1 /\ index'[g][i] = Ended
  <2>1. index \in [FileIds -> Seq(Cluster)]
    BY DEF TypeOK
  <2>2. /\ Inserted(sv.file, Ended) \in [FileIds -> Seq(Cluster)]
        /\ \A g \in FileIds : \A i \in DOMAIN Inserted(sv.file, Ended)[g] :
             \/ /\ i \in DOMAIN index[g]
                /\ Inserted(sv.file, Ended)[g][i] = index[g][i]
             \/ /\ g = sv.file /\ i = Len(index[sv.file]) + 1
                /\ Inserted(sv.file, Ended)[g][i] = Ended
    BY <1>1, <2>1, AppendedClusters
  <2> QED BY <2>2
<1>3. OnDevice'
  BY <1>1, <1>2 DEF OnDevice
<1> QED BY <1>1, <1>2, <1>3

\* When a save returns, nothing is pending.
LEMMA NoSaveLeft ==
  ASSUME BlockCountAssumption, sv' = Idle
  PROVE  /\ sv' \in [file : FileIds \cup {NULL}, src : DiskFiles \cup {NULL},
                     eof : BOOLEAN, ok : BOOLEAN, start : Blocks, num : Nat, prev : Blocks]
         /\ sv'.file = NULL
         /\ Pending' = {}
         /\ SaveOK'
<1>1. sv' = [file |-> NULL, src |-> NULL, eof |-> FALSE, ok |-> TRUE,
             start |-> 0, num |-> 0, prev |-> 0]
  BY DEF Idle
<1> QED BY <1>1 DEF BlockCountAssumption, Pending, Covers, SaveOK

-----------------------------------------------------------------------------
(* What a step keeps whatever the marks are *)

LEMMA LocalFrame ==
  ASSUME LocalOK,
         UNCHANGED <<data, used, index, heap, sv>>,
         status' \in {"running", "aborted", "undefined", "destroyed"}
  PROVE  LocalOK'
BY DEF LocalOK, TypeOK, SaveOK, OnDevice

\* Clusters are only taken away.
LEMMA KeysRemovedOnDevice ==
  ASSUME OnDevice, \A f \in FileIds : index'[f] = index[f] \/ index'[f] = <<>>
  PROVE  OnDevice'
BY DEF OnDevice

\* Types of the device after a block is stored.
LEMMA StoreChunkTypes ==
  ASSUME LocalOK, BytesPerBlockAssumption, SizeAssumption, NullAssumption,
         NEW b \in Blocks, StoreChunk(b), sv.file # NULL
  PROVE  /\ data' \in [Blocks -> Chunks \cup {Garbage}]
         /\ used' \subseteq Blocks
         /\ heap' \in [FileIds -> FileRecord \cup {NULL}]
         /\ heap'[sv.file] # NULL
         /\ heap'[sv.file].byte_len = heap[sv.file].byte_len + Got
<1>1. /\ sv.file \in FileIds /\ sv.src \in DiskFiles
      /\ heap[sv.file] \in FileRecord
      /\ Got \in Nat
  BY GotBounds DEF LocalOK, TypeOK
<1>2. [heap[sv.file] EXCEPT !.byte_len = @ + Got] \in FileRecord
  BY <1>1 DEF FileRecord
<1>3. heap' = [heap EXCEPT ![sv.file] = [heap[sv.file] EXCEPT !.byte_len = @ + Got]]
  BY DEF StoreChunk
<1>4. heap' \in [FileIds -> FileRecord \cup {NULL}] /\ heap'[sv.file] \in FileRecord
  BY <1>1, <1>2, <1>3 DEF LocalOK, TypeOK
<1>5. heap'[sv.file].byte_len = heap[sv.file].byte_len + Got
  BY <1>1, <1>3 DEF LocalOK, TypeOK, FileRecord
<1>6. heap[sv.file].byte_len \div BytesPerBlock \in Nat
  BY <1>1 DEF FileRecord, BytesPerBlockAssumption
<1>7. data' \in [Blocks -> Chunks \cup {Garbage}]
  BY <1>1, <1>6 DEF StoreChunk, LocalOK, TypeOK
<1>8. used' \subseteq Blocks
  BY DEF StoreChunk, LocalOK, TypeOK
<1>9. heap'[sv.file] # NULL
  BY <1>4 DEF NullAssumption
<1> QED BY <1>4, <1>5, <1>7, <1>8, <1>9

LEMMA SaveOpenLocal ==
  ASSUME LocalOK, BlockCountAssumption, SizeAssumption, NullAssumption,
         NEW n \in Names, NEW d \in DiskFiles, NEW f \in FileIds, SaveOpen(n, d, f)
  PROVE  LocalOK'
<1> USE DEF LocalOK
<1>1. sv' = [file |-> f, src |-> d, eof |-> FALSE, ok |-> TRUE,
             start |-> 0, num |-> 0, prev |-> 0]
  BY DEF SaveOpen, Idle
<1>2. [name |-> n, byte_len |-> 0] \in FileRecord
  BY DEF FileRecord
<1>3. heap' = [heap EXCEPT ![f] = [name |-> n, byte_len |-> 0]]
  BY DEF SaveOpen
<1>4. TypeOK'
  <2>1. heap' \in [FileIds -> FileRecord \cup {NULL}] /\ heap'[f] \in FileRecord
    BY <1>2, <1>3 DEF TypeOK
  <2>2. sv' \in [file : FileIds \cup {NULL}, src : DiskFiles \cup {NULL},
                 eof : BOOLEAN, ok : BOOLEAN, start : Blocks, num : Nat, prev : Blocks]
    BY <1>1 DEF BlockCountAssumption
  <2>3. sv'.file = f /\ sv'.src = d
    BY <1>1
  <2> QED BY <2>1, <2>2, <2>3 DEF TypeOK, SaveOpen, NullAssumption
<1>5. index[f] = <<>> /\ index' = index
  BY DEF SaveOpen, Ready, Clean, Keyed
<1>6. SaveOK'
  <2>1. sv'.file = f /\ sv'.src = d /\ sv'.num = 0 /\ ~sv'.eof
    BY <1>1
  <2>2. heap'[f].byte_len = 0
    BY <1>3 DEF TypeOK
  <2>3. f # NULL /\ 0 <= Size[d]
    BY DEF SizeAssumption, NullAssumption
  <2> QED BY <1>5, <2>1, <2>2, <2>3 DEF SaveOK
<1>7. OnDevice'
  BY <1>5 DEF OnDevice
<1> QED BY <1>4, <1>6, <1>7

LEMMA SaveBlockLocal ==
  ASSUME LocalOK, BlockCountAssumption, BytesPerBlockAssumption, SizeAssumption,
         NullAssumption, NEW b \in Blocks, SaveBlock(b)
  PROVE  LocalOK'
<1> USE DEF LocalOK
<1>0. sv.file # NULL /\ sv.file \in FileIds
  BY DEF SaveBlock, Looping, Saving, TypeOK
<1>1. StoreChunk(b) /\ NextFree(b) /\ Adjoins(b) /\ index' = index /\ status' = status
  BY DEF SaveBlock
<1>2. /\ sv'.file = sv.file /\ sv'.src = sv.src /\ sv'.ok = sv.ok
      /\ sv'.eof = AtEof
      /\ sv'.start = (IF sv.num = 0 THEN b ELSE sv.start)
      /\ sv'.num = sv.num + 1 /\ sv'.prev = b
  BY DEF SaveBlock, TypeOK
<1>3. sv' \in [file : FileIds \cup {NULL}, src : DiskFiles \cup {NULL},
               eof : BOOLEAN, ok : BOOLEAN, start : Blocks, num : Nat, prev : Blocks]
  <2> DEFINE e == AtEof
             st == IF sv.num = 0 THEN b ELSE sv.start
             nm == sv.num + 1
  <2>1. e \in BOOLEAN /\ st \in Blocks /\ nm \in Nat
    BY DEF TypeOK, AtEof
  <2>2. sv' = [sv EXCEPT !.start = st, !.num = nm, !.prev = b, !.eof = e]
    BY DEF SaveBlock
  <2> HIDE DEF e, st, nm
  <2> QED BY <2>1, <2>2 DEF TypeOK
<1>4. TypeOK'
  BY <1>0, <1>1, <1>2, <1>3, StoreChunkTypes DEF TypeOK
<1>5. used' = used \cup {b}
  BY <1>1 DEF StoreChunk
<1>6. sv'.start + sv'.num = sv'.prev + 1 /\ sv'.prev \in used'
  <2>1. CASE sv.num = 0
    BY <1>2, <1>5, <2>1
  <2>2. CASE sv.num > 0
    <3>1. b # sv.prev
      BY <1>1, <2>2 DEF SaveOK, NextFree
    <3>2. sv.num \in Nat /\ sv.prev \in Nat /\ sv.start \in Nat /\ b \in Nat
      BY DEF TypeOK
    <3>3. sv.prev <= b /\ b <= sv.prev + 1
      BY <1>1, <2>2 DEF NextFree, Adjoins
    <3> QED BY <1>2, <1>5, <2>2, <3>1, <3>2, <3>3 DEF SaveOK
  <2> QED BY <2>1, <2>2 DEF TypeOK
<1>7. SaveOK'
  <2>1. heap'[sv.file].byte_len <= Size[sv.src]
    BY <1>0, <1>1, GotBounds, StoreChunkTypes
  <2>2. sv'.num > 0
    BY <1>2 DEF TypeOK
  <2> QED BY <1>0, <1>2, <1>6, <2>1, <2>2 DEF SaveOK
<1>8. OnDevice'
  BY <1>1 DEF OnDevice
<1> QED BY <1>4, <1>7, <1>8

LEMMA SaveClusterLocal ==
  ASSUME LocalOK, BlockCountAssumption, BytesPerBlockAssumption, SizeAssumption,
         NullAssumption, NEW b \in Blocks, SaveCluster(b)
  PROVE  LocalOK'
<1> USE DEF LocalOK
<1>0. /\ sv.file # NULL /\ sv.file \in FileIds
      /\ StoreChunk(b) /\ NextFree(b) /\ status' = status
      /\ sv.num > 0
      /\ index' = IF CanInsert(sv.file) THEN Inserted(sv.file, Ended) ELSE index
  BY DEF SaveCluster, Looping, Saving, TypeOK, Adjoins
<1>2. /\ sv'.file = sv.file /\ sv'.src = sv.src
      /\ sv'.start = b /\ sv'.num = 1 /\ sv'.prev = b
  BY DEF SaveCluster, TypeOK
<1>3. sv' \in [file : FileIds \cup {NULL}, src : DiskFiles \cup {NULL},
               eof : BOOLEAN, ok : BOOLEAN, start : Blocks, num : Nat, prev : Blocks]
  <2> DEFINE e == AtEof
             o == CanInsert(sv.file)
  <2>1. e \in BOOLEAN /\ o \in BOOLEAN
    BY DEF CanInsert, AtEof
  <2>2. sv' = [sv EXCEPT !.start = b, !.num = 1, !.prev = b, !.eof = e, !.ok = o]
    BY DEF SaveCluster
  <2> HIDE DEF e, o
  <2> QED BY <2>1, <2>2 DEF TypeOK
<1>4. b \in used'
  BY <1>0 DEF StoreChunk
<1>5. index' \in [FileIds -> Seq(Cluster)] /\ OnDevice'
  <2>1. CASE CanInsert(sv.file)
    BY <1>0, <2>1, InsertedOnDevice
  <2>2. CASE ~CanInsert(sv.file)
    <3>1. index' = index
      BY <1>0, <2>2
    <3> QED BY <3>1 DEF OnDevice, TypeOK
  <2> QED BY <2>1, <2>2
<1>6. TypeOK'
  BY <1>0, <1>2, <1>3, <1>5, StoreChunkTypes DEF TypeOK
<1>7. SaveOK'
  <2>1. heap'[sv.file].byte_len <= Size[sv.src]
    BY <1>0, GotBounds, StoreChunkTypes
  <2> QED BY <1>0, <1>2, <1>4, <2>1 DEF SaveOK
<1> QED BY <1>5, <1>6, <1>7

\* A read that fails adds a few bytes to the File, and no more than were left.
LEMMA FailedRead ==
  ASSUME LocalOK, BytesPerBlockAssumption, SizeAssumption, NullAssumption,
         NEW b \in Blocks, SaveReadError(b)
  PROVE  /\ sv.file \in FileIds /\ sv.file # NULL
         /\ heap' \in [FileIds -> FileRecord \cup {NULL}]
         /\ heap'[sv.file] # NULL
         /\ heap'[sv.file].byte_len <= Size[sv.src]
         /\ \A f \in FileIds : heap'[f] = NULL <=> heap[f] = NULL
         /\ \A f \in FileIds : heap[f] # NULL => heap'[f].name = heap[f].name
<1>1. /\ sv.file \in FileIds /\ sv.file # NULL /\ sv.src \in DiskFiles
      /\ heap[sv.file] # NULL /\ heap[sv.file] \in FileRecord
  BY DEF SaveReadError, Looping, Saving, LocalOK, TypeOK
<1>2. PICK few \in 0 .. Lesser(Got, BytesPerBlock - 1) :
        heap' = [heap EXCEPT ![sv.file].byte_len = @ + few]
  BY DEF SaveReadError
<1>3. Got \in Nat /\ heap[sv.file].byte_len + Got <= Size[sv.src]
  BY <1>1, GotBounds DEF LocalOK
<1>4. few \in Nat /\ few <= Got
  BY <1>2, <1>3 DEF Lesser, BytesPerBlockAssumption
<1> DEFINE file == [heap[sv.file] EXCEPT !.byte_len = @ + few]
<1>5. /\ file \in FileRecord
      /\ file.byte_len = heap[sv.file].byte_len + few
      /\ file.name = heap[sv.file].name
  BY <1>1, <1>4 DEF FileRecord
<1>6. heap' = [heap EXCEPT ![sv.file] = file]
  BY <1>2
<1>7. file # NULL
  BY <1>5, NullAssumption DEF NullAssumption
<1> HIDE DEF file
<1>8. /\ heap' \in [FileIds -> FileRecord \cup {NULL}]
      /\ heap'[sv.file] = file
      /\ \A f \in FileIds \ {sv.file} : heap'[f] = heap[f]
  BY <1>1, <1>5, <1>6 DEF LocalOK, TypeOK
<1>9. file.byte_len <= Size[sv.src]
  BY <1>1, <1>3, <1>4, <1>5, SizeAssumption DEF FileRecord, SizeAssumption
<1> QED BY <1>1, <1>5, <1>7, <1>8, <1>9

LEMMA ReadErrorKeepsPlace ==
  ASSUME LocalOK, NEW b \in Blocks, SaveReadError(b)
  PROVE  /\ sv' \in [file : FileIds \cup {NULL}, src : DiskFiles \cup {NULL},
                     eof : BOOLEAN, ok : BOOLEAN, start : Blocks, num : Nat, prev : Blocks]
         /\ sv'.file = sv.file /\ sv'.src = sv.src
         /\ sv'.num = sv.num /\ sv'.start = sv.start /\ sv'.prev = sv.prev
         /\ sv'.eof = sv.eof
BY DEF SaveReadError, LocalOK, TypeOK

LEMMA SaveReadErrorLocal ==
  ASSUME LocalOK, BytesPerBlockAssumption, SizeAssumption, NullAssumption,
         NEW b \in Blocks, SaveReadError(b)
  PROVE  LocalOK'
<1>1. data' \in [Blocks -> Chunks \cup {Garbage}]
  <2>1. data' = data \/ data' = [data EXCEPT ![b] = Garbage]
    BY DEF SaveReadError
  <2> QED BY <2>1 DEF LocalOK, TypeOK
<1>2. UNCHANGED <<used, index, status>>
  BY DEF SaveReadError
<1>3. TypeOK'
  BY <1>1, <1>2, ReadErrorKeepsPlace, FailedRead DEF LocalOK, TypeOK
<1>4. SaveOK'
  BY <1>2, ReadErrorKeepsPlace, FailedRead DEF LocalOK, SaveOK
<1>5. OnDevice'
  BY <1>2 DEF LocalOK, OnDevice
<1> QED BY <1>3, <1>4, <1>5 DEF LocalOK

LEMMA SaveReturnsLocal ==
  ASSUME LocalOK, BlockCountAssumption,
         SaveCommit \/ SaveRollback \/ SaveRollbackFails \/ SaveAbandoned
  PROVE  LocalOK'
<1>1. /\ sv.file \in FileIds /\ sv.file # NULL
      /\ sv' = Idle /\ UNCHANGED <<data, status>>
      /\ used' \subseteq used
      /\ heap' = heap \/ heap' = [heap EXCEPT ![sv.file] = NULL]
      /\ \/ index' = index \/ index' = [index EXCEPT ![sv.file] = <<>>]
         \/ index' = Inserted(sv.file, Ended) /\ sv.num > 0
  BY DEF SaveCommit, SaveRollback, SaveRollbackFails, SaveAbandoned, SaveReturns, LoopOver,
         Saving, Stored, LocalOK, TypeOK, SaveOK
<1>2. heap' \in [FileIds -> FileRecord \cup {NULL}]
  BY <1>1 DEF LocalOK, TypeOK
<1>3. index' \in [FileIds -> Seq(Cluster)] /\ OnDevice'
  <2>1. CASE index' = index
    <3>1. OnDevice'
      BY <2>1 DEF LocalOK, OnDevice
    <3> QED BY <2>1, <3>1 DEF LocalOK, TypeOK
  <2>2. CASE index' = [index EXCEPT ![sv.file] = <<>>]
    <3>1. index \in [FileIds -> Seq(Cluster)] /\ <<>> \in Seq(Cluster)
      BY DEF LocalOK, TypeOK
    <3>2. index' \in [FileIds -> Seq(Cluster)]
      BY <2>2, <3>1
    <3>3. \A f \in FileIds : index'[f] = index[f] \/ index'[f] = <<>>
      BY <2>2, <3>1
    <3> QED BY <3>2, <3>3, KeysRemovedOnDevice DEF LocalOK
  <2>3. CASE index' = Inserted(sv.file, Ended) /\ sv.num > 0
    BY <1>1, <2>3, InsertedOnDevice
  <2> QED BY <1>1, <2>1, <2>2, <2>3
<1>4. TypeOK'
  BY <1>1, <1>2, <1>3, NoSaveLeft DEF LocalOK, TypeOK
<1> QED BY <1>1, <1>3, <1>4, NoSaveLeft DEF LocalOK

\* Operations on files that are stored: keys and Files go, or get a new name.
LEMMA AlterLocal ==
  ASSUME LocalOK, sv.file = NULL, sv' = sv, data' = data, used' \subseteq used,
         status' \in {"running", "aborted", "undefined", "destroyed"},
         index' \in [FileIds -> Seq(Cluster)],
         \A f \in FileIds : index'[f] = index[f] \/ index'[f] = <<>>,
         heap' \in [FileIds -> FileRecord \cup {NULL}]
  PROVE  LocalOK'
<1>1. TypeOK'
  BY DEF LocalOK, TypeOK
<1>2. SaveOK'
  BY DEF LocalOK, SaveOK, TypeOK
<1>3. OnDevice'
  BY KeysRemovedOnDevice DEF LocalOK
<1> QED BY <1>1, <1>2, <1>3 DEF LocalOK

LEMMA DeleteLocal ==
  ASSUME LocalOK, NEW n \in Names, NEW f \in FileIds, Delete(n, f)
  PROVE  LocalOK'
<1>1. CASE ~Restorable(f)
  BY <1>1, LocalFrame DEF Delete, Halt
<1>2. CASE Restorable(f)
  <2>1. /\ sv.file = NULL
        /\ used' = used \ Owned(f)
        /\ index' = [index EXCEPT ![f] = <<>>]
        /\ heap' = [heap EXCEPT ![f] = NULL]
        /\ UNCHANGED <<data, sv, status>>
    BY <1>2 DEF Delete, Ready, Between
  <2>2. /\ index' \in [FileIds -> Seq(Cluster)]
        /\ heap' \in [FileIds -> FileRecord \cup {NULL}]
        /\ \A g \in FileIds : index'[g] = index[g] \/ index'[g] = <<>>
        /\ status' \in {"running", "aborted", "undefined", "destroyed"}
    BY <2>1 DEF LocalOK, TypeOK
  <2> QED BY <2>1, <2>2, AlterLocal
<1> QED BY <1>1, <1>2

LEMMA RenameLocal ==
  ASSUME LocalOK, NEW old \in Names, NEW new \in Names, NEW f \in FileIds,
         Rename(old, new, f)
  PROVE  LocalOK'
<1>1. /\ sv.file = NULL /\ heap[f] # NULL
      /\ heap' = [heap EXCEPT ![f] = [heap[f] EXCEPT !.name = new]]
      /\ UNCHANGED <<data, used, index, sv, status>>
  BY DEF Rename, Ready, Between, Found
<1>2. [heap[f] EXCEPT !.name = new] \in FileRecord
  BY <1>1 DEF LocalOK, TypeOK, FileRecord
<1>3. /\ heap' \in [FileIds -> FileRecord \cup {NULL}]
      /\ index' \in [FileIds -> Seq(Cluster)]
      /\ status' \in {"running", "aborted", "undefined", "destroyed"}
  BY <1>1, <1>2 DEF LocalOK, TypeOK
<1> QED BY <1>1, <1>3, AlterLocal

LEMMA RenameLosesFileLocal ==
  ASSUME LocalOK, NEW old \in Names, NEW new \in Names, NEW f \in FileIds,
         RenameLosesFile(old, new, f)
  PROVE  LocalOK'
<1>1. /\ sv.file = NULL
      /\ index' = [index EXCEPT ![f] = <<>>]
      /\ UNCHANGED <<data, used, heap, sv, status>>
  BY DEF RenameLosesFile, Ready, Between
<1>2. /\ index' \in [FileIds -> Seq(Cluster)]
      /\ heap' \in [FileIds -> FileRecord \cup {NULL}]
      /\ \A g \in FileIds : index'[g] = index[g] \/ index'[g] = <<>>
      /\ status' \in {"running", "aborted", "undefined", "destroyed"}
  BY <1>1 DEF LocalOK, TypeOK
<1> QED BY <1>1, <1>2, AlterLocal

LEMMA DestroyLocal ==
  ASSUME LocalOK, Destroy
  PROVE  LocalOK'
<1>1. /\ sv.file = NULL
      /\ index' = [f \in FileIds |-> <<>>]
      /\ heap' = [f \in FileIds |-> IF f \in Keyed THEN NULL ELSE heap[f]]
      /\ used' = {} /\ status' = "destroyed"
      /\ UNCHANGED <<data, sv>>
  BY DEF Destroy, Ready, Between
<1>2. heap' \in [FileIds -> FileRecord \cup {NULL}] /\ index' \in [FileIds -> Seq(Cluster)]
  BY <1>1 DEF LocalOK, TypeOK
<1> QED BY <1>1, <1>2, AlterLocal

LEMMA LocalNext ==
  ASSUME LocalOK, [Next]_vars
  PROVE  LocalOK'
<1> USE BlockCountAssumption, BytesPerBlockAssumption, SizeAssumption, NullAssumption
<1>0. ASSUME UNCHANGED <<data, used, index, heap, sv, status>> PROVE LocalOK'
  BY <1>0, LocalFrame DEF LocalOK, TypeOK
<1>1. ASSUME NEW how \in {"aborted", "undefined"}, Halt(how) PROVE LocalOK'
  BY <1>1, LocalFrame DEF Halt
<1>2. ASSUME NEW op, NEW n, Refuse(op, n) PROVE LocalOK'
  BY <1>0, <1>2 DEF Refuse
<1>3. ASSUME NEW b \in Blocks, SaveBlock(b) \/ SaveCluster(b) \/ SaveReadError(b)
      PROVE  LocalOK'
  BY <1>3, SaveBlockLocal, SaveClusterLocal, SaveReadErrorLocal
<1>4. CASE SaveStep
  BY <1>1, <1>3, <1>4, SaveReturnsLocal DEF SaveStep, SaveInsertAborts
<1>5. CASE Lookup
  <2>1. ASSUME NEW n \in Names, LoadMissing(n) \/ LoadFailed(n) PROVE LocalOK'
    BY <1>2, <2>1 DEF LoadMissing, LoadFailed
  <2>2. ASSUME NEW n \in Names, NEW f \in FileIds, Load(n, f) PROVE LocalOK'
    <3>1. CASE Halt("aborted")
      BY <1>1, <3>1
    <3>2. CASE UNCHANGED <<data, used, index, heap, sv, status>>
      BY <3>2, LocalFrame DEF LocalOK, TypeOK
    <3> QED BY <2>2, <3>1, <3>2 DEF Load
  <2>3. CASE Dir
    BY <1>0, <2>3 DEF Dir
  <2>4. CASE DirAborts
    BY <1>1, <2>4 DEF DirAborts
  <2> QED BY <1>5, <2>1, <2>2, <2>3, <2>4 DEF Lookup
<1>6. CASE Alter
  <2>1. ASSUME NEW n \in Names,
               SaveUnopened(n) \/ SaveDuplicate(n) \/ DeleteMissing(n) \/ DeleteUnread(n)
        PROVE  LocalOK'
    BY <1>2, <2>1 DEF SaveUnopened, SaveDuplicate, DeleteMissing, DeleteUnread
  <2>2. ASSUME NEW n \in Names, NEW f \in FileIds, Delete(n, f) PROVE LocalOK'
    BY <2>2, DeleteLocal
  <2>3. ASSUME NEW n \in Names, NEW f \in FileIds, NEW d \in DiskFiles, SaveOpen(n, d, f)
        PROVE  LocalOK'
    BY <2>3, SaveOpenLocal
  <2>4. ASSUME NEW old \in Names, NEW new \in Names,
               RenameRefused(old, new) \/ RenameUnread(old, new)
        PROVE  LocalOK'
    BY <1>2, <2>4 DEF RenameRefused, RenameUnread
  <2>5. ASSUME NEW old \in Names, NEW new \in Names, RenameAborts(old, new) PROVE LocalOK'
    BY <1>1, <2>5 DEF RenameAborts
  <2>6. ASSUME NEW old \in Names, NEW new \in Names, NEW f \in FileIds,
               Rename(old, new, f) \/ RenameLosesFile(old, new, f)
        PROVE  LocalOK'
    BY <2>6, RenameLocal, RenameLosesFileLocal
  <2> QED BY <1>6, <2>1, <2>2, <2>3, <2>4, <2>5, <2>6 DEF Alter
<1>7. CASE Destroy
  BY <1>7, DestroyLocal
<1>8. CASE TouchDangling
  BY <1>1, <1>8 DEF TouchDangling
<1>9. CASE Halted \/ UNCHANGED vars
  BY <1>0, <1>9 DEF Halted, vars
<1> QED BY <1>4, <1>5, <1>6, <1>7, <1>8, <1>9 DEF Next

-----------------------------------------------------------------------------
(* While the marks are right, no cluster meets another: steps that touch no   *)
(* block or cluster                                                          *)

LEMMA ApartKept ==
  ASSUME IInv, UNCHANGED <<used, index, sv>>
  PROVE  Disjoint' /\ Protected'
BY DEF IInv, LocalOK, Disjoint, Protected, Pending, Owned, Covers

-----------------------------------------------------------------------------
(* Steps that take keys away: the blocks of what is left stay marked *)

LEMMA KeysRemoved ==
  ASSUME IInv,
         NEW gone \in SUBSET FileIds,
         index' = [f \in FileIds |-> IF f \in gone THEN <<>> ELSE index[f]],
         used' \subseteq Blocks,
         Pending' \subseteq Pending,
         Pending' \subseteq used',
         \A f \in FileIds \ gone : Owned(f) \subseteq used'
  PROVE  Disjoint' /\ Protected'
<1> USE DEF IInv, LocalOK
<1>1. \A f \in FileIds : \A i \in DOMAIN index'[f] :
        f \notin gone /\ i \in DOMAIN index[f] /\ index'[f][i] = index[f][i]
  OBVIOUS
<1>2. Disjoint'
  BY <1>1 DEF Disjoint, Covers
<1>3. \A f \in FileIds : f \notin gone => Owned(f)' = Owned(f)
  BY DEF Owned, Covers
<1>4. \A f \in FileIds : f \in gone => Owned(f)' = {}
  BY DEF Owned
<1>5. Protected'
  BY <1>3, <1>4 DEF Protected
<1> QED BY <1>2, <1>5

LEMMA OwnedApart ==
  ASSUME Disjoint, NEW f \in FileIds
  PROVE  /\ Owned(f) \cap Pending = {}
         /\ \A g \in FileIds \ {f} : Owned(f) \cap Owned(g) = {}
BY DEF Disjoint, Owned

LEMMA IdleHasNoPending ==
  ASSUME LocalOK, sv.num = 0
  PROVE  Pending = {}
BY DEF LocalOK, TypeOK, Pending, Covers

-----------------------------------------------------------------------------
(* A save takes a block *)

LEMMA FreeBlockIsNobodys ==
  ASSUME Protected, NEW b \in Blocks, NextFree(b)
  PROVE  /\ b \notin Pending
         /\ \A f \in FileIds : b \notin Owned(f)
BY DEF Protected, NextFree

\* The new block is the next one of the pending run, or the first of one.
LEMMA PendingGrows ==
  ASSUME LocalOK, BlockCountAssumption, NEW b \in Blocks, NextFree(b), Adjoins(b)
  PROVE  LET first == IF sv.num = 0 THEN b ELSE sv.start
         IN \A c \in Blocks : Covers([num |-> sv.num + 1, start |-> first], c) <=> c \in Pending \cup {b}
<1>1. CASE sv.num = 0
  BY <1>1 DEF LocalOK, TypeOK, Pending, Covers
<1>2. CASE sv.num > 0
  <2>1. b # sv.prev
    BY <1>2 DEF LocalOK, SaveOK, NextFree
  <2>2. b = sv.start + sv.num
    BY <1>2, <2>1 DEF LocalOK, TypeOK, SaveOK, NextFree, Adjoins
  <2> QED BY <1>2, <2>2 DEF LocalOK, TypeOK, Pending, Covers
<1> QED BY <1>1, <1>2 DEF LocalOK, TypeOK

\* The pending run becomes a cluster, and only free blocks become pending.
LEMMA PendingInserted ==
  ASSUME IInv, BlockCountAssumption, sv.file \in FileIds, sv.num > 0,
         index' = Inserted(sv.file, Ended),
         used \subseteq used', Pending' \subseteq used' \ used
  PROVE  Disjoint' /\ Protected'
<1> USE DEF IInv, LocalOK
<1>1. \A b \in Blocks : Covers(Ended, b) <=> b \in Pending
  BY DEF Ended, Pending, Covers
<1>2. \A g \in FileIds : \A i \in DOMAIN index'[g] :
        \/ i \in DOMAIN index[g] /\ index'[g][i] = index[g][i]
        \/ g = sv.file /\ i = Len(index[sv.file]) + 1 /\ index'[g][i] = Ended
  BY InsertedOnDevice
<1>3. ASSUME NEW g \in FileIds, NEW i \in DOMAIN index'[g], NEW b \in Blocks,
             Covers(index'[g][i], b)
      PROVE  b \in used
  <2>1. CASE i \in DOMAIN index[g] /\ index'[g][i] = index[g][i]
    BY <1>3, <2>1 DEF Protected, Owned
  <2>2. CASE index'[g][i] = Ended
    BY <1>1, <1>3, <2>2 DEF Protected
  <2> QED BY <1>2, <2>1, <2>2
<1>4. Protected'
  <2>1. ASSUME NEW g \in FileIds, NEW b \in Owned(g)'
        PROVE  b \in used
    <3>1. b \in Blocks /\ \E i \in DOMAIN index'[g] : Covers(index'[g][i], b)
      BY DEF Owned, Covers
    <3> QED BY <1>3, <3>1
  <2> QED BY <2>1 DEF Protected
<1>5. Disjoint'
  <2>1. ASSUME NEW g \in FileIds, NEW i \in DOMAIN index'[g], NEW b \in Blocks,
               Covers(index'[g][i], b)
        PROVE  b \notin Pending'
    BY <1>3, <2>1
  <2>2. ASSUME NEW f \in FileIds, NEW g \in FileIds,
               NEW i \in DOMAIN index'[f], NEW j \in DOMAIN index'[g],
               NEW b \in Blocks, Covers(index'[f][i], b), Covers(index'[g][j], b)
        PROVE  f = g /\ i = j
    <3>1. CASE i \in DOMAIN index[f] /\ index'[f][i] = index[f][i]
               /\ j \in DOMAIN index[g] /\ index'[g][j] = index[g][j]
      BY <2>2, <3>1 DEF Disjoint
    <3>2. CASE i \in DOMAIN index[f] /\ index'[f][i] = index[f][i] /\ index'[g][j] = Ended
      BY <1>1, <2>2, <3>2 DEF Disjoint
    <3>3. CASE j \in DOMAIN index[g] /\ index'[g][j] = index[g][j] /\ index'[f][i] = Ended
      BY <1>1, <2>2, <3>3 DEF Disjoint
    <3> QED BY <1>2, <3>1, <3>2, <3>3
  <2>3. ASSUME NEW g \in FileIds, NEW i \in DOMAIN index'[g], NEW b \in Blocks
        PROVE  Covers(index[g][i], b)' <=> Covers(index'[g][i], b)
    BY DEF Covers
  <2> QED BY <2>1, <2>2, <2>3 DEF Disjoint
<1> QED BY <1>4, <1>5


-----------------------------------------------------------------------------
(* The steps of a save *)

LEMMA SaveOpenApart ==
  ASSUME IInv, NEW n \in Names, NEW d \in DiskFiles, NEW f \in FileIds, SaveOpen(n, d, f)
  PROVE  Disjoint' /\ Protected'
<1>1. /\ UNCHANGED <<used, index>>
      /\ sv' = [file |-> f, src |-> d, eof |-> FALSE, ok |-> TRUE,
                start |-> 0, num |-> 0, prev |-> 0]
  BY DEF SaveOpen, Idle
<1>2. Pending' = {}
  BY <1>1 DEF Pending, Covers
<1> QED BY <1>1, <1>2 DEF IInv, Disjoint, Protected, Owned, Covers

LEMMA SaveBlockApart ==
  ASSUME IInv, BlockCountAssumption, NEW b \in Blocks, SaveBlock(b)
  PROVE  Disjoint' /\ Protected'
<1>1. /\ index' = index /\ used' = used \cup {b}
      /\ NextFree(b) /\ Adjoins(b)
  BY DEF SaveBlock, StoreChunk
<1>2. /\ sv'.start = (IF sv.num = 0 THEN b ELSE sv.start)
      /\ sv'.num = sv.num + 1
  BY DEF SaveBlock, IInv, LocalOK, TypeOK
<1>3. \A c \in Blocks : Covers(sv', c) <=> c \in Pending \cup {b}
  BY <1>1, <1>2, PendingGrows DEF Covers, IInv
<1>4. Pending' = Pending \cup {b}
  BY <1>3 DEF Pending, Covers
<1> QED BY <1>1, <1>4, FreeBlockIsNobodys DEF IInv, Disjoint, Protected, Owned, Covers

LEMMA SaveClusterApart ==
  ASSUME IInv, BlockCountAssumption, NEW b \in Blocks, SaveCluster(b)
  PROVE  Disjoint' /\ Protected'
<1>1. /\ sv.file \in FileIds /\ sv.num > 0
      /\ NextFree(b) /\ used' = used \cup {b} /\ b \notin used
      /\ index' = IF CanInsert(sv.file) THEN Inserted(sv.file, Ended) ELSE index
  BY DEF SaveCluster, Looping, Saving, Adjoins, StoreChunk, NextFree, IInv, LocalOK, TypeOK
<1>2. sv'.start = b /\ sv'.num = 1
  BY DEF SaveCluster, IInv, LocalOK, TypeOK
<1>3. Pending' = {b}
  BY <1>2 DEF Pending, Covers
<1>4. CASE CanInsert(sv.file)
  BY <1>1, <1>3, <1>4, PendingInserted
<1>5. CASE ~CanInsert(sv.file)
  BY <1>1, <1>3, <1>5, FreeBlockIsNobodys DEF IInv, Disjoint, Protected, Owned, Covers
<1> QED BY <1>4, <1>5

LEMMA SaveReadErrorApart ==
  ASSUME IInv, NEW b \in Blocks, SaveReadError(b)
  PROVE  Disjoint' /\ Protected'
<1>1. UNCHANGED <<used, index>> /\ sv'.num = sv.num /\ sv'.start = sv.start
  BY ReadErrorKeepsPlace DEF SaveReadError, IInv
<1> QED BY <1>1 DEF IInv, Disjoint, Protected, Pending, Owned, Covers

LEMMA SaveReturnsApart ==
  ASSUME IInv, BlockCountAssumption,
         SaveCommit \/ SaveRollback \/ SaveRollbackFails \/ SaveAbandoned
  PROVE  Disjoint' /\ Protected'
<1>1. sv.file \in FileIds /\ sv' = Idle
  BY DEF SaveCommit, SaveRollback, SaveRollbackFails, SaveAbandoned, SaveReturns, LoopOver,
         Saving, IInv, LocalOK, TypeOK
<1>2. Pending' = {}
  BY <1>1, NoSaveLeft
<1>3. CASE SaveCommit \/ SaveRollbackFails
  <2>1. sv.num > 0 /\ index' = Inserted(sv.file, Ended) /\ used' = used
    BY <1>3 DEF SaveCommit, SaveRollbackFails, Stored, IInv, LocalOK, SaveOK
  <2> QED BY <1>1, <1>2, <2>1, PendingInserted
<1>4. CASE SaveRollback
  <2>1. /\ index' = [index EXCEPT ![sv.file] = <<>>]
        /\ used' = used \ (Owned(sv.file) \cup Pending)
    BY <1>4 DEF SaveRollback
  <2>2. index' = [f \in FileIds |-> IF f \in {sv.file} THEN <<>> ELSE index[f]]
    BY <1>1, <2>1 DEF IInv, LocalOK, TypeOK
  <2>3. \A g \in FileIds \ {sv.file} : Owned(g) \subseteq used'
    BY <1>1, <2>1, OwnedApart DEF IInv, Protected
  <2>4. {sv.file} \in SUBSET FileIds /\ used' \subseteq Blocks
    BY <1>1, <2>1 DEF IInv, LocalOK, TypeOK
  <2> QED BY <1>2, <2>2, <2>3, <2>4, KeysRemoved
<1>5. CASE SaveAbandoned
  <2>1. UNCHANGED <<used, index>>
    BY <1>5 DEF SaveAbandoned
  <2> QED BY <1>2, <2>1 DEF IInv, Disjoint, Protected, Owned, Covers
<1> QED BY <1>3, <1>4, <1>5

-----------------------------------------------------------------------------
(* imffs_delete, imffs_rename and imffs_destroy *)

LEMMA DeleteApart ==
  ASSUME IInv, NEW n \in Names, NEW f \in FileIds, Delete(n, f)
  PROVE  Disjoint' /\ Protected'
<1>1. CASE ~Restorable(f)
  BY <1>1, ApartKept DEF Delete, Halt
<1>2. CASE Restorable(f)
  <2>1. /\ sv.file = NULL /\ sv' = sv
        /\ used' = used \ Owned(f)
        /\ index' = [index EXCEPT ![f] = <<>>]
    BY <1>2 DEF Delete, Ready, Between
  <2>2. index' = [g \in FileIds |-> IF g \in {f} THEN <<>> ELSE index[g]]
    BY <2>1 DEF IInv, LocalOK, TypeOK
  <2>3. Pending = {} /\ Pending' = {}
    BY <2>1, IdleHasNoPending DEF IInv, LocalOK, SaveOK, Pending, Covers
  <2>4. \A g \in FileIds \ {f} : Owned(g) \subseteq used'
    BY <2>1, OwnedApart DEF IInv, Protected
  <2>5. {f} \in SUBSET FileIds /\ used' \subseteq Blocks
    BY <2>1 DEF IInv, LocalOK, TypeOK
  <2> QED BY <2>2, <2>3, <2>4, <2>5, KeysRemoved
<1> QED BY <1>1, <1>2

LEMMA RenameLosesFileApart ==
  ASSUME IInv, NEW old \in Names, NEW new \in Names, NEW f \in FileIds,
         RenameLosesFile(old, new, f)
  PROVE  Disjoint' /\ Protected'
<1>1. /\ index' = [index EXCEPT ![f] = <<>>]
      /\ UNCHANGED <<used, sv>>
  BY DEF RenameLosesFile
<1>2. index' = [g \in FileIds |-> IF g \in {f} THEN <<>> ELSE index[g]]
  BY <1>1 DEF IInv, LocalOK, TypeOK
<1>3. Pending' = Pending /\ used' \subseteq Blocks /\ {f} \in SUBSET FileIds
  BY <1>1 DEF Pending, Covers, IInv, LocalOK, TypeOK
<1>4. Pending' \subseteq used' /\ \A g \in FileIds \ {f} : Owned(g) \subseteq used'
  BY <1>1, <1>3 DEF IInv, Protected
<1> QED BY <1>2, <1>3, <1>4, KeysRemoved

LEMMA DestroyApart ==
  ASSUME IInv, Destroy
  PROVE  Disjoint' /\ Protected'
<1>1. sv.file = NULL /\ index' = [f \in FileIds |-> <<>>] /\ used' = {} /\ sv' = sv
  BY DEF Destroy, Ready, Between
<1>2. Pending' = {}
  BY <1>1, IdleHasNoPending DEF IInv, LocalOK, SaveOK, Pending, Covers
<1> QED BY <1>1, <1>2 DEF Disjoint, Protected, Owned

-----------------------------------------------------------------------------
(* The inductive invariant *)

LEMMA LocalInit ==
  ASSUME BlockCountAssumption, Init
  PROVE  LocalOK
<1>1. sv = [file |-> NULL, src |-> NULL, eof |-> FALSE, ok |-> TRUE,
            start |-> 0, num |-> 0, prev |-> 0]
  BY DEF Init, Idle
<1>2. TypeOK
  BY <1>1 DEF Init, TypeOK, BlockCountAssumption
<1>3. SaveOK /\ OnDevice
  BY <1>1 DEF SaveOK, Init, OnDevice
<1> QED BY <1>2, <1>3 DEF LocalOK

LEMMA IInvInit ==
  ASSUME BlockCountAssumption, Init
  PROVE  IInv
<1>1. sv.num = 0
  BY DEF Init, Idle
<1>2. Pending = {}
  BY <1>1, LocalInit DEF Pending, Covers, LocalOK, TypeOK
<1>3. \A f \in FileIds : index[f] = <<>> /\ Owned(f) = {}
  BY DEF Init, Owned
<1>4. Disjoint /\ Protected
  BY <1>2, <1>3 DEF Disjoint, Protected
<1> QED BY <1>4, LocalInit DEF IInv

LEMMA IInvNext ==
  ASSUME IInv, [Next]_vars
  PROVE  IInv'
<1> USE BlockCountAssumption
<1> SUFFICES Disjoint' /\ Protected'
  BY LocalNext DEF IInv
<1>0. ASSUME UNCHANGED <<used, index, sv>> PROVE Disjoint' /\ Protected'
  BY <1>0, ApartKept
<1>1. CASE SaveStep
  <2>1. ASSUME NEW b \in Blocks, SaveBlock(b) \/ SaveCluster(b) \/ SaveReadError(b)
        PROVE  Disjoint' /\ Protected'
    BY <2>1, SaveBlockApart, SaveClusterApart, SaveReadErrorApart
  <2>2. CASE SaveInsertAborts
    BY <1>0, <2>2 DEF SaveInsertAborts, Halt
  <2> QED BY <1>1, <2>1, <2>2, SaveReturnsApart DEF SaveStep
<1>2. CASE Lookup
  BY <1>0, <1>2 DEF Lookup, Load, LoadMissing, LoadFailed, Dir, DirAborts, Refuse, Halt
<1>3. CASE Alter
  <2>1. ASSUME NEW n \in Names,
               SaveUnopened(n) \/ SaveDuplicate(n) \/ DeleteMissing(n) \/ DeleteUnread(n)
        PROVE  Disjoint' /\ Protected'
    BY <1>0, <2>1 DEF SaveUnopened, SaveDuplicate, DeleteMissing, DeleteUnread, Refuse
  <2>2. ASSUME NEW n \in Names, NEW f \in FileIds, NEW d \in DiskFiles, SaveOpen(n, d, f)
        PROVE  Disjoint' /\ Protected'
    BY <2>2, SaveOpenApart
  <2>3. ASSUME NEW n \in Names, NEW f \in FileIds, Delete(n, f)
        PROVE  Disjoint' /\ Protected'
    BY <2>3, DeleteApart
  <2>4. ASSUME NEW old \in Names, NEW new \in Names,
               RenameRefused(old, new) \/ RenameUnread(old, new) \/ RenameAborts(old, new)
        PROVE  Disjoint' /\ Protected'
    BY <1>0, <2>4 DEF RenameRefused, RenameUnread, RenameAborts, Refuse, Halt
  <2>5. ASSUME NEW old \in Names, NEW new \in Names, NEW f \in FileIds,
               Rename(old, new, f) \/ RenameLosesFile(old, new, f)
        PROVE  Disjoint' /\ Protected'
    BY <1>0, <2>5, RenameLosesFileApart DEF Rename
  <2> QED BY <1>3, <2>1, <2>2, <2>3, <2>4, <2>5 DEF Alter
<1>4. CASE Destroy
  BY <1>4, DestroyApart
<1>5. CASE TouchDangling \/ Halted \/ UNCHANGED vars
  BY <1>0, <1>5 DEF TouchDangling, Halted, Halt, vars
<1> QED BY <1>1, <1>2, <1>3, <1>4, <1>5 DEF Next

\* Types, for every device and every set of files.
THEOREM TypeCorrect == Spec => []TypeOK
<1>1. Init => IInv
  BY IInvInit, BlockCountAssumption
<1>2. IInv /\ [Next]_vars => IInv'
  BY IInvNext
<1>3. IInv => TypeOK
  BY DEF IInv, LocalOK
<1> QED BY <1>1, <1>2, <1>3, PTL DEF Spec

\* No block is ever shared by two files, off the device, or free to be taken by
\* a save while a file or a save still needs it: whatever the order of saves,
\* rollbacks, deletes and renames, with or without memory (a5_imffs.c, 334 to 630).
THEOREM BlocksSeparate == Spec => []NoBlockShared
<1>1. Init => IInv
  BY IInvInit, BlockCountAssumption
<1>2. IInv /\ [Next]_vars => IInv'
  BY IInvNext
<1>3. IInv => NoBlockShared
  BY DEF IInv, LocalOK, NoBlockShared
<1> QED BY <1>1, <1>2, <1>3, PTL DEF Spec

\* Whatever belongs to a file is marked and lies in one of its clusters only.
LEMMA NothingRestoredTwice == IInv => DeleteNeverAborts
<1> SUFFICES ASSUME IInv, NEW f \in FileIds, NEW i \in DOMAIN index[f],
                    NEW b \in index[f][i].start .. index[f][i].start + index[f][i].num - 1
             PROVE  /\ b \in used
                    /\ \A j \in 1 .. i - 1 : ~Covers(index[f][j], b)
  BY DEF DeleteNeverAborts, Restorable
<1>1. /\ index[f][i] \in Cluster /\ i \in 1 .. Len(index[f]) /\ Len(index[f]) \in Nat
      /\ DOMAIN index[f] = 1 .. Len(index[f])
  <2> DEFINE s == index[f]
  <2>1. s \in Seq(Cluster) /\ i \in DOMAIN s
    BY DEF IInv, LocalOK, TypeOK
  <2> HIDE DEF s, Cluster
  <2>2. Len(s) \in Nat /\ DOMAIN s = 1 .. Len(s)
    BY <2>1
  <2>3. s[i] \in Cluster
    BY <2>1, <2>2
  <2> QED BY <2>1, <2>2, <2>3 DEF s
<1>2. b \in Blocks /\ Covers(index[f][i], b)
  <2>1. /\ index[f][i].start \in Nat /\ index[f][i].num \in Nat
        /\ index[f][i].start + index[f][i].num <= BlockCount
    BY <1>1 DEF IInv, LocalOK, OnDevice
  <2> QED BY <2>1, BlockCountAssumption DEF Covers
<1>3. b \in used
  BY <1>2 DEF IInv, LocalOK, Protected, Owned
<1>4. \A j \in 1 .. i - 1 : j \in DOMAIN index[f] /\ j # i
  BY <1>1
<1>5. \A j \in 1 .. i - 1 : ~Covers(index[f][j], b)
  BY <1>2, <1>4 DEF IInv, LocalOK, Disjoint
<1> QED BY <1>3, <1>5

\* No file can be in a state in which restore_free_space would fail one of its
\* assertions (lines 104 and 105): before any defragmentation, deletes are safe.
THEOREM DeletesSafe == Spec => []DeleteNeverAborts
<1>1. Init => IInv
  BY IInvInit, BlockCountAssumption
<1>2. IInv /\ [Next]_vars => IInv'
  BY IInvNext
<1>3. IInv => DeleteNeverAborts
  BY NothingRestoredTwice
<1> QED BY <1>1, <1>2, <1>3, PTL DEF Spec

-----------------------------------------------------------------------------
(* With memory enough, the heap holds the files of the index and no other.  *)

LEMMA StoredChunkKeepsHeap ==
  ASSUME LocalOK, BytesPerBlockAssumption, SizeAssumption, NullAssumption,
         NEW b \in Blocks, StoreChunk(b), sv.file # NULL
  PROVE  /\ sv.file \in FileIds
         /\ \A f \in FileIds : heap'[f] = NULL <=> heap[f] = NULL
         /\ \A f \in FileIds : heap[f] # NULL => heap'[f].name = heap[f].name
<1>1. sv.file \in FileIds /\ heap[sv.file] # NULL /\ heap[sv.file] \in FileRecord
  BY DEF LocalOK, TypeOK
<1>2. heap' = [heap EXCEPT ![sv.file] = [heap[sv.file] EXCEPT !.byte_len = @ + Got]]
  BY DEF StoreChunk
<1>3. heap'[sv.file] # NULL
  BY <1>1, StoreChunkTypes
<1>4. heap'[sv.file].name = heap[sv.file].name
  BY <1>1, <1>2 DEF LocalOK, TypeOK, FileRecord
<1>5. \A f \in FileIds \ {sv.file} : heap'[f] = heap[f]
  BY <1>1, <1>2 DEF LocalOK, TypeOK
<1> QED BY <1>1, <1>3, <1>4, <1>5

\* A file that is not a key before the insertion is one after it.
LEMMA InsertedKey ==
  ASSUME LocalOK, sv.file \in FileIds, index' = Inserted(sv.file, Ended)
  PROVE  Keyed' = Keyed \cup {sv.file}
<1>1. index[sv.file] \in Seq(Cluster) /\ Ended \in Cluster
  BY DEF LocalOK, TypeOK, Ended
<1>2. Append(index[sv.file], Ended) # <<>>
  BY <1>1
<1>3. index'[sv.file] = Append(index[sv.file], Ended)
  BY DEF Inserted, LocalOK, TypeOK
<1>4. \A g \in FileIds \ {sv.file} : index'[g] = index[g]
  BY DEF Inserted, LocalOK, TypeOK
<1> QED BY <1>2, <1>3, <1>4 DEF Keyed

LEMMA HeapExactNext ==
  ASSUME LocalOK, ~MallocMayFail, HeapExact, [Next]_vars
  PROVE  HeapExact'
<1> USE BytesPerBlockAssumption, SizeAssumption, NullAssumption
<1>0. ASSUME UNCHANGED <<index, heap, sv>> PROVE HeapExact'
  BY <1>0 DEF HeapExact, Keyed
<1>1. ASSUME NEW b \in Blocks, SaveBlock(b) PROVE HeapExact'
  <2>1. /\ sv.file # NULL /\ StoreChunk(b) /\ index' = index
        /\ sv'.file = sv.file
    BY <1>1 DEF SaveBlock, Looping, Saving, LocalOK, TypeOK
  <2> QED BY <2>1, StoredChunkKeepsHeap DEF HeapExact, Keyed
<1>2. ASSUME NEW b \in Blocks, SaveCluster(b) PROVE HeapExact'
  <2>1. /\ sv.file # NULL /\ StoreChunk(b)
        /\ index' = IF CanInsert(sv.file) THEN Inserted(sv.file, Ended) ELSE index
        /\ sv'.file = sv.file
    BY <1>2 DEF SaveCluster, Looping, Saving, LocalOK, TypeOK
  <2>2. Keyed' \cup {sv.file} = Keyed \cup {sv.file}
    BY <2>1, StoredChunkKeepsHeap, InsertedKey DEF Keyed
  <2> QED BY <2>1, <2>2, StoredChunkKeepsHeap DEF HeapExact
<1>3. ASSUME NEW b \in Blocks, SaveReadError(b) PROVE HeapExact'
  BY <1>3, FailedRead DEF SaveReadError, HeapExact, Keyed, LocalOK, TypeOK
<1>4. CASE SaveCommit
  <2>1. /\ sv.file # NULL /\ sv'.file = NULL
        /\ index' = Inserted(sv.file, Ended) /\ heap' = heap
    BY <1>4 DEF SaveCommit, LoopOver, Saving, SaveReturns, Idle
  <2>2. Keyed' = Keyed \cup {sv.file}
    BY <2>1, InsertedKey DEF LocalOK, TypeOK
  <2> QED BY <2>1, <2>2 DEF HeapExact
<1>5. CASE SaveRollback
  <2>1. /\ sv.file # NULL /\ sv'.file = NULL
        /\ index' = [index EXCEPT ![sv.file] = <<>>]
        /\ heap' = [heap EXCEPT ![sv.file] = NULL]
    BY <1>5 DEF SaveRollback, LoopOver, Saving, SaveReturns, Idle
  <2>2. Keyed' = Keyed \ {sv.file}
    BY <2>1 DEF Keyed, LocalOK, TypeOK
  <2>3. {f \in FileIds : heap'[f] # NULL} = {f \in FileIds : heap[f] # NULL} \ {sv.file}
    BY <2>1 DEF LocalOK, TypeOK
  <2> QED BY <2>1, <2>2, <2>3 DEF HeapExact
<1>6. CASE SaveAbandoned
  <2>1. /\ sv.file # NULL /\ sv'.file = NULL
        /\ sv.num = 0 \/ ~CanInsert(sv.file)
        /\ index' = index
        /\ heap' = [heap EXCEPT ![sv.file] = NULL]
    BY <1>6 DEF SaveAbandoned, LoopOver, Saving, SaveReturns, Idle
  <2>2. sv.file \notin Keyed /\ Keyed' = Keyed
    BY <2>1 DEF LocalOK, SaveOK, CanInsert, Keyed
  <2>3. {f \in FileIds : heap'[f] # NULL} = {f \in FileIds : heap[f] # NULL} \ {sv.file}
    BY <2>1 DEF LocalOK, TypeOK
  <2> QED BY <2>1, <2>2, <2>3 DEF HeapExact
<1>7. ASSUME NEW n \in Names, NEW d \in DiskFiles, NEW f \in FileIds, SaveOpen(n, d, f)
      PROVE  HeapExact'
  <2>1. /\ sv.file = NULL /\ sv'.file = f /\ index' = index
        /\ heap' = [heap EXCEPT ![f] = [name |-> n, byte_len |-> 0]]
    BY <1>7 DEF SaveOpen, Ready, Between, Idle
  <2>2. [name |-> n, byte_len |-> 0] # NULL
    BY DEF FileRecord
  <2>3. {g \in FileIds : heap'[g] # NULL} = {g \in FileIds : heap[g] # NULL} \cup {f}
    BY <2>1, <2>2 DEF LocalOK, TypeOK
  <2> QED BY <2>1, <2>3 DEF HeapExact, Keyed
<1>8. ASSUME NEW n \in Names, NEW f \in FileIds, Delete(n, f) PROVE HeapExact'
  <2>1. CASE ~Restorable(f)
    BY <1>0, <1>8, <2>1 DEF Delete, Halt
  <2>2. CASE Restorable(f)
    <3>1. /\ sv.file = NULL /\ sv' = sv
          /\ index' = [index EXCEPT ![f] = <<>>]
          /\ heap' = [heap EXCEPT ![f] = NULL]
      BY <1>8, <2>2 DEF Delete, Ready, Between
    <3>2. Keyed' = Keyed \ {f}
      BY <3>1 DEF Keyed, LocalOK, TypeOK
    <3>3. {g \in FileIds : heap'[g] # NULL} = {g \in FileIds : heap[g] # NULL} \ {f}
      BY <3>1 DEF LocalOK, TypeOK
    <3> QED BY <3>1, <3>2, <3>3 DEF HeapExact
  <2> QED BY <2>1, <2>2
<1>9. ASSUME NEW old \in Names, NEW new \in Names, NEW f \in FileIds, Rename(old, new, f)
      PROVE  HeapExact'
  <2>1. /\ heap[f] # NULL /\ UNCHANGED <<index, sv>>
        /\ heap' = [heap EXCEPT ![f] = [heap[f] EXCEPT !.name = new]]
    BY <1>9 DEF Rename, Found
  <2>2. [heap[f] EXCEPT !.name = new] # NULL
    BY <2>1 DEF LocalOK, TypeOK, FileRecord
  <2>3. {g \in FileIds : heap'[g] # NULL} = {g \in FileIds : heap[g] # NULL}
    BY <2>1, <2>2 DEF LocalOK, TypeOK
  <2> QED BY <2>1, <2>3 DEF HeapExact, Keyed
<1>10. CASE Destroy
  <2>1. /\ sv.file = NULL /\ sv' = sv
        /\ index' = [f \in FileIds |-> <<>>]
        /\ heap' = [f \in FileIds |-> IF f \in Keyed THEN NULL ELSE heap[f]]
    BY <1>10 DEF Destroy, Ready, Between
  <2>2. Keyed' = {}
    BY <2>1 DEF Keyed
  <2>3. \A f \in FileIds : heap'[f] = NULL
    BY <2>1 DEF HeapExact
  <2> QED BY <2>1, <2>2, <2>3 DEF HeapExact
<1>11. CASE SaveStep
  BY <1>0, <1>1, <1>2, <1>3, <1>4, <1>5, <1>6, <1>11
  DEF SaveStep, SaveRollbackFails, SaveInsertAborts
<1>12. CASE Lookup
  BY <1>0, <1>12 DEF Lookup, LoadMissing, LoadFailed, Refuse, Load, Dir, DirAborts, Halt
<1>13. CASE Alter
  <2>1. ASSUME NEW n \in Names,
               SaveUnopened(n) \/ SaveDuplicate(n) \/ DeleteMissing(n) \/ DeleteUnread(n)
        PROVE  HeapExact'
    BY <1>0, <2>1 DEF SaveUnopened, SaveDuplicate, DeleteMissing, DeleteUnread, Refuse
  <2>2. ASSUME NEW old \in Names, NEW new \in Names,
               RenameRefused(old, new) \/ RenameUnread(old, new) \/ RenameAborts(old, new)
        PROVE  HeapExact'
    BY <1>0, <2>2 DEF RenameRefused, RenameUnread, RenameAborts, Refuse
  <2>3. ASSUME NEW old \in Names, NEW new \in Names, NEW f \in FileIds,
               RenameLosesFile(old, new, f)
        PROVE  HeapExact'
    BY <2>3 DEF RenameLosesFile
  <2> QED BY <1>7, <1>8, <1>9, <1>13, <2>1, <2>2, <2>3 DEF Alter
<1>14. CASE TouchDangling \/ Halted \/ UNCHANGED vars
  BY <1>0, <1>14 DEF TouchDangling, Halted, Halt, vars
<1> QED BY <1>10, <1>11, <1>12, <1>13, <1>14 DEF Next

\* As long as no malloc fails, every File on the heap is a key or is being
\* saved, and every key is a live File: saves, rollbacks, deletes, renames and
\* the final destroy free each File once and leave none behind.
THEOREM HeapIsExact == Spec => [](MallocMayFail \/ HeapExact)
<1>1. Init => IInv
  BY IInvInit, BlockCountAssumption
<1>2. IInv /\ [Next]_vars => IInv'
  BY IInvNext
<1>3. Init => HeapExact
  BY DEF Init, HeapExact, Keyed, Idle
<1>4. IInv /\ ~MallocMayFail /\ HeapExact /\ [Next]_vars => HeapExact'
  BY HeapExactNext DEF IInv
<1>5. CASE MallocMayFail
  BY <1>5, PTL
<1>6. CASE ~MallocMayFail
  BY <1>1, <1>2, <1>3, <1>4, <1>6, PTL DEF Spec
<1> QED BY <1>5, <1>6

\* As long as no malloc fails, no freed File is ever used.
THEOREM NoUseAfterFree == Spec => [](MallocMayFail \/ NoDangling)
<1>1. Init => NoDangling
  BY DEF Init, NoDangling
<1>2. (MallocMayFail \/ HeapExact) /\ NoDangling /\ [Next]_vars => MallocMayFail \/ NoDangling'
  <2> SUFFICES ASSUME ~MallocMayFail, HeapExact, NoDangling, [Next]_vars
               PROVE  NoDangling'
    OBVIOUS
  <2> USE DEF NoDangling
  <2>1. Clean
    BY DEF HeapExact, Clean
  <2>2. ASSUME NEW op, NEW n, Refuse(op, n) PROVE NoDangling'
    BY <2>2 DEF Refuse
  <2>3. CASE SaveStep
    BY <2>3 DEF SaveStep, SaveBlock, SaveCluster, SaveReadError, SaveCommit, SaveRollback,
                SaveRollbackFails, SaveAbandoned, SaveInsertAborts, SaveReturns
  <2>4. CASE Lookup
    BY <2>2, <2>4 DEF Lookup, LoadMissing, LoadFailed, Load, Dir, DirAborts, Halt
  <2>5. CASE Alter
    <3>1. ASSUME NEW n \in Names, NEW f \in FileIds, Delete(n, f) PROVE NoDangling'
      BY <3>1 DEF Delete, Halt
    <3>2. ASSUME NEW n \in Names, NEW d \in DiskFiles, NEW f \in FileIds, SaveOpen(n, d, f)
          PROVE  NoDangling'
      BY <3>2 DEF SaveOpen
    <3>3. ASSUME NEW old \in Names, NEW new \in Names, NEW f \in FileIds,
                 Rename(old, new, f) \/ RenameLosesFile(old, new, f)
          PROVE  NoDangling'
      BY <3>3 DEF Rename, RenameLosesFile
    <3> QED BY <2>2, <2>5, <3>1, <3>2, <3>3
            DEF Alter, SaveUnopened, SaveDuplicate, DeleteMissing, DeleteUnread,
                RenameRefused, RenameUnread, RenameAborts
  <2>6. CASE Destroy \/ TouchDangling \/ Halted \/ UNCHANGED vars
    BY <2>1, <2>6 DEF Destroy, TouchDangling, Halted, vars
  <2> QED BY <2>3, <2>4, <2>5, <2>6 DEF Next
<1>3. CASE MallocMayFail
  BY <1>3, PTL
<1>4. CASE ~MallocMayFail
  <2>1. HeapExact /\ NoDangling /\ [Next]_vars => NoDangling'
    BY <1>2, <1>4
  <2>2. Spec => []HeapExact
    BY <1>4, HeapIsExact, PTL
  <2> QED BY <1>1, <2>1, <2>2, PTL DEF Spec
<1> QED BY <1>3, <1>4

-----------------------------------------------------------------------------
(* Names *)

LEMMA NamesKept ==
  ASSUME NamesUnique, Live' \subseteq Live,
         \A f \in Live' : heap'[f].name = heap[f].name
  PROVE  NamesUnique'
BY DEF NamesUnique

LEMMA NamesUniqueNext ==
  ASSUME LocalOK, NamesUnique, [Next]_vars
  PROVE  NamesUnique'
<1> USE BytesPerBlockAssumption, SizeAssumption, NullAssumption
<1>0. ASSUME UNCHANGED <<index, heap, sv>> PROVE NamesUnique'
  BY <1>0 DEF NamesUnique, Live, Keyed
<1>1. ASSUME NEW b \in Blocks, SaveBlock(b) PROVE NamesUnique'
  <2>1. /\ sv.file # NULL /\ StoreChunk(b) /\ index' = index
        /\ sv'.file = sv.file
    BY <1>1 DEF SaveBlock, Looping, Saving, LocalOK, TypeOK
  <2>2. Live' = Live
    BY <2>1, StoredChunkKeepsHeap DEF Live, Keyed
  <2>3. \A f \in Live : heap'[f].name = heap[f].name
    BY <2>1, StoredChunkKeepsHeap DEF Live, Keyed
  <2> QED BY <2>2, <2>3, NamesKept
<1>2. ASSUME NEW b \in Blocks, SaveCluster(b) PROVE NamesUnique'
  <2>1. /\ sv.file # NULL /\ StoreChunk(b)
        /\ index' = IF CanInsert(sv.file) THEN Inserted(sv.file, Ended) ELSE index
        /\ sv'.file = sv.file
    BY <1>2 DEF SaveCluster, Looping, Saving, LocalOK, TypeOK
  <2>2. Keyed' \cup {sv.file} = Keyed \cup {sv.file}
    BY <2>1, StoredChunkKeepsHeap, InsertedKey DEF Keyed
  <2>3. Live' = Live
    BY <2>1, <2>2, StoredChunkKeepsHeap DEF Live, Keyed
  <2>4. \A f \in Live : heap'[f].name = heap[f].name
    BY <2>1, StoredChunkKeepsHeap DEF Live, Keyed
  <2> QED BY <2>3, <2>4, NamesKept
<1>3. ASSUME NEW b \in Blocks, SaveReadError(b) PROVE NamesUnique'
  <2>1. /\ index' = index /\ sv'.file = sv.file
    BY <1>3 DEF SaveReadError, LocalOK, TypeOK
  <2>2. Live' = Live
    BY <1>3, <2>1, FailedRead DEF Live, Keyed
  <2>3. \A f \in Live : heap'[f].name = heap[f].name
    BY <1>3, FailedRead DEF Live, Keyed
  <2> QED BY <2>2, <2>3, NamesKept
<1>4. CASE SaveCommit
  <2>1. /\ sv.file # NULL /\ sv'.file = NULL
        /\ index' = Inserted(sv.file, Ended) /\ heap' = heap
    BY <1>4 DEF SaveCommit, LoopOver, Saving, SaveReturns, Idle
  <2>2. Keyed' = Keyed \cup {sv.file}
    BY <2>1, InsertedKey DEF LocalOK, TypeOK
  <2>3. Live' \subseteq Live
    BY <2>1, <2>2 DEF Live
  <2> QED BY <2>1, <2>3, NamesKept
\* The File of a save that fails is freed.
<1>5. ASSUME sv.file # NULL, sv'.file = NULL,
             heap' = [heap EXCEPT ![sv.file] = NULL],
             Keyed' \subseteq Keyed \cup {sv.file}
      PROVE  NamesUnique'
  <2>1. sv.file \in FileIds
    BY <1>5 DEF LocalOK, TypeOK
  <2>2. Live' \subseteq Live \ {sv.file}
    BY <1>5, <2>1 DEF Live, Keyed, LocalOK, TypeOK
  <2>3. \A f \in Live' : heap'[f] = heap[f]
    BY <1>5, <2>1, <2>2 DEF Live, Keyed, LocalOK, TypeOK
  <2> QED BY <2>2, <2>3, NamesKept
<1>6. CASE SaveRollback \/ SaveRollbackFails \/ SaveAbandoned
  <2>1. /\ sv.file # NULL /\ sv'.file = NULL
        /\ heap' = [heap EXCEPT ![sv.file] = NULL]
    BY <1>6 DEF SaveRollback, SaveRollbackFails, SaveAbandoned, LoopOver, Saving,
                SaveReturns, Idle
  <2>2. CASE SaveRollback
    BY <1>5, <2>1, <2>2 DEF SaveRollback, Keyed, LocalOK, TypeOK
  <2>3. CASE SaveRollbackFails
    <3>1. Keyed' = Keyed \cup {sv.file}
      BY <2>1, <2>3, InsertedKey DEF SaveRollbackFails, LocalOK, TypeOK
    <3> QED BY <1>5, <2>1, <3>1
  <2>4. CASE SaveAbandoned
    BY <1>5, <2>1, <2>4 DEF SaveAbandoned, Keyed
  <2> QED BY <1>6, <2>2, <2>3, <2>4
<1>7. ASSUME NEW n \in Names, NEW d \in DiskFiles, NEW f \in FileIds, SaveOpen(n, d, f)
      PROVE  NamesUnique'
  <2>1. /\ sv.file = NULL /\ sv'.file = f /\ index' = index
        /\ heap' = [heap EXCEPT ![f] = [name |-> n, byte_len |-> 0]]
        /\ Found(n) = {} /\ heap[f] = NULL
    BY <1>7 DEF SaveOpen, Ready, Between, Idle
  <2>2. /\ heap'[f].name = n
        /\ \A g \in FileIds \ {f} : heap'[g] = heap[g]
    BY <2>1 DEF LocalOK, TypeOK
  <2>3. Live' \subseteq Live \cup {f} /\ f \notin Live
    BY <2>1, <2>2 DEF Live, Keyed
  <2>4. \A g \in Live : Rank[heap[g].name] # Rank[n]
    BY <2>1 DEF Live, Found, Keyed
  <2>5. Live \subseteq FileIds
    BY DEF Live, Keyed, LocalOK, TypeOK
  <2> QED BY <2>2, <2>3, <2>4, <2>5 DEF NamesUnique
<1>8. ASSUME NEW n \in Names, NEW f \in FileIds, Delete(n, f) PROVE NamesUnique'
  <2>1. CASE ~Restorable(f)
    BY <1>0, <1>8, <2>1 DEF Delete, Halt
  <2>2. CASE Restorable(f)
    <3>1. /\ sv.file = NULL /\ sv' = sv
          /\ index' = [index EXCEPT ![f] = <<>>]
          /\ heap' = [heap EXCEPT ![f] = NULL]
      BY <1>8, <2>2 DEF Delete, Ready, Between
    <3>2. Live' \subseteq Live \ {f}
      BY <3>1 DEF Live, Keyed, LocalOK, TypeOK
    <3>3. \A g \in Live' : heap'[g] = heap[g]
      BY <3>1, <3>2 DEF Live, Keyed, LocalOK, TypeOK
    <3> QED BY <3>2, <3>3, NamesKept
  <2> QED BY <2>1, <2>2
<1>9. ASSUME NEW old \in Names, NEW new \in Names, NEW f \in FileIds, Rename(old, new, f)
      PROVE  NamesUnique'
  <2>1. /\ sv.file = NULL /\ heap[f] # NULL /\ UNCHANGED <<index, sv>>
        /\ heap' = [heap EXCEPT ![f] = [heap[f] EXCEPT !.name = new]]
        /\ Found(new) = {}
    BY <1>9 DEF Rename, Ready, Between, Found
  <2>2. /\ heap'[f].name = new
        /\ \A g \in FileIds \ {f} : heap'[g] = heap[g]
    BY <2>1 DEF LocalOK, TypeOK, FileRecord
  <2>3. Live' \subseteq Live \cup {f}
    BY <2>1, <2>2 DEF Live, Keyed
  <2>4. \A g \in Live : Rank[heap[g].name] # Rank[new]
    BY <2>1 DEF Live, Found, Keyed
  <2>5. Live \subseteq FileIds
    BY DEF Live, Keyed, LocalOK, TypeOK
  <2> QED BY <2>2, <2>3, <2>4, <2>5 DEF NamesUnique
<1>10. ASSUME NEW old \in Names, NEW new \in Names, NEW f \in FileIds,
              RenameLosesFile(old, new, f)
       PROVE  NamesUnique'
  <2>1. UNCHANGED <<heap, sv>> /\ index' = [index EXCEPT ![f] = <<>>]
    BY <1>10 DEF RenameLosesFile
  <2>2. Live' \subseteq Live
    BY <2>1 DEF Live, Keyed, LocalOK, TypeOK
  <2> QED BY <2>1, <2>2, NamesKept
<1>11. CASE Destroy
  <2>1. sv.file = NULL /\ sv' = sv /\ index' = [f \in FileIds |-> <<>>]
    BY <1>11 DEF Destroy, Ready, Between
  <2>2. Live' = {}
    BY <2>1 DEF Live, Keyed
  <2> QED BY <2>2 DEF NamesUnique
<1>12. CASE SaveStep
  BY <1>0, <1>1, <1>2, <1>3, <1>4, <1>6, <1>12 DEF SaveStep, SaveInsertAborts, Halt
<1>13. CASE Lookup
  BY <1>0, <1>13 DEF Lookup, LoadMissing, LoadFailed, Refuse, Load, Dir, DirAborts, Halt
<1>14. CASE Alter
  <2>1. ASSUME NEW n \in Names,
               SaveUnopened(n) \/ SaveDuplicate(n) \/ DeleteMissing(n) \/ DeleteUnread(n)
        PROVE  NamesUnique'
    BY <1>0, <2>1 DEF SaveUnopened, SaveDuplicate, DeleteMissing, DeleteUnread, Refuse
  <2>2. ASSUME NEW old \in Names, NEW new \in Names,
               RenameRefused(old, new) \/ RenameUnread(old, new) \/ RenameAborts(old, new)
        PROVE  NamesUnique'
    BY <1>0, <2>2 DEF RenameRefused, RenameUnread, RenameAborts, Refuse, Halt
  <2> QED BY <1>7, <1>8, <1>9, <1>10, <1>14, <2>1, <2>2 DEF Alter
<1>15. CASE TouchDangling \/ Halted \/ UNCHANGED vars
  BY <1>0, <1>15 DEF TouchDangling, Halted, Halt, vars
<1> QED BY <1>11, <1>12, <1>13, <1>14, <1>15 DEF Next

\* Two files of the device never have names equal up to case, whatever the
\* order of strcasecmp is (saves and renames look for the name first).
THEOREM NamesStayUnique == Spec => []NamesUnique
<1>1. Init => IInv
  BY IInvInit, BlockCountAssumption
<1>2. IInv /\ [Next]_vars => IInv'
  BY IInvNext
<1>3. Init => NamesUnique
  BY DEF Init, NamesUnique, Live, Keyed, Idle
<1>4. IInv /\ NamesUnique /\ [Next]_vars => NamesUnique'
  BY NamesUniqueNext DEF IInv
<1> QED BY <1>1, <1>2, <1>3, <1>4, PTL DEF Spec

-----------------------------------------------------------------------------
(* Room in the index *)

\* Each key starts at a block that no other key starts at, and that is not
\* pending.
LEMMA KeysHaveBlocks ==
  ASSUME LocalOK, BlockCountAssumption, NEW f \in Keyed
  PROVE  /\ index[f][1].start \in Owned(f)
         /\ index[f][1].start \in Blocks
<1> DEFINE s == index[f]
<1>1. s \in Seq(Cluster) /\ s # <<>> /\ f \in FileIds
  BY DEF LocalOK, TypeOK, Keyed
<1>2. 1 \in DOMAIN s /\ s[1] \in Cluster
  <2> HIDE DEF s, Cluster
  <2>1. Len(s) \in Nat /\ Len(s) # 0 /\ DOMAIN s = 1 .. Len(s)
    BY <1>1
  <2> QED BY <1>1, <2>1
<1>3. s[1].num > 0 /\ s[1].start + s[1].num <= BlockCount
  BY <1>1, <1>2 DEF LocalOK, OnDevice
<1>4. s[1].start \in Blocks /\ Covers(s[1], s[1].start)
  BY <1>2, <1>3, BlockCountAssumption DEF BlockCountAssumption, Covers
<1> QED BY <1>2, <1>4 DEF Owned

\* One key less than blocks, while a save without a key has taken a block.
LEMMA RoomForKey ==
  ASSUME LocalOK, Disjoint, BlockCountAssumption, sv.file \in FileIds, sv.num > 0
  PROVE  CanInsert(sv.file)
<1> SUFFICES ASSUME sv.file \notin Keyed
             PROVE  Cardinality(Keyed) < BlockCount
  BY DEF CanInsert
<1> DEFINE first == [f \in Keyed \cup {sv.file} |->
                       IF f = sv.file THEN sv.start ELSE index[f][1].start]
           claimed == Keyed \cup {sv.file}
<1>1. sv.start \in Pending /\ sv.start \in Blocks
  BY DEF LocalOK, TypeOK, Pending, Covers
<1>2. first \in [claimed -> Blocks]
  BY <1>1, KeysHaveBlocks
<1>3. ASSUME NEW f \in claimed, NEW g \in claimed, f # g
      PROVE  first[f] # first[g]
  <2>1. CASE f \in Keyed /\ g \in Keyed
    <3>1. f # sv.file /\ g # sv.file /\ f \in FileIds /\ g \in FileIds
      BY <2>1 DEF Keyed
    <3>2. Owned(f) \cap Owned(g) = {}
      BY <1>3, <3>1, OwnedApart
    <3> QED BY <2>1, <3>1, <3>2, KeysHaveBlocks
  <2>2. CASE f = sv.file
    <3>1. g \in Keyed /\ g \in FileIds /\ g # sv.file
      BY <1>3, <2>2 DEF Keyed
    <3>2. index[g][1].start \notin Pending
      BY <3>1, KeysHaveBlocks, OwnedApart
    <3> QED BY <1>1, <2>2, <3>1, <3>2
  <2>3. CASE g = sv.file
    <3>1. f \in Keyed /\ f \in FileIds /\ f # sv.file
      BY <1>3, <2>3 DEF Keyed
    <3>2. index[f][1].start \notin Pending
      BY <3>1, KeysHaveBlocks, OwnedApart
    <3> QED BY <1>1, <2>3, <3>1, <3>2
  <2> QED BY <2>1, <2>2, <2>3
<1>4. IsFiniteSet(Blocks) /\ Cardinality(Blocks) = BlockCount
  BY BlockCountAssumption, FS_Interval DEF BlockCountAssumption
<1>5. first \in Injection(claimed, Blocks)
  <2> HIDE DEF first, claimed
  <2> QED BY <1>2, <1>3 DEF Injection, IsInjective
<1>6. IsFiniteSet(claimed) /\ Cardinality(claimed) <= BlockCount
  <2> HIDE DEF first, claimed
  <2> QED BY <1>4, <1>5, FS_Injection
<1>7. IsFiniteSet(Keyed) /\ Cardinality(Keyed) \in Nat
  BY <1>6, FS_Subset, FS_CardinalityType
<1>8. Cardinality(claimed) = Cardinality(Keyed) + 1
  BY <1>7, FS_AddElement
<1> QED BY <1>6, <1>7, <1>8 DEF BlockCountAssumption

\* A save that has taken a block finds room for its File in the index (a5_imffs.c,
\* 397 and 415), which has one place for each block and may hold any number of
\* files: every key has a block of its own, and so has the save.
THEOREM IndexNeverFull == Spec => []IndexHasRoom
<1>1. Init => IInv
  BY IInvInit, BlockCountAssumption
<1>2. IInv /\ [Next]_vars => IInv'
  BY IInvNext
<1>3. IInv => IndexHasRoom
  BY RoomForKey, BlockCountAssumption DEF IndexHasRoom, Saving, IInv, LocalOK, TypeOK
<1> QED BY <1>1, <1>2, <1>3, PTL DEF Spec

-----------------------------------------------------------------------------
(* No block is lost *)

Held == Pending \cup UNION {Owned(f) : f \in FileIds}

\* A cluster entered in the index keeps the blocks that were pending.
LEMMA InsertedHolds ==
  ASSUME IInv, NEW f \in FileIds, index' = Inserted(f, Ended)
  PROVE  Held \subseteq UNION {Owned(g)' : g \in FileIds}
<1>1. index \in [FileIds -> Seq(Cluster)] /\ Ended \in Cluster
  BY DEF IInv, LocalOK, TypeOK, Ended
<1>2. /\ \A g \in FileIds \ {f} : index'[g] = index[g]
      /\ index'[f] = Append(index[f], Ended)
  BY <1>1 DEF Inserted
<1>3. /\ \E i \in DOMAIN index'[f] : index'[f][i] = Ended
      /\ \A i \in DOMAIN index[f] : i \in DOMAIN index'[f] /\ index'[f][i] = index[f][i]
  <2> DEFINE s == index[f]
             last == Len(s) + 1
  <2>1. s \in Seq(Cluster)
    BY <1>1
  <2>2. /\ last \in DOMAIN Append(s, Ended) /\ Append(s, Ended)[last] = Ended
        /\ \A i \in DOMAIN s : i \in DOMAIN Append(s, Ended) /\ Append(s, Ended)[i] = s[i]
    <3> HIDE DEF s, Cluster
    <3> QED BY <1>1, <2>1
  <2> QED BY <1>2, <2>2
<1>4. \A b \in Pending : b \in Owned(f)'
  <2>1. \A b \in Pending : b \in Blocks /\ Covers(Ended, b)
    BY DEF Pending, Covers, Ended
  <2> QED BY <1>3, <2>1 DEF Owned, Covers
<1>5. \A g \in FileIds : Owned(g) \subseteq Owned(g)'
  BY <1>2, <1>3 DEF Owned, Covers
<1> QED BY <1>4, <1>5 DEF Held

\* What is neither given up nor lost from the index stays held.
LEMMA NoBlockLeakedNext ==
  ASSUME IInv, IInv', ~MallocMayFail, NoBlockLeaked, [Next]_vars
  PROVE  NoBlockLeaked'
<1> USE BlockCountAssumption, NullAssumption
<1> SUFFICES ASSUME status' = "running"
             PROVE  used' \subseteq Held'
  BY DEF NoBlockLeaked, Held
<1>a. ASSUME status = "running" PROVE used \subseteq Held
  BY <1>a DEF NoBlockLeaked, Held
<1>0. ASSUME status = "running", UNCHANGED <<used, index, sv>> PROVE used' \subseteq Held'
  BY <1>0, <1>a DEF Held, Pending, Owned, Covers
<1>1. ASSUME NEW b \in Blocks, SaveBlock(b) PROVE used' \subseteq Held'
  <2>1. /\ used' = used \cup {b} /\ index' = index /\ status = "running"
        /\ sv'.num = sv.num + 1 /\ sv'.start = (IF sv.num = 0 THEN b ELSE sv.start)
        /\ NextFree(b) /\ Adjoins(b)
    BY <1>1 DEF SaveBlock, StoreChunk, Looping, Saving, IInv, LocalOK, TypeOK
  <2>2. \A c \in Blocks : Covers(sv', c) <=> c \in Pending \cup {b}
    BY <2>1, PendingGrows DEF Covers, IInv
  <2>3. Pending' = Pending \cup {b}
    BY <2>2 DEF Pending, Covers
  <2> QED BY <1>a, <2>1, <2>3 DEF Held, Owned, Covers
<1>2. ASSUME NEW b \in Blocks, SaveCluster(b) PROVE used' \subseteq Held'
  <2>1. /\ used' = used \cup {b} /\ status = "running"
        /\ sv.file \in FileIds /\ sv.num > 0
        /\ sv'.num = 1 /\ sv'.start = b
        /\ index' = IF CanInsert(sv.file) THEN Inserted(sv.file, Ended) ELSE index
    BY <1>2 DEF SaveCluster, StoreChunk, Looping, Saving, Adjoins, IInv, LocalOK, TypeOK
  <2>2. index' = Inserted(sv.file, Ended)
    BY <2>1, RoomForKey DEF IInv
  <2>3. Held \subseteq UNION {Owned(f)' : f \in FileIds}
    BY <2>1, <2>2, InsertedHolds
  <2>4. b \in Pending'
    BY <2>1 DEF Pending, Covers
  <2> QED BY <1>a, <2>1, <2>3, <2>4 DEF Held
<1>3. ASSUME NEW b \in Blocks, SaveReadError(b) PROVE used' \subseteq Held'
  <2>1. /\ used' = used /\ index' = index /\ status = "running"
        /\ sv'.num = sv.num /\ sv'.start = sv.start
    BY <1>3 DEF SaveReadError, Looping, Saving, IInv, LocalOK, TypeOK
  <2> QED BY <1>a, <2>1 DEF Held, Pending, Owned, Covers
<1>4. CASE SaveCommit
  <2>1. /\ used' = used /\ status = "running" /\ sv.file \in FileIds
        /\ index' = Inserted(sv.file, Ended)
    BY <1>4 DEF SaveCommit, LoopOver, Saving, IInv, LocalOK, TypeOK
  <2>2. Held \subseteq UNION {Owned(f)' : f \in FileIds}
    BY <2>1, InsertedHolds
  <2> QED BY <1>a, <2>1, <2>2 DEF Held
\* A key goes, and the marks of its blocks with it.
<1>5. ASSUME status = "running", NEW f \in FileIds,
             index' = [index EXCEPT ![f] = <<>>],
             used' \subseteq used \ (Owned(f) \cup Pending)
      PROVE  used' \subseteq Held'
  <2>1. \A g \in FileIds \ {f} : Owned(g)' = Owned(g)
    BY <1>5 DEF Owned, Covers, IInv, LocalOK, TypeOK
  <2>2. \A b \in used' : \E g \in FileIds \ {f} : b \in Owned(g)
    BY <1>5, <1>a DEF Held
  <2> QED BY <2>1, <2>2 DEF Held
<1>6. CASE SaveRollback
  BY <1>5, <1>6 DEF SaveRollback, LoopOver, Saving, IInv, LocalOK, TypeOK
<1>7. CASE SaveAbandoned
  <2>1. /\ used' = used /\ index' = index /\ status = "running"
        /\ sv.file \in FileIds /\ sv.num \in Nat
        /\ sv.num = 0 \/ ~CanInsert(sv.file)
    BY <1>7 DEF SaveAbandoned, LoopOver, Saving, IInv, LocalOK, TypeOK
  <2>2. Pending = {}
    BY <2>1, RoomForKey, IdleHasNoPending DEF IInv
  <2> QED BY <1>a, <2>1, <2>2 DEF Held, Owned, Covers
<1>8. ASSUME NEW n \in Names, NEW d \in DiskFiles, NEW f \in FileIds, SaveOpen(n, d, f)
      PROVE  used' \subseteq Held'
  <2>1. /\ used' = used /\ index' = index /\ status = "running" /\ sv.num = 0
    BY <1>8 DEF SaveOpen, Ready, Between, IInv, LocalOK, SaveOK
  <2>2. Pending = {}
    BY <2>1, IdleHasNoPending DEF IInv
  <2> QED BY <1>a, <2>1, <2>2 DEF Held, Owned, Covers
<1>9. ASSUME NEW n \in Names, NEW f \in FileIds, Delete(n, f) PROVE used' \subseteq Held'
  <2>1. /\ Restorable(f) /\ status = "running" /\ sv.num = 0
        /\ used' = used \ Owned(f)
        /\ index' = [index EXCEPT ![f] = <<>>]
    BY <1>9 DEF Delete, Halt, Ready, Between, IInv, LocalOK, SaveOK
  <2>2. Pending = {}
    BY <2>1, IdleHasNoPending DEF IInv
  <2> QED BY <1>5, <2>1, <2>2
<1>10. CASE SaveStep
  BY <1>1, <1>2, <1>3, <1>4, <1>6, <1>7, <1>10
  DEF SaveStep, SaveRollbackFails, SaveInsertAborts
<1>11. CASE Lookup
  BY <1>0, <1>11 DEF Lookup, LoadMissing, LoadFailed, Refuse, Load, Dir, DirAborts, Halt,
                     Ready, Between
<1>12. CASE Alter
  <2>1. ASSUME NEW n \in Names,
               SaveUnopened(n) \/ SaveDuplicate(n) \/ DeleteMissing(n) \/ DeleteUnread(n)
        PROVE  used' \subseteq Held'
    BY <1>0, <2>1 DEF SaveUnopened, SaveDuplicate, DeleteMissing, DeleteUnread, Refuse,
                      Ready, Between
  <2>2. ASSUME NEW old \in Names, NEW new \in Names,
               RenameRefused(old, new) \/ RenameUnread(old, new) \/ RenameAborts(old, new)
        PROVE  used' \subseteq Held'
    BY <1>0, <2>2 DEF RenameRefused, RenameUnread, RenameAborts, Refuse, Halt,
                      Ready, Between
  <2>3. ASSUME NEW old \in Names, NEW new \in Names, NEW f \in FileIds,
               Rename(old, new, f) \/ RenameLosesFile(old, new, f)
        PROVE  used' \subseteq Held'
    BY <1>0, <2>3 DEF Rename, RenameLosesFile, Ready, Between
  <2> QED BY <1>8, <1>9, <1>12, <2>1, <2>2, <2>3 DEF Alter
<1>13. CASE Destroy \/ TouchDangling \/ Halted
  BY <1>13 DEF Destroy, TouchDangling, Halted, Halt, vars
<1>14. CASE UNCHANGED vars
  BY <1>0, <1>14 DEF vars
<1> QED BY <1>10, <1>11, <1>12, <1>13, <1>14 DEF Next

\* As long as no malloc fails, a marked block belongs to a file or to the save in
\* progress: what a save has marked is entered, taken back or given up with its
\* marks, and a delete clears exactly what its file held (a5_imffs.c, 98 to 109
\* and 384 to 436).
THEOREM NothingLeaks == Spec => [](MallocMayFail \/ NoBlockLeaked)
<1>1. Init => IInv
  BY IInvInit, BlockCountAssumption
<1>2. IInv /\ [Next]_vars => IInv'
  BY IInvNext
<1>3. Init => NoBlockLeaked
  BY DEF Init, NoBlockLeaked
<1>4. IInv /\ IInv' /\ ~MallocMayFail /\ NoBlockLeaked /\ [Next]_vars => NoBlockLeaked'
  BY NoBlockLeakedNext
<1>5. CASE MallocMayFail
  BY <1>5, PTL
<1>6. CASE ~MallocMayFail
  BY <1>1, <1>2, <1>3, <1>4, <1>6, PTL DEF Spec
<1> QED BY <1>5, <1>6

-----------------------------------------------------------------------------
(* The clusters of a file *)

\* The clusters a save has entered end before the pending one.
EndedBefore ==
  sv.file # NULL /\ sv.num > 0 =>
    \A i \in DOMAIN index[sv.file] :
      index[sv.file][i].start + index[sv.file][i].num < sv.start

LEMMA ClusterTypes ==
  ASSUME LocalOK, NEW f \in FileIds
  PROVE  /\ Len(index[f]) \in Nat /\ DOMAIN index[f] = 1 .. Len(index[f])
         /\ \A i \in DOMAIN index[f] :
              index[f][i] \in Cluster /\ index[f][i].start \in Nat /\ index[f][i].num \in Nat
<1> DEFINE s == index[f]
<1>1. s \in Seq(Cluster)
  BY DEF LocalOK, TypeOK
<1>2. Len(s) \in Nat /\ DOMAIN s = 1 .. Len(s) /\ \A i \in DOMAIN s : s[i] \in Cluster
  <2> HIDE DEF s, Cluster
  <2> QED BY <1>1
<1> QED BY <1>2

LEMMA AscendKept ==
  ASSUME ClustersAscend, \A f \in FileIds : index'[f] = index[f] \/ index'[f] = <<>>
  PROVE  ClustersAscend'
<1> SUFFICES ASSUME NEW f \in FileIds, NEW i \in 1 .. Len(index'[f]) - 1
             PROVE  index'[f][i].start + index'[f][i].num < index'[f][i + 1].start
  BY DEF ClustersAscend
<1>1. index'[f] = index[f]
  <2>1. index'[f] # <<>>
    OBVIOUS
  <2> QED BY <2>1
<1> QED BY <1>1 DEF ClustersAscend

LEMMA AscendInserted ==
  ASSUME LocalOK, ClustersAscend, EndedBefore, NEW f \in FileIds, f = sv.file, f # NULL,
         sv.num > 0, index' = Inserted(f, Ended)
  PROVE  /\ ClustersAscend'
         /\ \A i \in DOMAIN index'[f] :
              index'[f][i].start + index'[f][i].num <= sv.start + sv.num
<1> DEFINE s == index[f]
<1>1. /\ s \in Seq(Cluster) /\ Ended \in Cluster
      /\ Ended.start = sv.start /\ Ended.num = sv.num
      /\ sv.start \in Nat /\ sv.num \in Nat
  BY DEF LocalOK, TypeOK, Ended
<1>2. /\ \A g \in FileIds \ {f} : index'[g] = index[g]
      /\ index'[f] = Append(s, Ended)
  BY DEF Inserted, LocalOK, TypeOK
<1>3. /\ Len(s) \in Nat /\ Len(Append(s, Ended)) = Len(s) + 1
      /\ DOMAIN Append(s, Ended) = 1 .. Len(s) + 1
      /\ \A i \in 1 .. Len(s) : i \in DOMAIN s /\ Append(s, Ended)[i] = s[i]
      /\ Append(s, Ended)[Len(s) + 1] = Ended
  <2> HIDE DEF s, Cluster
  <2> QED BY <1>1
<1>4. \A i \in 1 .. Len(s) :
        /\ s[i].start \in Nat /\ s[i].num \in Nat
        /\ s[i].start + s[i].num < sv.start
  BY <1>3, ClusterTypes DEF EndedBefore
<1>5. \A i \in 1 .. Len(s) - 1 : s[i].start + s[i].num < s[i + 1].start
  BY DEF ClustersAscend
<1> HIDE DEF s, Cluster
<1>6. ASSUME NEW i \in 1 .. Len(s) + 1
      PROVE  Append(s, Ended)[i].start + Append(s, Ended)[i].num <= sv.start + sv.num
  BY <1>1, <1>3, <1>4
<1>7. ASSUME NEW i \in 1 .. Len(s)
      PROVE  Append(s, Ended)[i].start + Append(s, Ended)[i].num < Append(s, Ended)[i + 1].start
  <2>1. CASE i = Len(s)
    BY <1>1, <1>3, <1>4, <2>1
  <2>2. CASE i # Len(s)
    <3>1. i \in 1 .. Len(s) - 1 /\ i + 1 \in 1 .. Len(s)
      BY <1>3, <2>2
    <3> QED BY <1>3, <1>5, <3>1
  <2> QED BY <2>1, <2>2
<1>8. ClustersAscend'
  <2> SUFFICES ASSUME NEW g \in FileIds, NEW i \in 1 .. Len(index'[g]) - 1
               PROVE  index'[g][i].start + index'[g][i].num < index'[g][i + 1].start
    BY DEF ClustersAscend
  <2>1. CASE g = f
    <3>1. index'[g] = Append(s, Ended)
      BY <1>2, <2>1
    <3>2. i \in 1 .. Len(s)
      BY <1>3, <3>1
    <3> QED BY <1>7, <3>1, <3>2
  <2>2. CASE g # f
    BY <1>2, <2>2 DEF ClustersAscend
  <2> QED BY <2>1, <2>2
<1> QED BY <1>2, <1>3, <1>6, <1>8

LEMMA AscendNext ==
  ASSUME LocalOK, ClustersAscend, EndedBefore, [Next]_vars
  PROVE  ClustersAscend' /\ EndedBefore'
<1> USE NullAssumption
<1>0. ASSUME UNCHANGED <<index, sv>> PROVE ClustersAscend' /\ EndedBefore'
  BY <1>0 DEF ClustersAscend, EndedBefore
<1>1. ASSUME NEW b \in Blocks, SaveBlock(b) PROVE ClustersAscend' /\ EndedBefore'
  <2>1. /\ index' = index /\ sv'.file = sv.file /\ sv.file # NULL
        /\ sv'.start = (IF sv.num = 0 THEN b ELSE sv.start)
        /\ sv.num \in Nat
    BY <1>1 DEF SaveBlock, Looping, Saving, LocalOK, TypeOK
  <2>2. ClustersAscend'
    BY <2>1 DEF ClustersAscend
  <2>3. CASE sv.num = 0
    <3>1. index[sv.file] = <<>>
      BY <2>1, <2>3 DEF LocalOK, SaveOK
    <3> QED BY <2>1, <2>2, <3>1 DEF EndedBefore
  <2>4. CASE sv.num > 0
    BY <2>1, <2>2, <2>4 DEF EndedBefore
  <2> QED BY <2>1, <2>3, <2>4
<1>2. ASSUME NEW b \in Blocks, SaveCluster(b) PROVE ClustersAscend' /\ EndedBefore'
  <2>1. /\ sv'.file = sv.file /\ sv'.start = b /\ sv.file # NULL /\ sv.file \in FileIds
        /\ index' = IF CanInsert(sv.file) THEN Inserted(sv.file, Ended) ELSE index
        /\ sv.num > 0 /\ b > sv.prev + 1
    BY <1>2 DEF SaveCluster, Adjoins, Looping, Saving, LocalOK, TypeOK
  <2>2. sv.start + sv.num < b /\ sv.start \in Nat /\ sv.num \in Nat /\ b \in Nat
    BY <2>1 DEF LocalOK, TypeOK, SaveOK
  <2>3. PICK f \in FileIds : f = sv.file
    BY <2>1
  <2>4. LocalOK'
    BY <1>2, SaveClusterLocal, BlockCountAssumption, BytesPerBlockAssumption, SizeAssumption
  <2>5. \A i \in DOMAIN index'[f] : index'[f][i].start \in Nat /\ index'[f][i].num \in Nat
    <3> DEFINE s == index'[f]
    <3>1. s \in Seq(Cluster)
      BY <2>4 DEF LocalOK, TypeOK
    <3>2. \A i \in DOMAIN s : s[i] \in Cluster
      <4> HIDE DEF s, Cluster
      <4> QED BY <3>1
    <3> QED BY <3>2
  <2>6. CASE index' = Inserted(sv.file, Ended)
    <3>1. /\ ClustersAscend'
          /\ \A i \in DOMAIN index'[f] :
               index'[f][i].start + index'[f][i].num <= sv.start + sv.num
      BY <2>1, <2>3, <2>6, AscendInserted
    <3> QED BY <2>1, <2>2, <2>3, <2>5, <3>1 DEF EndedBefore
  <2>7. CASE index' = index
    <3>1. ClustersAscend'
      BY <2>7 DEF ClustersAscend
    <3>2. EndedBefore'
      BY <2>1, <2>2, <2>3, <2>5, <2>7 DEF EndedBefore
    <3> QED BY <3>1, <3>2
  <2> QED BY <2>1, <2>6, <2>7
<1>3. ASSUME NEW b \in Blocks, SaveReadError(b) PROVE ClustersAscend' /\ EndedBefore'
  <2>1. /\ index' = index /\ sv'.file = sv.file /\ sv'.num = sv.num /\ sv'.start = sv.start
    BY <1>3 DEF SaveReadError, LocalOK, TypeOK
  <2> QED BY <2>1 DEF ClustersAscend, EndedBefore
<1>4. CASE SaveCommit \/ SaveRollbackFails
  <2>1. /\ sv.file # NULL /\ sv.file \in FileIds /\ sv.num > 0 /\ sv'.file = NULL
        /\ index' = Inserted(sv.file, Ended)
    BY <1>4 DEF SaveCommit, Stored, SaveRollbackFails, LoopOver, Saving, SaveReturns, Idle,
                LocalOK, TypeOK, SaveOK
  <2>2. PICK f \in FileIds : f = sv.file
    BY <2>1
  <2> QED BY <2>1, <2>2, AscendInserted DEF EndedBefore
\* Keys go, and no save is left.
<1>5. ASSUME \A f \in FileIds : index'[f] = index[f] \/ index'[f] = <<>>, sv'.file = NULL
      PROVE  ClustersAscend' /\ EndedBefore'
  BY <1>5, AscendKept DEF EndedBefore
<1>6. CASE SaveRollback \/ SaveAbandoned
  BY <1>5, <1>6 DEF SaveRollback, SaveAbandoned, SaveReturns, Idle, LocalOK, TypeOK
<1>7. ASSUME NEW n \in Names, NEW d \in DiskFiles, NEW f \in FileIds, SaveOpen(n, d, f)
      PROVE  ClustersAscend' /\ EndedBefore'
  <2>1. index' = index /\ sv'.num = 0
    BY <1>7 DEF SaveOpen, Idle
  <2> QED BY <2>1 DEF ClustersAscend, EndedBefore
<1>8. ASSUME NEW n \in Names, NEW f \in FileIds, Delete(n, f)
      PROVE  ClustersAscend' /\ EndedBefore'
  <2>1. CASE ~Restorable(f)
    BY <1>0, <1>8, <2>1 DEF Delete, Halt
  <2>2. CASE Restorable(f)
    BY <1>5, <1>8, <2>2 DEF Delete, Ready, Between, LocalOK, TypeOK
  <2> QED BY <2>1, <2>2
<1>9. ASSUME NEW old \in Names, NEW new \in Names, NEW f \in FileIds,
             RenameLosesFile(old, new, f)
      PROVE  ClustersAscend' /\ EndedBefore'
  BY <1>5, <1>9 DEF RenameLosesFile, Ready, Between, LocalOK, TypeOK
<1>10. CASE Destroy
  BY <1>5, <1>10 DEF Destroy, Ready, Between
<1>11. CASE SaveStep
  BY <1>0, <1>1, <1>2, <1>3, <1>4, <1>6, <1>11 DEF SaveStep, SaveInsertAborts, Halt
<1>12. CASE Lookup
  BY <1>0, <1>12 DEF Lookup, LoadMissing, LoadFailed, Refuse, Load, Dir, DirAborts, Halt
<1>13. CASE Alter
  <2>1. ASSUME NEW n \in Names,
               SaveUnopened(n) \/ SaveDuplicate(n) \/ DeleteMissing(n) \/ DeleteUnread(n)
        PROVE  ClustersAscend' /\ EndedBefore'
    BY <1>0, <2>1 DEF SaveUnopened, SaveDuplicate, DeleteMissing, DeleteUnread, Refuse
  <2>2. ASSUME NEW old \in Names, NEW new \in Names,
               \/ RenameRefused(old, new) \/ RenameUnread(old, new) \/ RenameAborts(old, new)
               \/ \E f \in FileIds : Rename(old, new, f)
        PROVE  ClustersAscend' /\ EndedBefore'
    BY <1>0, <2>2 DEF RenameRefused, RenameUnread, RenameAborts, Rename, Refuse, Halt
  <2> QED BY <1>7, <1>8, <1>9, <1>13, <2>1, <2>2 DEF Alter
<1>14. CASE TouchDangling \/ Halted \/ UNCHANGED vars
  BY <1>0, <1>14 DEF TouchDangling, Halted, Halt, vars
<1> QED BY <1>10, <1>11, <1>12, <1>13, <1>14 DEF Next

\* The clusters of a file ascend on the device and no two touch, for every file
\* that imffs_save enters, is entering or takes back (a5_imffs.c, 384 to 420).
THEOREM ClustersStayApart == Spec => []ClustersAscend
<1>1. Init => IInv
  BY IInvInit, BlockCountAssumption
<1>2. IInv /\ [Next]_vars => IInv'
  BY IInvNext
<1>3. Init => ClustersAscend /\ EndedBefore
  BY DEF Init, ClustersAscend, EndedBefore, Idle
<1>4. IInv /\ ClustersAscend /\ EndedBefore /\ [Next]_vars => ClustersAscend' /\ EndedBefore'
  BY AscendNext DEF IInv
<1> QED BY <1>1, <1>2, <1>3, <1>4, PTL DEF Spec
=============================================================================
