----------------------------- MODULE StoreProofs -----------------------------
(***************************************************************************)
(* For every device: the blocks of a file hold the bytes it was saved      *)
(* from, in their order and in the number its length needs.                *)
(***************************************************************************)
EXTENDS ImffsStore, ImffsProofs, DataLemmas

USE DEF Blocks, Cluster, Chunks

-----------------------------------------------------------------------------
(* The blocks of a file, cluster by cluster *)

Run(c) == [j \in 1 .. c.num |-> c.start + j - 1]
Runs(f) == [i \in DOMAIN index[f] |-> Run(index[f][i])]

\* The blocks that the save in progress has stored into, in their order.
Taken == BlocksOf(sv.file) \o Run(Ended)

LEMMA BlocksAreRuns == \A f : BlocksOf(f) = FlattenSeq(Runs(f))
  BY DEF BlocksOf, Runs, Run

LEMMA RunType ==
  ASSUME NEW c \in Cluster
  PROVE  /\ Run(c) \in Seq({b \in Nat : Covers(c, b)})
         /\ Len(Run(c)) = c.num
<1>1. c.num \in Nat /\ c.start \in Nat
  OBVIOUS
<1>2. \A j \in 1 .. c.num : c.start + j - 1 \in {b \in Nat : Covers(c, b)}
  BY <1>1 DEF Covers
<1> QED BY <1>1, <1>2 DEF Run

LEMMA RunsType ==
  ASSUME CInv, NEW f \in FileIds
  PROVE  /\ Runs(f) \in Seq(Seq(Owned(f)))
         /\ Len(Runs(f)) = Len(index[f])
         /\ \A i \in 1 .. Len(index[f]) : Runs(f)[i] = Run(index[f][i])
<1>1. /\ Len(index[f]) \in Nat /\ DOMAIN index[f] = 1 .. Len(index[f])
      /\ \A i \in DOMAIN index[f] :
           index[f][i] \in Cluster /\ index[f][i].start \in Nat /\ index[f][i].num \in Nat
  BY ClusterTypes DEF CInv
<1>2. ASSUME NEW i \in 1 .. Len(index[f]) PROVE Run(index[f][i]) \in Seq(Owned(f))
  <2> DEFINE c == index[f][i]
  <2>1. c \in Cluster /\ c.start \in Nat /\ c.num \in Nat /\ c.start + c.num <= BlockCount
    BY <1>1 DEF CInv, LocalOK, OnDevice
  <2>2. \A b \in Nat : Covers(c, b) => b \in Owned(f)
    <3>1. \A b \in Nat : Covers(c, b) => b \in Blocks
      BY <2>1, BlockCountAssumption DEF Covers, BlockCountAssumption
    <3> QED BY <1>1, <3>1 DEF Owned
  <2>3. Run(c) \in Seq({b \in Nat : Covers(c, b)})
    BY <2>1, RunType
  <2>4. {b \in Nat : Covers(c, b)} \subseteq Owned(f)
    BY <2>2
  <2> HIDE DEF c
  <2> QED BY <2>3, <2>4 DEF c
<1>3. Runs(f) = [i \in 1 .. Len(index[f]) |-> Run(index[f][i])]
  BY <1>1 DEF Runs
<1> QED BY <1>1, <1>2, <1>3

LEMMA BlocksType ==
  ASSUME CInv, NEW f \in FileIds
  PROVE  /\ BlocksOf(f) \in Seq(Owned(f))
         /\ Len(BlocksOf(f)) \in Nat
         /\ \A i \in 1 .. Len(BlocksOf(f)) : BlocksOf(f)[i] \in Owned(f)
<1>1. BlocksOf(f) \in Seq(Owned(f))
  BY RunsType, FlattenType, BlocksAreRuns
<1> QED BY <1>1

LEMMA BlocksUnkeyed ==
  ASSUME NEW f, index[f] = <<>>
  PROVE  BlocksOf(f) = <<>>
<1>1. Runs(f) = <<>>
  BY DEF Runs
<1> QED BY <1>1, FlattenNone, BlocksAreRuns

LEMMA BlocksKept ==
  ASSUME NEW f, index'[f] = index[f]
  PROVE  BlocksOf(f)' = BlocksOf(f)
<1>1. Runs(f)' = Runs(f)
  BY DEF Runs
<1>2. BlocksOf(f)' = FlattenSeq(Runs(f)')
  BY DEF BlocksOf, Runs, Run
<1> QED BY <1>1, <1>2, BlocksAreRuns

LEMMA BlocksInserted ==
  ASSUME CInv, NEW f \in FileIds, NEW c \in Cluster,
         c.start + c.num <= BlockCount, index' = Inserted(f, c)
  PROVE  /\ BlocksOf(f)' = BlocksOf(f) \o Run(c)
         /\ \A g \in FileIds \ {f} : index'[g] = index[g]
<1>1. /\ index[f] \in Seq(Cluster)
      /\ index'[f] = Append(index[f], c)
      /\ \A g \in FileIds \ {f} : index'[g] = index[g]
  BY DEF CInv, LocalOK, TypeOK, Inserted
<1>2. /\ Runs(f) \in Seq(Seq(Owned(f))) /\ Len(Runs(f)) = Len(index[f])
      /\ \A i \in 1 .. Len(index[f]) : Runs(f)[i] = Run(index[f][i])
  BY RunsType
<1>3. Run(c) \in Seq({b \in Nat : Covers(c, b)})
  BY RunType
<1> DEFINE T == Owned(f) \cup {b \in Nat : Covers(c, b)}
<1>4. Runs(f) \in Seq(Seq(T)) /\ Run(c) \in Seq(T)
  <2>1. Owned(f) \subseteq T /\ {b \in Nat : Covers(c, b)} \subseteq T
    OBVIOUS
  <2> HIDE DEF T
  <2> QED BY <1>2, <1>3, <2>1
<1>5. Runs(f)' = Append(Runs(f), Run(c))
  <2> DEFINE s == index[f]
  <2>1. /\ Len(s) \in Nat /\ DOMAIN Append(s, c) = 1 .. Len(s) + 1
        /\ \A i \in 1 .. Len(s) : Append(s, c)[i] = s[i]
        /\ Append(s, c)[Len(s) + 1] = c
    <3> HIDE DEF s
    <3> QED BY <1>1 DEF s
  <2>2. Runs(f)' = [i \in 1 .. Len(s) + 1 |-> Run(Append(s, c)[i])]
    BY <1>1, <2>1 DEF Runs, Run
  <2>3. Append(Runs(f), Run(c)) =
          [i \in 1 .. Len(s) + 1 |-> IF i <= Len(s) THEN Runs(f)[i] ELSE Run(c)]
    <3> HIDE DEF T, Run, Runs
    <3>1. Append(Runs(f), Run(c)) =
            [i \in 1 .. Len(Runs(f)) + 1 |-> IF i <= Len(Runs(f)) THEN Runs(f)[i] ELSE Run(c)]
      BY <1>4, Appended
    <3> QED BY <1>2, <3>1
  <2>4. \A i \in 1 .. Len(s) + 1 :
          Run(Append(s, c)[i]) = IF i <= Len(s) THEN Runs(f)[i] ELSE Run(c)
    BY <1>2, <2>1
  <2> HIDE DEF s
  <2> QED BY <2>2, <2>3, <2>4
<1>6. FlattenSeq(Runs(f)') = FlattenSeq(Runs(f)) \o Run(c)
  <2> HIDE DEF T
  <2> QED BY <1>4, <1>5, FlattenAppend
<1>7. BlocksOf(f)' = FlattenSeq(Runs(f)')
  BY DEF BlocksOf, Runs, Run
<1> QED BY <1>1, <1>6, <1>7, BlocksAreRuns

-----------------------------------------------------------------------------
(* What the blocks hold *)

\* The first n of the blocks hold the first n of the chunks of d.
Holding(blocks, d, n) ==
  \A i \in 1 .. Len(blocks) : i <= n => data[blocks[i]] = <<d, i - 1>>

Complete(blocks, bytes, d) ==
  /\ bytes = Size[d]
  /\ Len(blocks) = BlocksFor(Size[d])
  /\ Holding(blocks, d, BlocksWithBytes(Size[d]))

\* The blocks of a save are full up to the end of its source, and those of a
\* stored file hold all of one.
ReadOK ==
  sv.file # NULL /\ sv.ok =>
    IF sv.eof THEN Complete(Taken, heap[sv.file].byte_len, sv.src)
    ELSE /\ heap[sv.file].byte_len = Len(Taken) * BytesPerBlock
         /\ Holding(Taken, sv.src, Len(Taken))

StoredOK ==
  \A f \in Keyed \ {sv.file} :
    heap[f] # NULL => \E d \in DiskFiles : Complete(BlocksOf(f), heap[f].byte_len, d)

ContentOK == ReadOK /\ StoredOK

LEMMA Division ==
  ASSUME NEW B \in Nat \ {0}, NEW k \in Nat, NEW r \in 0 .. B - 1
  PROVE  (k * B + r) \div B = k
  OBVIOUS

LEMMA NextMultiple ==
  ASSUME NEW B \in Nat, NEW k \in Nat
  PROVE  (k + 1) * B = k * B + B /\ k * B \in Nat
  OBVIOUS

\* A read that falls short ends the file: one block more than its full ones.
LEMMA LastBlock ==
  ASSUME NEW k \in Nat, NEW r \in 0 .. BytesPerBlock - 1
  PROVE  /\ BlocksFor(k * BytesPerBlock + r) = k + 1
         /\ BlocksWithBytes(k * BytesPerBlock + r) = IF r = 0 THEN k ELSE k + 1
<1> DEFINE B == BytesPerBlock
<1>1. B \in Nat \ {0}
  BY BytesPerBlockAssumption DEF BytesPerBlockAssumption
<1> HIDE DEF B
<1>2. r \in 0 .. B - 1
  BY DEF B
<1>3. (k * B + r) \div B = k
  BY <1>1, <1>2, Division
<1>4. k * B \in Nat /\ (k + 1) * B = k * B + B
  BY <1>1, NextMultiple
<1>5. CASE r = 0
  <2>1. k * B + r + B - 1 = k * B + (B - 1) /\ B - 1 \in 0 .. B - 1
    BY <1>1, <1>4, <1>5
  <2>2. (k * B + (B - 1)) \div B = k
    BY <1>1, <2>1, Division
  <2> QED BY <1>3, <1>5, <2>1, <2>2 DEF BlocksFor, BlocksWithBytes, B
<1>6. CASE r # 0
  <2>1. k * B + r + B - 1 = (k + 1) * B + (r - 1) /\ r - 1 \in 0 .. B - 1 /\ k + 1 \in Nat
    BY <1>1, <1>2, <1>4, <1>6
  <2>2. ((k + 1) * B + (r - 1)) \div B = k + 1
    BY <1>1, <2>1, Division
  <2> QED BY <1>3, <1>6, <2>1, <2>2 DEF BlocksFor, BlocksWithBytes, B
<1> QED BY <1>5, <1>6

LEMMA TakenType ==
  ASSUME CInv, sv.file \in FileIds
  PROVE  /\ Taken \in Seq(Owned(sv.file) \cup Pending)
         /\ Len(Taken) \in Nat
         /\ \A i \in 1 .. Len(Taken) : Taken[i] \in Owned(sv.file) \cup Pending
<1>1. Run(Ended) \in Seq({b \in Nat : Covers(Ended, b)})
  <2>1. Ended \in Cluster
    BY DEF CInv, LocalOK, TypeOK, Ended
  <2> HIDE DEF Cluster
  <2> QED BY <2>1, RunType
<1>2. \A b \in Nat : Covers(Ended, b) => b \in Pending
  <2>1. sv.num > 0 => sv.start + sv.num <= BlockCount
    BY BlockCountAssumption DEF CInv, LocalOK, TypeOK, SaveOK, BlockCountAssumption
  <2>2. sv.num \in Nat /\ sv.start \in Nat
    BY DEF CInv, LocalOK, TypeOK
  <2> QED BY <2>1, <2>2, BlockCountAssumption DEF Covers, Ended, Pending, BlockCountAssumption
<1>3. Run(Ended) \in Seq(Owned(sv.file) \cup Pending)
  <2>1. {b \in Nat : Covers(Ended, b)} \subseteq Owned(sv.file) \cup Pending
    BY <1>2
  <2> QED BY <1>1, <2>1, SeqMonotonic
<1>4. BlocksOf(sv.file) \in Seq(Owned(sv.file) \cup Pending)
  <2>1. Owned(sv.file) \subseteq Owned(sv.file) \cup Pending
    OBVIOUS
  <2>2. BlocksOf(sv.file) \in Seq(Owned(sv.file))
    BY BlocksType
  <2> QED BY <2>1, <2>2, SeqMonotonic
<1>5. Taken \in Seq(Owned(sv.file) \cup Pending)
  BY <1>3, <1>4, ConcatProperties DEF Taken
<1> QED BY <1>5, LenProperties, ElementOfSeq

\* What is not stored into stays complete.
LEMMA HoldingKept ==
  ASSUME NEW S, NEW blocks \in Seq(S), NEW d, NEW n, Holding(blocks, d, n),
         \A b \in S : data'[b] = data[b]
  PROVE  \A i \in 1 .. Len(blocks) : i <= n => data'[blocks[i]] = <<d, i - 1>>
<1>1. \A i \in 1 .. Len(blocks) : blocks[i] \in S
  OBVIOUS
<1> QED BY <1>1 DEF Holding

LEMMA StoredKept ==
  ASSUME CInv, StoredOK, NEW f \in Keyed \ {sv.file}, heap[f] # NULL,
         index'[f] = index[f], heap'[f].byte_len = heap[f].byte_len,
         \A b \in Owned(f) : data'[b] = data[b]
  PROVE  \E d \in DiskFiles : Complete(BlocksOf(f), heap[f].byte_len, d)'
<1>1. PICK d \in DiskFiles : Complete(BlocksOf(f), heap[f].byte_len, d)
  BY DEF StoredOK
<1>2. f \in FileIds
  BY DEF Keyed
<1>3. BlocksOf(f)' = BlocksOf(f) /\ BlocksOf(f) \in Seq(Owned(f))
  BY <1>2, BlocksKept, BlocksType
<1>4. \A i \in 1 .. Len(BlocksOf(f)) :
        i <= BlocksWithBytes(Size[d]) => data'[BlocksOf(f)[i]] = <<d, i - 1>>
  <2>1. Holding(BlocksOf(f), d, BlocksWithBytes(Size[d]))
    BY <1>1 DEF Complete
  <2>2. \A b \in Owned(f) : data'[b] = data[b]
    OBVIOUS
  <2> QED BY <1>3, <2>1, <2>2, HoldingKept
<1>5. Complete(BlocksOf(f), heap[f].byte_len, d)'
  BY <1>1, <1>3, <1>4 DEF Complete, Holding
<1> QED BY <1>5

-----------------------------------------------------------------------------
(* A save takes a block *)

LEMMA RunGrows ==
  ASSUME NEW num \in Nat, NEW start \in Nat
  PROVE  /\ Run([num |-> 0, start |-> start]) = <<>>
         /\ Run([num |-> 1, start |-> start]) = <<start>>
         /\ Run([num |-> num + 1, start |-> start])
              = Append(Run([num |-> num, start |-> start]), start + num)
<1>1. Run([num |-> 0, start |-> start]) = <<>>
  BY DEF Run
<1>2. Run([num |-> 1, start |-> start]) = <<start>>
  <2>1. Run([num |-> 1, start |-> start]) = [j \in 1 .. 1 |-> start + j - 1]
    BY DEF Run
  <2>2. [j \in 1 .. 1 |-> start + j - 1] = <<start>>
    OBVIOUS
  <2> QED BY <2>1, <2>2
<1> DEFINE r == [j \in 1 .. num |-> start + j - 1]
<1>3. r \in Seq(Nat) /\ Len(r) = num /\ start + num \in Nat
      /\ \A j \in 1 .. num : r[j] = start + j - 1
  OBVIOUS
<1> HIDE DEF r
<1>4. Append(r, start + num) = [j \in 1 .. num + 1 |-> IF j <= num THEN r[j] ELSE start + num]
  <2>1. Append(r, start + num) =
          [j \in 1 .. Len(r) + 1 |-> IF j <= Len(r) THEN r[j] ELSE start + num]
    BY <1>3, Appended
  <2> QED BY <1>3, <2>1
<1>5. Append(r, start + num) = [j \in 1 .. num + 1 |-> start + j - 1]
  <2>1. \A j \in 1 .. num + 1 : (IF j <= num THEN r[j] ELSE start + num) = start + j - 1
    BY <1>3
  <2> QED BY <1>4, <2>1
<1> QED BY <1>1, <1>2, <1>5 DEF Run, r

LEMMA ConcatAppended ==
  ASSUME NEW S, NEW s \in Seq(S), NEW t \in Seq(S), NEW e \in S
  PROVE  s \o Append(t, e) = Append(s \o t, e)
<1>1. Append(t, e) = t \o <<e>> /\ Append(s \o t, e) = (s \o t) \o <<e>> /\ <<e>> \in Seq(S)
  OBVIOUS
<1> QED BY <1>1, ConcatAssociative

LEMMA TakenInBlock ==
  ASSUME CInv, NEW b \in Blocks, SaveBlock(b)
  PROVE  Taken' = Append(Taken, b)
<1>1. /\ sv.file \in FileIds /\ index' = index
      /\ sv'.file = sv.file
      /\ sv'.num = sv.num + 1 /\ sv'.start = (IF sv.num = 0 THEN b ELSE sv.start)
      /\ NextFree(b) /\ Adjoins(b)
      /\ sv.num \in Nat /\ sv.start \in Nat /\ b \in Nat
  BY DEF SaveBlock, Looping, Saving, CInv, LocalOK, TypeOK
<1>2. PICK f \in FileIds : f = sv.file
  BY <1>1
<1> DEFINE s == BlocksOf(f)
<1>3. s' = s /\ s \in Seq(Nat)
  <2>1. BlocksOf(f)' = BlocksOf(f)
    BY <1>1, BlocksKept
  <2>2. Owned(f) \subseteq Nat /\ BlocksOf(f) \in Seq(Owned(f))
    BY <1>2, BlocksType DEF Owned
  <2>3. BlocksOf(f) \in Seq(Nat)
    BY <2>2, SeqMonotonic
  <2> QED BY <2>1, <2>3
<1>4. Taken = s \o Run([num |-> sv.num, start |-> sv.start])
  BY <1>2 DEF Taken, Ended
<1>5. Taken' = s \o Run([num |-> sv'.num, start |-> sv'.start])
  <2>1. Taken' = s' \o Run([num |-> sv'.num, start |-> sv'.start])
    BY <1>1, <1>2 DEF Taken, Ended, Run, BlocksOf
  <2> QED BY <1>3, <2>1
<1> HIDE DEF s
<1>6. CASE sv.num = 0
  <2>1. Taken = s \o <<>>
    BY <1>1, <1>4, <1>6, RunGrows
  <2>2. sv'.num = 1 /\ sv'.start = b
    BY <1>1, <1>6
  <2>3. Taken' = s \o <<b>>
    BY <1>1, <1>5, <2>2, RunGrows
  <2>4. Taken = s
    BY <1>3, <2>1, ConcatEmptySeq
  <2> QED BY <1>1, <1>3, <2>3, <2>4
<1>7. CASE sv.num > 0
  <2>1. sv.prev \in used /\ sv.start + sv.num = sv.prev + 1 /\ sv.prev \in Nat
    <3>1. sv.prev \in Blocks /\ sv.start + sv.num = sv.prev + 1 /\ sv.prev \in Nat
      BY <1>7 DEF CInv, LocalOK, TypeOK, SaveOK
    <3>2. Covers(sv, sv.prev)
      BY <1>1, <1>7, <3>1 DEF Covers
    <3>3. sv.prev \in Pending
      BY <3>1, <3>2 DEF Pending
    <3> QED BY <1>1, <3>1, <3>3, SaveProtected, NullAssumption DEF Protected
  <2>2. b = sv.start + sv.num
    <3>1. b \notin used /\ sv.prev <= b /\ b <= sv.prev + 1
      BY <1>1, <1>7 DEF NextFree, Adjoins
    <3> QED BY <1>1, <2>1, <3>1
  <2> DEFINE r == Run([num |-> sv.num, start |-> sv.start])
  <2>3. Run([num |-> sv.num + 1, start |-> sv.start]) = Append(r, b)
    BY <1>1, <2>2, RunGrows
  <2>4. r \in Seq(Nat)
    <3>1. r = [j \in 1 .. sv.num |-> sv.start + j - 1]
      BY DEF Run
    <3> QED BY <1>1, <3>1
  <2>5. Taken' = s \o Append(r, b)
    <3>1. sv'.num = sv.num + 1 /\ sv'.start = sv.start
      BY <1>1, <1>7
    <3> HIDE DEF r
    <3> QED BY <1>5, <2>3, <3>1
  <2>6. Taken = s \o r
    BY <1>4
  <2> HIDE DEF r
  <2>7. s \o Append(r, b) = Append(s \o r, b)
    <3>1. s \in Seq(Nat) /\ r \in Seq(Nat) /\ b \in Nat
      BY <1>1, <1>3, <2>4
    <3> QED BY <3>1, ConcatAppended
  <2> QED BY <2>5, <2>6, <2>7
<1> QED BY <1>1, <1>6, <1>7

LEMMA TakenInCluster ==
  ASSUME CInv, NEW b \in Blocks, SaveCluster(b), CanInsert(sv.file)
  PROVE  Taken' = Append(Taken, b)
<1>1. /\ sv.file \in FileIds /\ index' = Inserted(sv.file, Ended)
      /\ sv'.file = sv.file /\ sv'.num = 1 /\ sv'.start = b
      /\ sv.num \in Nat /\ sv.start \in Nat /\ b \in Nat /\ sv.num > 0
  BY DEF SaveCluster, Looping, Saving, Adjoins, CInv, LocalOK, TypeOK
<1>2. PICK f \in FileIds, c \in Cluster : f = sv.file /\ c = Ended
  BY <1>1 DEF Ended
<1>3. c.start + c.num <= BlockCount /\ index' = Inserted(f, c)
  BY <1>1, <1>2, BlockCountAssumption
  DEF CInv, LocalOK, TypeOK, SaveOK, Ended, BlockCountAssumption
<1>4. BlocksOf(f)' = BlocksOf(f) \o Run(c)
  <2> HIDE DEF Cluster
  <2> QED BY <1>3, BlocksInserted
<1>5. Taken = BlocksOf(f) \o Run(c)
  BY <1>2 DEF Taken
<1>6. Taken' = Taken \o <<b>>
  <2>1. Taken' = BlocksOf(f)' \o Run([num |-> 1, start |-> b])
    BY <1>1, <1>2 DEF Taken, Ended, Run, BlocksOf
  <2>2. Run([num |-> 1, start |-> b]) = <<b>>
    BY <1>1, RunGrows
  <2> QED BY <1>4, <1>5, <2>1, <2>2
<1>7. Taken \in Seq(Nat)
  <2>1. Owned(sv.file) \cup Pending \subseteq Nat
    BY DEF Owned, Pending
  <2>2. Taken \in Seq(Owned(sv.file) \cup Pending)
    BY <1>1, TakenType
  <2> QED BY <2>1, <2>2, SeqMonotonic
<1> QED BY <1>1, <1>6, <1>7

LEMMA ChunkStored ==
  ASSUME CInv, Looping, ReadOK, NEW b \in Blocks, NextFree(b), StoreChunk(b)
  PROVE  /\ sv.file \in FileIds /\ sv.src \in DiskFiles /\ Size[sv.src] \in Nat
         /\ Taken \in Seq(used) /\ Len(Taken) \in Nat
         /\ heap[sv.file].byte_len = Len(Taken) * BytesPerBlock
         /\ Holding(Taken, sv.src, Len(Taken))
         /\ \A c \in used : data'[c] = data[c]
         /\ b \notin used
         /\ Got > 0 => data'[b] = <<sv.src, Len(Taken)>>
         /\ heap'[sv.file].byte_len = Len(Taken) * BytesPerBlock + Got
<1>1. /\ sv.file \in FileIds /\ sv.src \in DiskFiles /\ Size[sv.src] \in Nat
      /\ sv.file # NULL /\ sv.ok /\ ~sv.eof
  BY SizeAssumption DEF Looping, Saving, CInv, LocalOK, TypeOK, SizeAssumption
<1>2. /\ heap[sv.file].byte_len = Len(Taken) * BytesPerBlock
      /\ Holding(Taken, sv.src, Len(Taken))
  BY <1>1 DEF ReadOK
<1>3. Taken \in Seq(used) /\ Len(Taken) \in Nat
  <2>1. Owned(sv.file) \cup Pending \subseteq used
    BY <1>1 DEF CInv, LocalOK, Protected
  <2>2. Taken \in Seq(Owned(sv.file) \cup Pending) /\ Len(Taken) \in Nat
    BY <1>1, TakenType
  <2> QED BY <2>1, <2>2, SeqMonotonic
<1>4. b \notin used /\ \A c \in used : data'[c] = data[c]
  BY DEF NextFree, StoreChunk, CInv, LocalOK, TypeOK
<1>5. heap[sv.file].byte_len \div BytesPerBlock = Len(Taken)
  <2> DEFINE k == Len(Taken)
             B == BytesPerBlock
  <2>1. B \in Nat \ {0} /\ k \in Nat
    BY <1>3, BytesPerBlockAssumption DEF BytesPerBlockAssumption
  <2>2. heap[sv.file].byte_len = k * B
    BY <1>2
  <2> HIDE DEF k, B
  <2>3. 0 \in 0 .. B - 1 /\ k * B + 0 = k * B
    BY <2>1
  <2>4. (k * B) \div B = k
    BY <2>1, <2>3, Division
  <2> QED BY <2>2, <2>4 DEF k, B
<1>6. Got > 0 => data'[b] = <<sv.src, Len(Taken)>>
  BY <1>5 DEF StoreChunk, CInv, LocalOK, TypeOK
<1>7. heap'[sv.file].byte_len = heap[sv.file].byte_len + Got
  BY <1>1, StoreChunkTypes, BytesPerBlockAssumption, SizeAssumption, NullAssumption DEF CInv
<1> QED BY <1>1, <1>2, <1>3, <1>4, <1>6, <1>7

LEMMA ReadStep ==
  ASSUME CInv, Looping, ReadOK, NEW b \in Blocks, NextFree(b), StoreChunk(b),
         sv'.file = sv.file, sv'.src = sv.src, sv'.eof = AtEof,
         sv'.ok => Taken' = Append(Taken, b)
  PROVE  ReadOK'
<1> SUFFICES ASSUME sv'.ok PROVE ReadOK'
  BY DEF ReadOK
<1> DEFINE B == BytesPerBlock
           t == Taken
           k == Len(Taken)
<1>1. PICK f \in FileIds, d \in DiskFiles : f = sv.file /\ d = sv.src
  BY ChunkStored
<1>2. /\ t \in Seq(used) /\ k \in Nat /\ Size[d] \in Nat /\ B \in Nat \ {0}
      /\ heap[f].byte_len = k * B
      /\ Holding(t, d, k)
      /\ \A c \in used : data'[c] = data[c]
      /\ b \notin used
      /\ Got > 0 => data'[b] = <<d, k>>
      /\ heap'[f].byte_len = k * B + Got
  BY <1>1, ChunkStored, BytesPerBlockAssumption DEF BytesPerBlockAssumption
<1>3. k * B \in Nat /\ (k + 1) * B = k * B + B
  <2>1. k \in Nat /\ B \in Nat
    BY <1>2
  <2> HIDE DEF k, B
  <2> QED BY <2>1, NextMultiple
<1>4. Got \in Nat /\ k * B + Got <= Size[d] /\ Got = Lesser(B, Size[d] - k * B)
  <2>1. Got \in Nat /\ heap[sv.file].byte_len + Got <= Size[sv.src]
    BY <1>1, GotBounds, BytesPerBlockAssumption, SizeAssumption, NullAssumption
    DEF CInv, LocalOK, NullAssumption
  <2>2. Got = Lesser(B, Size[sv.src] - heap[sv.file].byte_len)
    BY DEF Got
  <2> QED BY <1>1, <1>2, <2>1, <2>2
<1>5. Taken' = Append(t, b) /\ Len(Append(t, b)) = k + 1
  BY <1>2
<1> DEFINE Keeps(n) == \A i \in 1 .. Len(Append(t, b)) :
                        i <= n => data'[Append(t, b)[i]] = <<d, i - 1>>
<1>6. ASSUME NEW n \in Nat, n <= k \/ (n = k + 1 /\ Got > 0)
      PROVE  Keeps(n)
  <2>1. /\ \A i \in 1 .. k : Append(t, b)[i] = t[i] /\ t[i] \in used
        /\ Append(t, b)[k + 1] = b
    BY <1>2
  <2>2. \A i \in 1 .. k : data[t[i]] = <<d, i - 1>>
    BY <1>2 DEF Holding
  <2> HIDE DEF k, t
  <2>3. ASSUME NEW i \in 1 .. k + 1, i <= n
        PROVE  data'[Append(t, b)[i]] = <<d, i - 1>>
    <3>1. CASE i \in 1 .. k
      BY <1>2, <2>1, <2>2, <3>1
    <3>2. CASE i = k + 1
      <4>1. data'[b] = <<d, k>> /\ i - 1 = k
        BY <1>2, <1>6, <2>3, <3>2
      <4> QED BY <2>1, <3>2, <4>1
    <3>3. i \in 1 .. k \/ i = k + 1
      <4>1. k \in Nat
        BY <1>2
      <4> QED BY <4>1
    <3> QED BY <3>1, <3>2, <3>3
  <2> QED BY <1>5, <2>3
<1> HIDE DEF k, B, t
<1>8. CASE Got < B
  <2>1. Got \in 0 .. B - 1 /\ Size[d] = k * B + Got
    <3> DEFINE x == k * B
    <3>1. x \in Nat /\ Size[d] \in Nat /\ B \in Nat /\ Got \in Nat
      BY <1>2, <1>3, <1>4
    <3>2. Got = Lesser(B, Size[d] - x)
      BY <1>4
    <3> HIDE DEF x
    <3>3. Got \in 0 .. B - 1 /\ Size[d] = x + Got
      BY <1>8, <3>1, <3>2 DEF Lesser
    <3> QED BY <3>3 DEF x
  <2>2. /\ BlocksFor(Size[d]) = k + 1
        /\ BlocksWithBytes(Size[d]) = IF Got = 0 THEN k ELSE k + 1
    <3>1. k \in Nat /\ Got \in 0 .. BytesPerBlock - 1
      BY <1>2, <2>1 DEF B
    <3>2. /\ BlocksFor(k * BytesPerBlock + Got) = k + 1
          /\ BlocksWithBytes(k * BytesPerBlock + Got) = IF Got = 0 THEN k ELSE k + 1
      BY <3>1, LastBlock
    <3> QED BY <2>1, <3>2 DEF B
  <2>3. Keeps(BlocksWithBytes(Size[d]))
    <3>1. BlocksWithBytes(Size[d]) \in Nat
      BY <1>2, <2>2
    <3>2. BlocksWithBytes(Size[d]) <= k \/ (BlocksWithBytes(Size[d]) = k + 1 /\ Got > 0)
      BY <1>2, <1>4, <2>2
    <3> HIDE DEF Keeps
    <3> QED BY <1>6, <3>1, <3>2
  <2>4. sv'.eof
    BY <1>8 DEF AtEof, B
  <2>5. heap'[f].byte_len = Size[d]
    BY <1>2, <2>1
  <2>6. Complete(Taken, heap[sv.file].byte_len, sv.src)'
    BY <1>1, <1>5, <2>2, <2>3, <2>5 DEF Complete, Holding
  <2> QED BY <2>4, <2>6 DEF ReadOK
<1>9. CASE ~(Got < B)
  <2>1. Got = B /\ Got > 0
    <3> DEFINE x == k * B
    <3>1. x \in Nat /\ Size[d] \in Nat /\ B \in Nat \ {0} /\ Got \in Nat
      BY <1>2, <1>3, <1>4
    <3>2. Got = Lesser(B, Size[d] - x)
      BY <1>4
    <3> HIDE DEF x
    <3> QED BY <1>9, <3>1, <3>2 DEF Lesser
  <2>2. heap'[f].byte_len = (k + 1) * B
    BY <1>2, <1>3, <2>1
  <2>3. Keeps(k + 1)
    <3>1. k + 1 \in Nat
      BY <1>2
    <3> HIDE DEF Keeps
    <3> QED BY <1>6, <2>1, <3>1
  <2>4. ~sv'.eof
    BY <1>9 DEF AtEof, B
  <2>5. Holding(Taken, sv.src, Len(Taken))'
    BY <1>1, <1>5, <2>3 DEF Holding
  <2>6. heap'[sv'.file].byte_len = Len(Taken') * BytesPerBlock
    BY <1>1, <1>5, <2>2 DEF B
  <2> QED BY <2>4, <2>5, <2>6 DEF ReadOK
<1> QED BY <1>8, <1>9

-----------------------------------------------------------------------------
(* What an operation does to the files it is not about: nothing *)

Unaffected(f) ==
  /\ index'[f] = index[f]
  /\ heap[f] # NULL
  /\ heap'[f].byte_len = heap[f].byte_len
  /\ \A b \in Owned(f) : data'[b] = data[b]

LEMMA StoredFrame ==
  ASSUME CInv, StoredOK,
         \A f \in FileIds : index'[f] # <<>> /\ f # sv'.file /\ heap'[f] # NULL =>
           f # sv.file /\ Unaffected(f)
  PROVE  StoredOK'
<1> SUFFICES ASSUME NEW f \in FileIds, index'[f] # <<>>, f # sv'.file, heap'[f] # NULL
             PROVE  \E d \in DiskFiles : Complete(BlocksOf(f), heap[f].byte_len, d)'
  BY DEF StoredOK, Keyed
<1>1. f # sv.file /\ Unaffected(f)
  OBVIOUS
<1>2. f \in Keyed \ {sv.file} /\ heap[f] # NULL
  BY <1>1 DEF Unaffected, Keyed
<1> QED BY <1>1, <1>2, StoredKept DEF Unaffected

LEMMA FreeBlockStored ==
  ASSUME Protected, NEW b \in Blocks, NextFree(b),
         \A c \in Blocks \ {b} : data'[c] = data[c]
  PROVE  \A f \in FileIds : \A c \in Owned(f) : data'[c] = data[c]
BY FreeBlockIsNobodys DEF Owned

LEMMA ContentFrame ==
  ASSUME CInv, ContentOK, UNCHANGED <<data, index, heap, sv>>
  PROVE  ContentOK'
<1>1. Taken' = Taken
  BY DEF Taken, BlocksOf, Run, Ended
<1>2. ReadOK'
  BY <1>1 DEF ContentOK, ReadOK, Complete, Holding
<1>3. StoredOK'
  <2>1. \A f \in FileIds : index'[f] # <<>> /\ f # sv'.file /\ heap'[f] # NULL =>
          f # sv.file /\ Unaffected(f)
    BY DEF Unaffected
  <2> QED BY <2>1, StoredFrame DEF ContentOK
<1> QED BY <1>2, <1>3 DEF ContentOK

LEMMA ContentSaveBlock ==
  ASSUME CInv, ContentOK, NEW b \in Blocks, SaveBlock(b)
  PROVE  ContentOK'
<1>1. /\ sv.file \in FileIds /\ index' = index /\ Looping
      /\ NextFree(b) /\ StoreChunk(b)
      /\ sv'.file = sv.file /\ sv'.src = sv.src /\ sv'.eof = AtEof
  BY DEF SaveBlock, Looping, Saving, CInv, LocalOK, TypeOK
<1>2. ReadOK'
  BY <1>1, TakenInBlock, ReadStep DEF ContentOK
<1>3. \A f \in FileIds : \A c \in Owned(f) : data'[c] = data[c]
  BY <1>1, FreeBlockStored, SaveProtected, NullAssumption DEF StoreChunk, CInv, LocalOK, TypeOK
<1>4. \A f \in FileIds \ {sv.file} : heap'[f] = heap[f]
  BY <1>1 DEF StoreChunk, CInv, LocalOK, TypeOK
<1>5. StoredOK'
  BY <1>1, <1>3, <1>4, StoredFrame DEF Unaffected, ContentOK
<1> QED BY <1>2, <1>5 DEF ContentOK

LEMMA ContentSaveCluster ==
  ASSUME CInv, ContentOK, NEW b \in Blocks, SaveCluster(b)
  PROVE  ContentOK'
<1>1. /\ sv.file \in FileIds /\ Looping
      /\ NextFree(b) /\ StoreChunk(b)
      /\ sv'.file = sv.file /\ sv'.src = sv.src /\ sv'.eof = AtEof
      /\ sv'.ok = CanInsert(sv.file)
      /\ index' = IF CanInsert(sv.file) THEN Inserted(sv.file, Ended) ELSE index
  <2> DEFINE o == CanInsert(sv.file)
  <2>1. sv' = [sv EXCEPT !.start = b, !.num = 1, !.prev = b, !.eof = AtEof, !.ok = o]
    BY DEF SaveCluster
  <2> HIDE DEF o
  <2>2. sv'.ok = o /\ sv'.file = sv.file /\ sv'.src = sv.src /\ sv'.eof = AtEof
    BY <2>1 DEF CInv, LocalOK, TypeOK
  <2> QED BY <2>2 DEF SaveCluster, Looping, Saving, CInv, LocalOK, TypeOK, o
<1>2. ReadOK'
  BY <1>1, TakenInCluster, ReadStep DEF ContentOK
<1>3. \A f \in FileIds : \A c \in Owned(f) : data'[c] = data[c]
  BY <1>1, FreeBlockStored, SaveProtected, NullAssumption DEF StoreChunk, CInv, LocalOK, TypeOK
<1>4. \A f \in FileIds \ {sv.file} : heap'[f] = heap[f]
  BY <1>1 DEF StoreChunk, CInv, LocalOK, TypeOK
<1>5. \A f \in FileIds \ {sv.file} : index'[f] = index[f]
  BY <1>1 DEF Inserted, CInv, LocalOK, TypeOK
<1>6. StoredOK'
  BY <1>1, <1>3, <1>4, <1>5, StoredFrame DEF Unaffected, ContentOK
<1> QED BY <1>2, <1>6 DEF ContentOK

LEMMA ContentSaveReadError ==
  ASSUME CInv, ContentOK, NEW b \in Blocks, SaveReadError(b)
  PROVE  ContentOK'
<1>1. /\ sv.file \in FileIds /\ index' = index /\ NextFree(b)
      /\ sv'.file = sv.file /\ sv'.ok = FALSE
      /\ \A f \in FileIds \ {sv.file} : heap'[f] = heap[f]
      /\ \A c \in Blocks \ {b} : data'[c] = data[c]
  BY DEF SaveReadError, Looping, Saving, CInv, LocalOK, TypeOK
<1>2. ReadOK'
  BY <1>1 DEF ReadOK
<1>3. \A f \in FileIds : \A c \in Owned(f) : data'[c] = data[c]
  BY <1>1, FreeBlockStored, SaveProtected, NullAssumption
<1>4. StoredOK'
  BY <1>1, <1>3, StoredFrame DEF Unaffected, ContentOK
<1> QED BY <1>2, <1>4 DEF ContentOK

\* A save ends without a file in the index, or its file is freed or given up.
LEMMA ContentWithdrawn ==
  ASSUME CInv, ContentOK, NEW f \in FileIds, sv'.file = NULL, sv.file \in {NULL, f},
         data' = data,
         index'[f] = <<>> \/ heap'[f] = NULL,
         \A g \in FileIds \ {f} : index'[g] = index[g] /\ heap'[g] = heap[g]
  PROVE  ContentOK'
<1>1. ReadOK'
  BY DEF ReadOK
<1>2. NULL \notin FileIds
  BY NullAssumption DEF NullAssumption
<1>3. StoredOK'
  BY <1>2, StoredFrame DEF Unaffected, ContentOK
<1> QED BY <1>1, <1>3 DEF ContentOK

LEMMA ContentSaveOpen ==
  ASSUME CInv, ContentOK, NEW n \in Names, NEW d \in DiskFiles, NEW f \in FileIds,
         SaveOpen(n, d, f)
  PROVE  ContentOK'
<1>1. /\ sv.file = NULL /\ index' = index /\ data' = data /\ index[f] = <<>>
      /\ heap' = [heap EXCEPT ![f] = [name |-> n, byte_len |-> 0]]
      /\ sv'.file = f /\ sv'.num = 0 /\ sv'.start = 0 /\ ~sv'.eof
  BY DEF SaveOpen, Ready, Between, Clean, Keyed, Idle
<1>2. Taken' = <<>>
  <2>1. BlocksOf(f)' = <<>>
    <3>1. BlocksOf(f)' = BlocksOf(f)
      BY <1>1, BlocksKept
    <3> QED BY <1>1, <3>1, BlocksUnkeyed
  <2>2. Taken' = BlocksOf(f)' \o Run([num |-> 0, start |-> 0])
    BY <1>1 DEF Taken, Ended, Run, BlocksOf
  <2>3. Run([num |-> 0, start |-> 0]) = <<>>
    BY RunGrows
  <2> QED BY <2>1, <2>2, <2>3
<1>3. heap'[f].byte_len = 0
  BY <1>1 DEF CInv, LocalOK, TypeOK
<1>4. ReadOK'
  <2>1. Len(Taken') = 0 /\ 0 * BytesPerBlock = 0
    BY <1>2, BytesPerBlockAssumption DEF BytesPerBlockAssumption
  <2>2. heap'[sv'.file].byte_len = Len(Taken') * BytesPerBlock
    BY <1>1, <1>3, <2>1
  <2>3. Holding(Taken, sv.src, Len(Taken))'
    BY <2>1 DEF Holding
  <2> QED BY <1>1, <2>2, <2>3 DEF ReadOK
<1>5. \A g \in FileIds \ {f} : heap'[g] = heap[g]
  BY <1>1 DEF CInv, LocalOK, TypeOK
<1>6. NULL \notin FileIds
  BY NullAssumption DEF NullAssumption
<1>7. StoredOK'
  BY <1>1, <1>5, <1>6, StoredFrame DEF Unaffected, ContentOK
<1> QED BY <1>4, <1>7 DEF ContentOK

LEMMA ContentSaveCommit ==
  ASSUME CInv, ContentOK, SaveCommit
  PROVE  ContentOK'
<1>1. /\ sv.file \in FileIds /\ sv.eof /\ sv.ok /\ sv.num > 0 /\ sv.src \in DiskFiles
      /\ index' = Inserted(sv.file, Ended) /\ heap' = heap /\ data' = data
      /\ sv'.file = NULL /\ sv.file # NULL
  BY DEF SaveCommit, LoopOver, Saving, Stored, SaveReturns, Idle, CInv, LocalOK, TypeOK, SaveOK
<1>2. PICK f \in FileIds, c \in Cluster : f = sv.file /\ c = Ended
  BY <1>1 DEF Ended, CInv, LocalOK, TypeOK
<1>3. c.start + c.num <= BlockCount /\ index' = Inserted(f, c)
  BY <1>1, <1>2, BlockCountAssumption
  DEF CInv, LocalOK, TypeOK, SaveOK, Ended, BlockCountAssumption
<1>4. /\ BlocksOf(f)' = BlocksOf(f) \o Run(c)
      /\ \A g \in FileIds \ {f} : index'[g] = index[g]
  <2> HIDE DEF Cluster
  <2> QED BY <1>3, BlocksInserted
<1>5. BlocksOf(f)' = Taken
  BY <1>2, <1>4 DEF Taken
<1>6. Complete(Taken, heap[f].byte_len, sv.src)
  BY <1>1, <1>2 DEF ContentOK, ReadOK
<1>7. PICK d \in DiskFiles : d = sv.src
  BY <1>1
<1>8. Complete(BlocksOf(f), heap[f].byte_len, d)'
  BY <1>1, <1>5, <1>6, <1>7 DEF Complete, Holding
<1>9. ASSUME NEW g \in FileIds \ {f}, index'[g] # <<>>, heap'[g] # NULL
      PROVE  \E e \in DiskFiles : Complete(BlocksOf(g), heap[g].byte_len, e)'
  <2>1. g \in Keyed \ {sv.file} /\ heap[g] # NULL /\ index'[g] = index[g]
    BY <1>1, <1>2, <1>4, <1>9 DEF Keyed
  <2> QED BY <1>1, <2>1, StoredKept DEF ContentOK
<1>10. StoredOK'
  BY <1>8, <1>9 DEF StoredOK, Keyed
<1>11. ReadOK'
  BY <1>1 DEF ReadOK
<1> QED BY <1>10, <1>11 DEF ContentOK

LEMMA ContentRename ==
  ASSUME CInv, ContentOK, NEW old \in Names, NEW new \in Names, NEW f \in FileIds,
         Rename(old, new, f)
  PROVE  ContentOK'
<1>1. /\ sv.file = NULL /\ sv' = sv /\ index' = index /\ data' = data
      /\ heap[f] # NULL /\ heap[f] \in FileRecord
      /\ heap' = [heap EXCEPT ![f] = [heap[f] EXCEPT !.name = new]]
  BY DEF Rename, Ready, Between, Found, CInv, LocalOK, TypeOK
<1>2. [heap[f] EXCEPT !.name = new].byte_len = heap[f].byte_len
  BY <1>1 DEF FileRecord
<1>3. \A g \in FileIds : heap'[g] # NULL => heap[g] # NULL /\ heap'[g].byte_len = heap[g].byte_len
  BY <1>1, <1>2 DEF CInv, LocalOK, TypeOK
<1>4. NULL \notin FileIds
  BY NullAssumption DEF NullAssumption
<1>5. StoredOK'
  BY <1>1, <1>3, <1>4, StoredFrame DEF Unaffected, ContentOK
<1> QED BY <1>1, <1>5 DEF ContentOK, ReadOK

LEMMA ContentNext ==
  ASSUME CInv, ContentOK, [Next]_vars
  PROVE  ContentOK'
<1>0. ASSUME UNCHANGED <<data, index, heap, sv>> PROVE ContentOK'
  BY <1>0, ContentFrame
<1>1. CASE SaveRollback \/ SaveRollbackFails \/ SaveAbandoned
  <2>1. /\ sv.file \in FileIds /\ sv'.file = NULL /\ data' = data
        /\ heap' = [heap EXCEPT ![sv.file] = NULL]
        /\ \A g \in FileIds \ {sv.file} : index'[g] = index[g]
    BY <1>1 DEF SaveRollback, SaveRollbackFails, SaveAbandoned, LoopOver, Saving,
                SaveReturns, Idle, Inserted, CInv, LocalOK, TypeOK
  <2>2. heap'[sv.file] = NULL /\ \A g \in FileIds \ {sv.file} : heap'[g] = heap[g]
    BY <2>1 DEF CInv, LocalOK, TypeOK
  <2>3. PICK f \in FileIds : f = sv.file
    BY <2>1
  <2> QED BY <2>1, <2>2, <2>3, ContentWithdrawn
<1>2. ASSUME NEW n \in Names, NEW f \in FileIds, Delete(n, f) PROVE ContentOK'
  <2>1. CASE ~Restorable(f)
    BY <1>0, <1>2, <2>1 DEF Delete, Halt
  <2>2. CASE Restorable(f)
    <3>1. /\ sv.file = NULL /\ sv' = sv /\ data' = data
          /\ index' = [index EXCEPT ![f] = <<>>]
          /\ heap' = [heap EXCEPT ![f] = NULL]
      BY <1>2, <2>2 DEF Delete, Ready, Between
    <3>2. index'[f] = <<>>
          /\ \A g \in FileIds \ {f} : index'[g] = index[g] /\ heap'[g] = heap[g]
      BY <3>1 DEF CInv, LocalOK, TypeOK
    <3> QED BY <3>1, <3>2, ContentWithdrawn
  <2> QED BY <2>1, <2>2
<1>3. ASSUME NEW old \in Names, NEW new \in Names, NEW f \in FileIds,
             RenameLosesFile(old, new, f)
      PROVE  ContentOK'
  <2>1. /\ sv.file = NULL /\ sv' = sv /\ data' = data /\ heap' = heap
        /\ index' = [index EXCEPT ![f] = <<>>]
    BY <1>3 DEF RenameLosesFile, Ready, Between
  <2>2. index'[f] = <<>> /\ \A g \in FileIds \ {f} : index'[g] = index[g]
    BY <2>1 DEF CInv, LocalOK, TypeOK
  <2> QED BY <2>1, <2>2, ContentWithdrawn
<1>4. CASE Destroy
  <2>1. sv.file = NULL /\ sv' = sv /\ \A f \in FileIds : index'[f] = <<>>
    BY <1>4 DEF Destroy, Ready, Between
  <2> QED BY <2>1 DEF ContentOK, ReadOK, StoredOK, Keyed
<1>5. CASE SaveStep
  BY <1>0, <1>1, <1>5, ContentSaveBlock, ContentSaveCluster, ContentSaveReadError,
     ContentSaveCommit
  DEF SaveStep, SaveInsertAborts, Halt
<1>6. CASE Lookup
  BY <1>0, <1>6 DEF Lookup, LoadMissing, LoadFailed, Refuse, Load, Dir, DirAborts, Halt
<1>7. CASE Alter
  <2>1. ASSUME NEW n \in Names,
               SaveUnopened(n) \/ SaveDuplicate(n) \/ DeleteMissing(n) \/ DeleteUnread(n)
        PROVE  ContentOK'
    BY <1>0, <2>1 DEF SaveUnopened, SaveDuplicate, DeleteMissing, DeleteUnread, Refuse
  <2>2. ASSUME NEW old \in Names, NEW new \in Names,
               RenameRefused(old, new) \/ RenameUnread(old, new) \/ RenameAborts(old, new)
        PROVE  ContentOK'
    BY <1>0, <2>2 DEF RenameRefused, RenameUnread, RenameAborts, Refuse, Halt
  <2> QED BY <1>2, <1>3, <1>7, <2>1, <2>2, ContentSaveOpen, ContentRename DEF Alter
<1>8. CASE TouchDangling \/ Halted \/ UNCHANGED vars
  BY <1>0, <1>8 DEF TouchDangling, Halted, Halt, vars
<1> QED BY <1>4, <1>5, <1>6, <1>7, <1>8 DEF Next

LEMMA ContentInit ==
  ASSUME Init
  PROVE  ContentOK
BY DEF Init, ContentOK, ReadOK, StoredOK, Keyed, Idle

-----------------------------------------------------------------------------
\* Every stored file has exactly the blocks its length needs, one more than the
\* full ones, so imffs_load never runs out of clusters before it runs out of
\* bytes, and what imffs_defrag takes for granted of a file holds when it starts
\* (a5_imffs.c, lines 372 to 410, 492 to 512 and 729).
THEOREM LengthsMatch == Spec => []BlocksMatchLength
<1>1. Init => IInv /\ ContentOK
  BY IInvInit, ContentInit, BlockCountAssumption
<1>2. IInv /\ ContentOK /\ [Next]_vars => IInv' /\ ContentOK'
  BY IInvNext, ContentNext, StrongerInv
<1>3. ContentOK => BlocksMatchLength
  BY DEF ContentOK, StoredOK, Complete, BlocksMatchLength
<1> QED BY <1>1, <1>2, <1>3, PTL DEF Spec

LEMMA BlocksCoverBytes ==
  ASSUME NEW n \in Nat, NEW B \in Nat \ {0}
  PROVE  (n \div B + 1) * B >= n
OBVIOUS

LEMMA LengthsCovered ==
  ASSUME CInv, BlocksMatchLength, sv.file = NULL, NEW f \in Keyed, heap[f] # NULL
  PROVE  LengthCovered(f)
<1>1. heap[f].byte_len \in Nat /\ f # NULL
  BY NullAssumption DEF Keyed, CInv, LocalOK, TypeOK, FileRecord, NullAssumption
<1>2. Len(BlocksOf(f)) = heap[f].byte_len \div BytesPerBlock + 1
  BY <1>1 DEF BlocksMatchLength, BlocksFor
<1>3. BytesPerBlock \in Nat \ {0}
  BY BytesPerBlockAssumption DEF BytesPerBlockAssumption
<1>4. (heap[f].byte_len \div BytesPerBlock + 1) * BytesPerBlock >= heap[f].byte_len
  BY <1>1, <1>3, BlocksCoverBytes
<1> QED BY <1>2, <1>4 DEF LengthCovered

LEMMA NoAbortNext ==
  ASSUME IInv, ~MallocMayFail, HeapExact, DeleteNeverAborts, BlocksMatchLength,
         NoAbort, [Next]_vars
  PROVE  NoAbort'
<1>0. ASSUME status' = status PROVE NoAbort'
  BY <1>0 DEF NoAbort
<1>1. ASSUME NEW n \in Names, NEW f \in FileIds, Load(n, f) PROVE NoAbort'
  <2>1. f \in Keyed /\ heap[f] # NULL /\ sv.file = NULL
    BY <1>1 DEF Load, Found, Ready, Between
  <2>2. LengthCovered(f)
    BY <2>1, LengthsCovered, StrongerInv
  <2> QED BY <1>0, <1>1, <2>2 DEF Load
<1>2. ASSUME NEW n \in Names, NEW f \in FileIds, Delete(n, f) PROVE NoAbort'
  <2>1. Restorable(f)
    BY DEF DeleteNeverAborts
  <2> QED BY <1>0, <1>2, <2>1 DEF Delete
<1>3. ~TouchDangling
  <2>1. Clean
    BY DEF HeapExact, Clean, Keyed
  <2> QED BY <2>1 DEF TouchDangling
<1>4. CASE SaveStep
  BY <1>0, <1>4 DEF SaveStep, SaveBlock, SaveCluster, SaveReadError, SaveCommit,
     SaveRollback, SaveRollbackFails, SaveAbandoned, SaveInsertAborts, SaveReturns
<1>5. CASE Lookup
  BY <1>0, <1>1, <1>5 DEF Lookup, LoadMissing, LoadFailed, Refuse, Dir, DirAborts
<1>6. CASE Alter
  <2>1. ASSUME NEW n \in Names,
               SaveUnopened(n) \/ SaveDuplicate(n) \/ DeleteMissing(n) \/ DeleteUnread(n)
        PROVE  NoAbort'
    BY <1>0, <2>1 DEF SaveUnopened, SaveDuplicate, DeleteMissing, DeleteUnread, Refuse
  <2>2. ASSUME NEW n \in Names, NEW d \in DiskFiles, NEW f \in FileIds, SaveOpen(n, d, f)
        PROVE  NoAbort'
    BY <1>0, <2>2 DEF SaveOpen
  <2>3. ASSUME NEW old \in Names, NEW new \in Names,
               RenameRefused(old, new) \/ RenameUnread(old, new) \/ RenameAborts(old, new)
        PROVE  NoAbort'
    BY <1>0, <2>3 DEF RenameRefused, RenameUnread, RenameAborts, Refuse
  <2>4. ASSUME NEW old \in Names, NEW new \in Names, NEW f \in FileIds,
               Rename(old, new, f) \/ RenameLosesFile(old, new, f)
        PROVE  NoAbort'
    BY <1>0, <2>4 DEF Rename, RenameLosesFile
  <2> QED BY <1>2, <1>6, <2>1, <2>2, <2>3, <2>4 DEF Alter
<1>7. CASE Destroy
  BY <1>7 DEF Destroy, NoAbort
<1>8. CASE Halted \/ UNCHANGED vars
  BY <1>0, <1>8 DEF Halted, vars
<1> QED BY <1>3, <1>4, <1>5, <1>6, <1>7, <1>8 DEF Next

\* As long as no malloc fails, no assertion of imffs fails and nothing undefined
\* happens, whatever is saved, loaded, renamed and deleted: neither the one that
\* imffs_load makes of the bytes left (line 502) nor those of restore_free_space
\* (lines 104 and 105), nor the use of a freed File.
THEOREM NothingAborts == Spec => [](MallocMayFail \/ NoAbort)
<1>1. Init => IInv
  BY IInvInit, BlockCountAssumption
<1>2. IInv /\ [Next]_vars => IInv'
  BY IInvNext
<1>3. Init => NoAbort
  BY DEF Init, NoAbort
<1>4. /\ IInv /\ ~MallocMayFail /\ (MallocMayFail \/ HeapExact) /\ DeleteNeverAborts
      /\ BlocksMatchLength /\ NoAbort /\ [Next]_vars
      => NoAbort'
  BY NoAbortNext
<1>5. CASE MallocMayFail
  BY <1>5, PTL
<1>6. CASE ~MallocMayFail
  BY <1>1, <1>2, <1>3, <1>4, <1>6, HeapIsExact, DeletesSafe, LengthsMatch, PTL DEF Spec
<1> QED BY <1>5, <1>6

-----------------------------------------------------------------------------
(* What dir lists *)

LEMMA BlocksCounted ==
  ASSUME CInv, NEW f \in FileIds
  PROVE  IsFiniteSet(Owned(f)) /\ Cardinality(Owned(f)) = Len(BlocksOf(f))
<1> DEFINE n == Len(index[f])
           part == [i \in 1 .. n |-> {b \in Blocks : Covers(index[f][i], b)}]
<1>1. /\ n \in Nat /\ DOMAIN index[f] = 1 .. n
      /\ \A i \in 1 .. n : index[f][i].start \in Nat /\ index[f][i].num \in Nat
  BY ClusterTypes DEF CInv
<1>2. ASSUME NEW i \in 1 .. n
      PROVE  IsFiniteSet(part[i]) /\ Cardinality(part[i]) = index[f][i].num
  <2> DEFINE a == index[f][i].start
             b == index[f][i].start + index[f][i].num - 1
  <2>1. index[f][i].num > 0 /\ index[f][i].start + index[f][i].num <= BlockCount
    BY <1>1 DEF CInv, LocalOK, OnDevice
  <2>2. a \in Nat /\ b \in Int /\ b < BlockCount /\ BlockCount \in Nat
    BY <1>1, <2>1, BlockCountAssumption DEF BlockCountAssumption
  <2>3. part[i] = a .. b
    <3>1. \A x \in Int : a <= x /\ x < a + index[f][i].num <=> a <= x /\ x <= b
      BY <1>1
    <3>2. a .. b \subseteq Blocks
      BY <2>2
    <3>3. part[i] = {x \in Blocks : a <= x /\ x < a + index[f][i].num}
      BY DEF Covers
    <3> HIDE DEF a, b, part
    <3> QED BY <2>2, <3>1, <3>2, <3>3
  <2>4. b - a + 1 = index[f][i].num /\ a <= b
    BY <1>1, <2>1
  <2> HIDE DEF a, b, part
  <2> QED BY <2>2, <2>3, <2>4, FS_Interval
<1>3. Runs(f) \in Seq(Seq(Owned(f))) /\ Len(Runs(f)) = n
  BY RunsType
<1>4. ASSUME NEW i \in 1 .. n PROVE Len(Runs(f)[i]) = index[f][i].num
  <2>1. index[f][i] \in Cluster /\ Runs(f)[i] = Run(index[f][i])
    BY <1>1, ClusterTypes, RunsType DEF CInv
  <2> HIDE DEF Cluster
  <2> QED BY <2>1, RunType
<1>5. ASSUME NEW i \in 1 .. n, NEW j \in 1 .. n, i # j PROVE part[i] \cap part[j] = {}
  <2>1. \A b \in Blocks : ~(Covers(index[f][i], b) /\ Covers(index[f][j], b))
    BY <1>1, <1>5 DEF CInv, LocalOK, Disjoint
  <2> QED BY <2>1
<1>6. UNION {part[i] : i \in 1 .. n} = Owned(f)
  <2>1. Owned(f) = {b \in Blocks : \E i \in 1 .. n : Covers(index[f][i], b)}
    BY <1>1 DEF Owned
  <2>2. \A i \in 1 .. n : part[i] = {b \in Blocks : Covers(index[f][i], b)}
    OBVIOUS
  <2> HIDE DEF n, part
  <2> QED BY <2>1, <2>2
<1> HIDE DEF n, part
<1>7. /\ IsFiniteSet(UNION {part[i] : i \in 1 .. Len(Runs(f))})
      /\ Cardinality(UNION {part[i] : i \in 1 .. Len(Runs(f))}) = Len(FlattenSeq(Runs(f)))
  <2>1. /\ \A i \in 1 .. Len(Runs(f)) :
             IsFiniteSet(part[i]) /\ Cardinality(part[i]) = Len(Runs(f)[i])
        /\ \A i, j \in 1 .. Len(Runs(f)) : i # j => part[i] \cap part[j] = {}
    BY <1>2, <1>3, <1>4, <1>5
  <2> QED BY <1>3, <2>1, FlattenCounts
<1> QED BY <1>3, <1>6, <1>7, BlocksAreRuns

LEMMA FewKeys ==
  ASSUME CInv
  PROVE  IsFiniteSet(Keyed)
<1> DEFINE first == [f \in Keyed |-> index[f][1].start]
<1>1. first \in [Keyed -> Blocks]
  BY KeysHaveBlocks, BlockCountAssumption DEF CInv
<1>2. ASSUME NEW f \in Keyed, NEW g \in Keyed, f # g PROVE first[f] # first[g]
  <2>1. f \in FileIds /\ g \in FileIds
    BY DEF Keyed
  <2>2. Owned(f) \cap Owned(g) = {}
    BY <1>2, <2>1, OwnedApart DEF CInv
  <2> QED BY <2>2, KeysHaveBlocks, BlockCountAssumption DEF CInv
<1>3. IsFiniteSet(Blocks)
  BY BlockCountAssumption, FS_Interval DEF BlockCountAssumption
<1>4. first \in Injection(Keyed, Blocks)
  <2> HIDE DEF first
  <2> QED BY <1>1, <1>2 DEF Injection, IsInjective
<1> HIDE DEF first
<1> QED BY <1>3, <1>4, FS_Injection

Rows == {Row(f) : f \in Keyed}

LEMMA RowsCounted ==
  ASSUME IInv, Clean, NamesUnique, NoBlockLeaked, status = "running", sv.file = NULL
  PROVE  Cardinality(used) = SumFunction([row \in Rows |-> row.blocks])
<1> DEFINE part == [f \in Keyed |-> Owned(f)]
           count == [f \in Keyed |-> Cardinality(part[f])]
           blocks == [row \in Rows |-> row.blocks]
           listed == [f \in Keyed |-> Row(f)]
<1>1. IsFiniteSet(Keyed) /\ Keyed \subseteq FileIds
  BY FewKeys, StrongerInv DEF Keyed
<1>2. \A f \in Keyed : /\ IsFiniteSet(part[f])
                       /\ count[f] = Len(BlocksOf(f)) /\ count[f] \in Int
  BY <1>1, BlocksCounted, BlocksType, StrongerInv
<1>3. \A f, g \in Keyed : f # g => part[f] \cap part[g] = {}
  BY <1>1, OwnedApart DEF IInv
<1>4. UNION {part[f] : f \in Keyed} = used
  <2>1. Pending = {}
    BY IdleHasNoPending DEF IInv, LocalOK, SaveOK
  <2>2. \A f \in FileIds \ Keyed : Owned(f) = {}
    BY DEF Keyed, Owned
  <2>3. used \subseteq UNION {Owned(f) : f \in FileIds}
    BY <2>1 DEF NoBlockLeaked
  <2>4. \A f \in FileIds : Owned(f) \subseteq used
    BY DEF IInv, LocalOK, Protected
  <2> QED BY <1>1, <2>2, <2>3, <2>4
<1>5. Cardinality(used) = SumFunctionOnSet(count, Keyed)
  <2> HIDE DEF part
  <2>1. Cardinality(UNION {part[f] : f \in Keyed}) = SumFunctionOnSet(count, Keyed)
    BY <1>1, <1>2, <1>3, UnionCounts
  <2> HIDE DEF count
  <2> QED BY <1>4, <2>1
<1>6. listed \in Bijection(Keyed, Rows)
  <2>1. ASSUME NEW f \in Keyed, NEW g \in Keyed, Row(f) = Row(g) PROVE f = g
    <3>1. heap[f].name = heap[g].name /\ f \in Live /\ g \in Live
      BY <2>1 DEF Row, Live, Clean
    <3> QED BY <3>1 DEF NamesUnique
  <2>2. listed \in [Keyed -> Rows] /\ \A row \in Rows : \E f \in Keyed : listed[f] = row
    BY DEF Rows
  <2> QED BY <2>1, <2>2 DEF Bijection, Injection, Surjection, IsInjective
<1>7. IsFiniteSet(Rows)
  BY <1>1, <1>6, FS_Bijection DEF ExistsBijection
<1>8. \A f \in Keyed : count[f] = blocks[listed[f]]
  <2>1. \A f \in Keyed : Row(f) \in Rows /\ Row(f).blocks = Len(BlocksOf(f))
    BY DEF Row, Rows
  <2> HIDE DEF count
  <2> QED BY <1>2, <2>1
<1>9. \A row \in Rows : blocks[row] \in Int
  <2>1. \A f \in Keyed : Row(f).blocks \in Int
    BY <1>1, BlocksType DEF Row
  <2> QED BY <2>1 DEF Rows
<1>10. SumFunctionOnSet(count, Keyed) = SumFunctionOnSet(blocks, Rows)
  <2>1. \A f \in Keyed : count[f] \in Int
    BY <1>2
  <2> HIDE DEF count, blocks, listed
  <2> QED BY <1>1, <1>6, <1>7, <1>8, <1>9, <2>1, SumsEqual
<1>11. SumFunction(blocks) = SumFunctionOnSet(blocks, Rows)
  <2>1. DOMAIN blocks = Rows
    OBVIOUS
  <2> HIDE DEF blocks
  <2> QED BY <2>1 DEF SumFunction
<1> QED BY <1>5, <1>10, <1>11

\* The list that dir has given stays true until an operation answers again: the
\* blocks are only marked while a save is on its way.
Listed == DirAccountsForBlocks /\ (reply.op = "dir" => sv.file = NULL)

LEMMA ListedNext ==
  ASSUME IInv, NamesUnique, NoBlockLeaked, Listed, [Next]_vars
  PROVE  Listed'
<1>1. ASSUME reply'.op # "dir" PROVE Listed'
  BY <1>1 DEF Listed, DirAccountsForBlocks
<1>2. ASSUME UNCHANGED <<used, sv, reply>> PROVE Listed'
  BY <1>2 DEF Listed, DirAccountsForBlocks
<1>3. ASSUME NEW op \in {"save", "load", "delete", "rename"}, NEW n \in Names, Refuse(op, n)
      PROVE  Listed'
  <2>1. op # "dir" /\ reply'.op = op
    BY <1>3 DEF Refuse, Reply
  <2> QED BY <1>1, <2>1
<1>4. ASSUME NEW b \in Blocks, SaveBlock(b) \/ SaveCluster(b) \/ SaveReadError(b)
      PROVE  Listed'
  <2>1. sv.file # NULL /\ reply' = reply
    BY <1>4 DEF SaveBlock, SaveCluster, SaveReadError, Looping, Saving
  <2> QED BY <1>1, <2>1 DEF Listed
<1>5. CASE SaveStep
  <2>1. ASSUME NEW result, SaveReturns(result) PROVE Listed'
    <3>1. reply'.op = "save"
      BY <2>1 DEF SaveReturns, Reply
    <3> QED BY <1>1, <3>1
  <2>2. CASE SaveInsertAborts
    BY <1>2, <2>2 DEF SaveInsertAborts, Halt
  <2> QED BY <1>4, <1>5, <2>1, <2>2
      DEF SaveStep, SaveCommit, SaveRollback, SaveRollbackFails, SaveAbandoned
<1>6. CASE Lookup
  <2>1. CASE Dir
    <3>1. /\ Clean /\ status = "running" /\ sv.file = NULL
          /\ sv' = sv /\ used' = used /\ reply'.rows = Rows
      BY <2>1 DEF Dir, Ready, Between, Reply, Rows
    <3>2. Cardinality(used) = SumFunction([row \in Rows |-> row.blocks])
      BY <3>1, RowsCounted
    <3> QED BY <3>1, <3>2 DEF Listed, DirAccountsForBlocks
  <2>2. CASE DirAborts
    BY <1>2, <2>2 DEF DirAborts, Halt
  <2>3. ASSUME NEW n \in Names, LoadMissing(n) \/ LoadFailed(n) PROVE Listed'
    BY <1>3, <2>3 DEF LoadMissing, LoadFailed
  <2>4. ASSUME NEW n \in Names, NEW f \in FileIds, Load(n, f) PROVE Listed'
    <3>1. reply'.op = "load" \/ Halt("aborted")
      BY <2>4 DEF Load, Reply
    <3>2. Halt("aborted") => UNCHANGED <<used, sv, reply>>
      BY DEF Halt
    <3> QED BY <1>1, <1>2, <3>1, <3>2
  <2> QED BY <1>6, <2>1, <2>2, <2>3, <2>4 DEF Lookup
<1>7. CASE Alter
  <2>1. ASSUME NEW n \in Names,
               SaveUnopened(n) \/ SaveDuplicate(n) \/ DeleteMissing(n) \/ DeleteUnread(n)
        PROVE  Listed'
    BY <1>3, <2>1 DEF SaveUnopened, SaveDuplicate, DeleteMissing, DeleteUnread
  <2>2. ASSUME NEW n \in Names, NEW f \in FileIds, Delete(n, f) PROVE Listed'
    <3>1. reply'.op = "delete" \/ UNCHANGED <<used, sv, reply>>
      BY <2>2 DEF Delete, Reply, Halt
    <3> QED BY <1>1, <1>2, <3>1
  <2>3. ASSUME NEW n \in Names, NEW d \in DiskFiles, NEW f \in FileIds, SaveOpen(n, d, f)
        PROVE  Listed'
    <3>1. reply'.op = "none"
      BY <2>3 DEF SaveOpen, NoReply, Reply
    <3> QED BY <1>1, <3>1
  <2>4. ASSUME NEW old \in Names, NEW new \in Names,
               RenameRefused(old, new) \/ RenameUnread(old, new)
        PROVE  Listed'
    BY <1>3, <2>4 DEF RenameRefused, RenameUnread
  <2>5. ASSUME NEW old \in Names, NEW new \in Names, RenameAborts(old, new) PROVE Listed'
    BY <1>2, <2>5 DEF RenameAborts, Halt
  <2>6. ASSUME NEW old \in Names, NEW new \in Names, NEW f \in FileIds,
               Rename(old, new, f) \/ RenameLosesFile(old, new, f)
        PROVE  Listed'
    <3>1. reply'.op = "rename"
      BY <2>6 DEF Rename, RenameLosesFile, Reply
    <3> QED BY <1>1, <3>1
  <2> QED BY <1>7, <2>1, <2>2, <2>3, <2>4, <2>5, <2>6 DEF Alter
<1>8. CASE Destroy
  <2>1. reply'.op = "destroy"
    BY <1>8 DEF Destroy, Reply
  <2> QED BY <1>1, <2>1
<1>9. CASE TouchDangling \/ Halted \/ UNCHANGED vars
  BY <1>2, <1>9 DEF TouchDangling, Halted, Halt, vars
<1> QED BY <1>5, <1>6, <1>7, <1>8, <1>9 DEF Next

\* As long as no malloc fails, the blocks of the files that dir lists are all the
\* blocks that are marked, however many saves were rolled back and files deleted
\* before: imffs_dir counts none twice and misses none (imffs_dir_both,
\* lines 657 to 706).
THEOREM DirIsExact == Spec => [](MallocMayFail \/ DirAccountsForBlocks)
<1>1. Init => IInv
  BY IInvInit, BlockCountAssumption
<1>2. IInv /\ [Next]_vars => IInv'
  BY IInvNext
<1>3. Init => Listed
  BY DEF Init, Listed, DirAccountsForBlocks, NoReply, Reply
<1>4. /\ IInv /\ NamesUnique /\ (MallocMayFail \/ NoBlockLeaked) /\ ~MallocMayFail
      /\ Listed /\ [Next]_vars
      => Listed'
  BY ListedNext
<1>5. Listed => DirAccountsForBlocks
  BY DEF Listed
<1>6. CASE MallocMayFail
  BY <1>6, PTL
<1>7. CASE ~MallocMayFail
  BY <1>1, <1>2, <1>3, <1>4, <1>5, <1>7, NamesStayUnique, NothingLeaks, PTL DEF Spec
<1> QED BY <1>6, <1>7

-----------------------------------------------------------------------------
(* What the store holds *)

LEMMA FewerFilled ==
  ASSUME NEW n \in Nat, NEW B \in Nat \ {0}
  PROVE  /\ n \div B + 1 \in Nat
         /\ (n + B - 1) \div B \in Nat
         /\ (n + B - 1) \div B <= n \div B + 1
OBVIOUS

LEMMA OutputComplete ==
  ASSUME NEW f, NEW d \in DiskFiles, Complete(BlocksOf(f), heap[f].byte_len, d)
  PROVE  Output(f) = DiskContent(d)
<1> DEFINE blocks == BlocksOf(f)
           filled == BlocksWithBytes(Size[d])
<1>1. Size[d] \in Nat /\ BytesPerBlock \in Nat \ {0}
  BY SizeAssumption, BytesPerBlockAssumption DEF SizeAssumption, BytesPerBlockAssumption
<1>2. heap[f].byte_len = Size[d] /\ Len(blocks) = BlocksFor(Size[d])
      /\ \A i \in 1 .. Len(blocks) : i <= filled => data[blocks[i]] = <<d, i - 1>>
  BY DEF Complete, Holding
<1>3. Len(blocks) \in Nat /\ filled \in Nat /\ filled <= Len(blocks)
  BY <1>1, <1>2, FewerFilled DEF BlocksFor, BlocksWithBytes
<1> HIDE DEF blocks, filled
<1>4. Lesser(Len(blocks), filled) = filled
  BY <1>3 DEF Lesser
<1>5. \A i \in 1 .. filled : data[blocks[i]] = <<d, i - 1>>
  BY <1>2, <1>3
<1>6. Output(f) = [bytes |-> Size[d], chunks |-> [i \in 1 .. filled |-> data[blocks[i]]]]
  BY <1>2, <1>4 DEF Output, blocks, filled
<1>7. [i \in 1 .. filled |-> data[blocks[i]]] = [i \in 1 .. filled |-> <<d, i - 1>>]
  BY <1>5
<1> QED BY <1>6, <1>7 DEF DiskContent, filled

\* The store has the content of the one file that goes by a key.
StoreValues ==
  \A k \in StoreKeys :
    /\ FilesAt(k) = {} => Store[k] = NULL
    /\ \A f \in FilesAt(k) :
         Store[k] = Output(f) /\ Store[k] \in Contents /\ Store[k] # NULL

LEMMA StoreReads == CInv /\ ContentOK /\ NamesUnique => StoreValues
<1> SUFFICES ASSUME CInv, ContentOK, NamesUnique PROVE StoreValues
  OBVIOUS
<1>1. \A k \in StoreKeys : Store[k] = ContentAt(k)
  BY DEF Store
<1>2. ASSUME NEW k \in StoreKeys, NEW f \in FilesAt(k)
      PROVE  ContentAt(k) = Output(f) /\ Output(f) \in Contents
  <2>1. \A g \in FilesAt(k) : g = f
    BY DEF FilesAt, NamesUnique, Live
  <2>2. ContentAt(k) = Output(f)
    <3>1. FilesAt(k) # {}
      OBVIOUS
    <3>2. (CHOOSE g \in FilesAt(k) : TRUE) \in FilesAt(k)
      OBVIOUS
    <3> QED BY <2>1, <3>1, <3>2 DEF ContentAt
  <2>3. PICK d \in DiskFiles : Complete(BlocksOf(f), heap[f].byte_len, d)
    BY DEF FilesAt, ContentOK, StoredOK
  <2>4. Output(f) = DiskContent(d)
    BY <2>3, OutputComplete
  <2> QED BY <2>2, <2>4 DEF Contents
<1>3. \A k \in StoreKeys : FilesAt(k) = {} => ContentAt(k) = NULL
  BY DEF ContentAt
<1> QED BY <1>1, <1>2, <1>3, NoFileAssumption DEF StoreValues, NoFileAssumption

LEMMA StoreReadsNext == (CInv /\ ContentOK /\ NamesUnique)' => StoreValues'
BY StoreReads, PTL

LEMMA OutputKept ==
  ASSUME CInv, NEW f \in FileIds, Unaffected(f)
  PROVE  Output(f)' = Output(f)
<1> DEFINE blocks == BlocksOf(f)
           count == Lesser(Len(blocks), BlocksWithBytes(heap[f].byte_len))
<1>1. blocks' = blocks /\ heap'[f].byte_len = heap[f].byte_len
  BY BlocksKept DEF Unaffected
<1>2. Len(blocks) \in Nat /\ \A i \in 1 .. Len(blocks) : blocks[i] \in Owned(f)
  BY BlocksType
<1>3. heap[f].byte_len \in Nat /\ BytesPerBlock \in Nat \ {0}
  BY BytesPerBlockAssumption
  DEF Unaffected, CInv, LocalOK, TypeOK, FileRecord, BytesPerBlockAssumption
<1>4. BlocksWithBytes(heap[f].byte_len) \in Nat
  BY <1>3, FewerFilled DEF BlocksWithBytes
<1>5. count \in Nat /\ count <= Len(blocks)
  <2> HIDE DEF blocks
  <2> QED BY <1>2, <1>4 DEF Lesser
<1>6. count' = count
  BY <1>1
<1> HIDE DEF blocks, count
<1>7. \A i \in 1 .. count : data'[blocks[i]] = data[blocks[i]]
  BY <1>2, <1>5 DEF Unaffected
<1>8. Output(f) = [bytes |-> heap[f].byte_len, chunks |-> [i \in 1 .. count |-> data[blocks[i]]]]
  BY DEF Output, blocks, count
<1>9. Output(f)' = [bytes |-> heap'[f].byte_len,
                    chunks |-> [i \in 1 .. count' |-> data'[blocks'[i]]]]
  BY DEF Output, blocks, count
<1>10. [i \in 1 .. count |-> data'[blocks[i]]] = [i \in 1 .. count |-> data[blocks[i]]]
  BY <1>7
<1> QED BY <1>1, <1>6, <1>8, <1>9, <1>10

\* A key keeps its value when its file stays and is not affected.
LEMMA KeyKept ==
  ASSUME CInv, StoreValues, StoreValues', NEW k \in StoreKeys,
         \A f \in FileIds : f \in FilesAt(k)' <=> f \in FilesAt(k),
         \A f \in FilesAt(k) : Unaffected(f)
  PROVE  Store'[k] = Store[k]
<1>1. FilesAt(k) \subseteq FileIds /\ FilesAt(k)' \subseteq FileIds
  BY DEF FilesAt, Keyed
<1>2. CASE FilesAt(k) = {}
  <2>1. FilesAt(k)' = {}
    BY <1>1, <1>2
  <2> QED BY <1>2, <2>1 DEF StoreValues
<1>3. CASE FilesAt(k) # {}
  <2>1. PICK f \in FilesAt(k) : TRUE
    BY <1>3
  <2>2. f \in FileIds /\ f \in FilesAt(k)'
    BY <1>1
  <2>3. Store[k] = Output(f) /\ Store'[k] = Output(f)'
    BY <2>2 DEF StoreValues
  <2> QED BY <2>2, <2>3, OutputKept
<1> QED BY <1>2, <1>3

-----------------------------------------------------------------------------
(* Every step of imffs is a step of the store, or changes nothing of it *)

IsStored(f) == f \in Keyed \ {sv.file} /\ heap[f] # NULL

Untouched(f) ==
  /\ IsStored(f)' <=> IsStored(f)
  /\ IsStored(f) => Unaffected(f) /\ heap'[f].name = heap[f].name

LEMMA StoredAt ==
  \A k : FilesAt(k) = {f \in FileIds : IsStored(f) /\ Rank[heap[f].name] = k}
BY DEF FilesAt, IsStored, Keyed

LEMMA StoredAtNext ==
  \A k : FilesAt(k)' = {f \in FileIds : IsStored(f)' /\ Rank[heap'[f].name] = k}
BY DEF FilesAt, IsStored, Keyed

LEMMA OtherKeysKept ==
  ASSUME CInv, StoreValues, StoreValues', NEW k \in StoreKeys, NEW T \in SUBSET FileIds,
         T \cap FilesAt(k) = {}, T \cap FilesAt(k)' = {},
         \A g \in FileIds \ T : Untouched(g)
  PROVE  Store'[k] = Store[k]
<1>1. \A f \in FileIds : f \in FilesAt(k)' <=> f \in FilesAt(k)
  BY StoredAt, StoredAtNext DEF Untouched
<1>2. \A f \in FilesAt(k) : Unaffected(f)
  BY StoredAt DEF Untouched
<1> QED BY <1>1, <1>2, KeyKept

LEMMA StoreKept ==
  ASSUME CInv, StoreValues, StoreValues', \A f \in FileIds : Untouched(f)
  PROVE  Store' = Store
<1>1. ASSUME NEW k \in StoreKeys PROVE Store'[k] = Store[k]
  <2>1. /\ {} \in SUBSET FileIds
        /\ {} \cap FilesAt(k) = {} /\ {} \cap FilesAt(k)' = {}
        /\ \A g \in FileIds \ {} : Untouched(g)
    OBVIOUS
  <2> QED BY <2>1, OtherKeysKept
<1> QED BY <1>1 DEF Store

LEMMA StoreAltered ==
  ASSUME NEW k \in StoreKeys, \A i \in StoreKeys \ {k} : Store'[i] = Store[i]
  PROVE  Store' = [Store EXCEPT ![k] = Store'[k]]
BY DEF Store

LEMMA Answered ==
  ASSUME NEW op, NEW n, NEW result, reply' = Reply(op, n, result)
  PROVE  Answer' = FS!Reply(op, Key(n), result, FS!NoOutput)
BY DEF Answer, Reply, FS!Reply, NoOutput, FS!NoOutput

LEMMA NamesHaveKeys ==
  ASSUME NEW n \in Names
  PROVE  Key(n) = Rank[n] /\ Key(n) \in StoreKeys
BY NullAssumption DEF Key, StoreKeys, NullAssumption

LEMMA NullKey == Key(NULL) = NULL
BY DEF Key

StoreStep == FS!LossyNext \/ UNCHANGED FS!vars

LEMMA StepUnseen ==
  ASSUME CInv, StoreValues, StoreValues', \A f \in FileIds : Untouched(f), reply' = reply
  PROVE  StoreStep
<1>1. Store' = Store
  BY StoreKept
<1>2. Answer' = Answer
  BY DEF Answer
<1> QED BY <1>1, <1>2 DEF StoreStep, FS!vars

LEMMA StepRefused ==
  ASSUME CInv, StoreValues, StoreValues', \A f \in FileIds : Untouched(f),
         NEW op \in {"save", "load", "delete", "rename"}, NEW n \in Names,
         reply' = Reply(op, n, "ERROR")
  PROVE  StoreStep
<1>1. Store' = Store
  BY StoreKept
<1>2. FS!Refuse(op, Key(n))
  BY <1>1, Answered DEF FS!Refuse
<1> QED BY <1>2, NamesHaveKeys DEF StoreStep, FS!LossyNext, FS!Next

LEMMA DeviceKept ==
  ASSUME UNCHANGED <<data, index, heap, sv>>
  PROVE  \A f \in FileIds : Untouched(f)
BY DEF Untouched, IsStored, Unaffected, Keyed

LEMMA FilledUntouched ==
  ASSUME CInv, NEW b \in Blocks, SaveBlock(b) \/ SaveCluster(b) \/ SaveReadError(b)
  PROVE  \A f \in FileIds : Untouched(f)
<1>1. /\ sv.file \in FileIds /\ NextFree(b)
      /\ sv'.file = sv.file
      /\ \A f \in FileIds \ {sv.file} : heap'[f] = heap[f]
      /\ \A c \in Blocks \ {b} : data'[c] = data[c]
  BY DEF SaveBlock, SaveCluster, SaveReadError, StoreChunk, Looping, Saving, CInv, LocalOK, TypeOK
<1>2. \A f \in FileIds \ {sv.file} : index'[f] = index[f]
  BY <1>1 DEF SaveBlock, SaveCluster, SaveReadError, Inserted, CInv, LocalOK, TypeOK
<1>3. \A f \in FileIds : \A c \in Owned(f) : data'[c] = data[c]
  BY <1>1, FreeBlockStored, SaveProtected, NullAssumption
<1> QED BY <1>1, <1>2, <1>3 DEF Untouched, IsStored, Unaffected, Keyed

LEMMA StepSaveOpen ==
  ASSUME CInv, StoreValues, StoreValues',
         NEW n \in Names, NEW d \in DiskFiles, NEW f \in FileIds, SaveOpen(n, d, f)
  PROVE  StoreStep
<1>1. /\ sv.file = NULL /\ index' = index /\ data' = data /\ index[f] = <<>>
      /\ heap' = [heap EXCEPT ![f] = [name |-> n, byte_len |-> 0]]
      /\ sv'.file = f /\ reply' = NoReply
  BY DEF SaveOpen, Ready, Between, Clean, Keyed, Idle
<1>2. \A g \in FileIds \ {f} : heap'[g] = heap[g] /\ g # sv.file
  BY <1>1, NullAssumption DEF CInv, LocalOK, TypeOK, NullAssumption
<1>3. \A g \in FileIds : Untouched(g)
  BY <1>1, <1>2 DEF Untouched, IsStored, Unaffected, Keyed
<1>4. Store' = Store
  BY <1>3, StoreKept
<1>5. Answer' = FS!NoReply
  BY <1>1, Answered, NullKey DEF NoReply, FS!NoReply
<1> QED BY <1>4, <1>5 DEF StoreStep, FS!LossyNext, FS!Next, FS!Accept

\* No stored file goes by the name of the one that is being saved.
LEMMA KeyIsNew ==
  ASSUME CInv, NamesUnique, StoreValues, sv.file # NULL
  PROVE  LET k == Rank[heap[sv.file].name] IN
         /\ heap[sv.file].name \in Names /\ k \in StoreKeys
         /\ FilesAt(k) = {} /\ Store[k] = NULL
<1> DEFINE k == Rank[heap[sv.file].name]
<1>1. sv.file \in FileIds /\ heap[sv.file] # NULL /\ heap[sv.file].name \in Names
  BY DEF CInv, LocalOK, TypeOK, FileRecord
<1>2. k \in StoreKeys
  BY <1>1 DEF StoreKeys
<1>3. FilesAt(k) = {}
  BY <1>1 DEF FilesAt, NamesUnique, Live
<1> HIDE DEF k
<1>4. Store[k] = NULL
  BY <1>2, <1>3 DEF StoreValues
<1> QED BY <1>1, <1>2, <1>3, <1>4 DEF k

LEMMA StepSaveCommit ==
  ASSUME CInv, NamesUnique, StoreValues, StoreValues', SaveCommit
  PROVE  StoreStep
<1>1. /\ sv.file \in FileIds /\ sv.file # NULL
      /\ index' = Inserted(sv.file, Ended) /\ heap' = heap /\ data' = data
      /\ sv'.file = NULL
      /\ reply' = Reply("save", heap[sv.file].name, "OK")
  BY DEF SaveCommit, LoopOver, Saving, SaveReturns, Idle, CInv, LocalOK, TypeOK
<1>2. PICK f \in FileIds : f = sv.file
  BY <1>1
<1>3. heap[f].name \in Names /\ Rank[heap[f].name] \in StoreKeys
  BY <1>1, <1>2, KeyIsNew
<1>4. PICK k \in StoreKeys : k = Rank[heap[f].name]
  BY <1>3
<1>5. FilesAt(k) = {} /\ Store[k] = NULL
  BY <1>1, <1>2, <1>4, KeyIsNew
<1>6. f \in Keyed' /\ \A g \in FileIds \ {f} : index'[g] = index[g]
  <2>1. Keyed' = Keyed \cup {sv.file}
    BY <1>1, InsertedKey DEF CInv
  <2>2. \A g \in FileIds \ {f} : index'[g] = index[g]
    BY <1>1, <1>2 DEF Inserted, CInv, LocalOK, TypeOK
  <2> QED BY <1>2, <2>1, <2>2
<1>7. \A g \in FileIds \ {f} : Untouched(g)
  <2>1. NULL \notin FileIds
    BY NullAssumption DEF NullAssumption
  <2> QED BY <1>1, <1>2, <1>6, <2>1 DEF Untouched, IsStored, Unaffected, Keyed
<1>8. IsStored(f)' /\ Rank[heap'[f].name] = k
  <2>1. heap[f] # NULL /\ f # NULL
    BY <1>1, <1>2 DEF CInv, LocalOK, TypeOK
  <2> QED BY <1>1, <1>6, <1>4, <2>1 DEF IsStored
<1>9. Store'[k] \in Contents
  <2>1. f \in FilesAt(k)'
    BY <1>8, StoredAtNext
  <2> QED BY <1>5, <2>1 DEF StoreValues
<1>10. ASSUME NEW i \in StoreKeys \ {k} PROVE Store'[i] = Store[i]
  <2>1. f \notin FilesAt(i)' /\ f \notin FilesAt(i)
    BY <1>2, <1>8, StoredAt, StoredAtNext DEF IsStored
  <2>2. /\ i \in StoreKeys /\ {f} \in SUBSET FileIds
        /\ {f} \cap FilesAt(i) = {} /\ {f} \cap FilesAt(i)' = {}
    BY <2>1
  <2> QED BY <1>7, <2>2, OtherKeysKept
<1>11. Store' = [Store EXCEPT ![k] = Store'[k]]
  BY <1>10, StoreAltered
<1>12. Answer' = FS!Reply("save", k, "OK", FS!NoOutput)
  <2>1. reply' = Reply("save", heap[f].name, "OK") /\ Key(heap[f].name) = k
    BY <1>1, <1>2, <1>3, <1>4, NamesHaveKeys
  <2> QED BY <2>1, Answered
<1>13. FS!Save(k)
  BY <1>5, <1>9, <1>11, <1>12 DEF FS!Save, FS!Stored
<1> QED BY <1>13 DEF StoreStep, FS!LossyNext, FS!Next

LEMMA StepSaveGivenUp ==
  ASSUME CInv, NamesUnique, StoreValues, StoreValues',
         SaveRollback \/ SaveRollbackFails \/ SaveAbandoned
  PROVE  StoreStep
<1>1. /\ sv.file \in FileIds /\ sv.file # NULL /\ sv'.file = NULL /\ data' = data
      /\ heap' = [heap EXCEPT ![sv.file] = NULL]
      /\ \A g \in FileIds \ {sv.file} : index'[g] = index[g]
      /\ \E result \in {"OK", "ERROR"} : reply' = Reply("save", heap[sv.file].name, result)
  BY DEF SaveRollback, SaveRollbackFails, SaveAbandoned, LoopOver, Saving,
         SaveReturns, Idle, Inserted, CInv, LocalOK, TypeOK
<1>2. PICK f \in FileIds : f = sv.file
  BY <1>1
<1> DEFINE n == heap[f].name
           k == Rank[heap[f].name]
<1>3. n \in Names /\ k \in StoreKeys /\ Store[k] = NULL
  BY <1>1, <1>2, KeyIsNew
<1>4. \A g \in FileIds : Untouched(g)
  <2>1. heap'[f] = NULL /\ NULL \notin FileIds /\ \A g \in FileIds \ {f} : heap'[g] = heap[g]
    BY <1>1, <1>2, NullAssumption DEF CInv, LocalOK, TypeOK, NullAssumption
  <2> QED BY <1>1, <1>2, <2>1 DEF Untouched, IsStored, Unaffected, Keyed
<1>5. Store' = Store
  BY <1>4, StoreKept
<1>6. Key(n) = k
  BY <1>3, NamesHaveKeys
<1>7. \E result \in {"OK", "ERROR"} : reply' = Reply("save", n, result)
  BY <1>1, <1>2
<1> HIDE DEF n, k
<1>8. CASE reply' = Reply("save", n, "ERROR")
  BY <1>3, <1>4, <1>8, StepRefused
<1>9. CASE reply' = Reply("save", n, "OK")
  <2>1. Answer' = FS!Reply("save", k, "OK", FS!NoOutput)
    BY <1>6, <1>9, Answered
  <2>2. FS!SaveRolledBack(k)
    BY <1>3, <1>5, <2>1 DEF FS!SaveRolledBack, FS!Stored
  <2> QED BY <1>3, <2>2 DEF StoreStep, FS!LossyNext, FS!Next
<1> QED BY <1>7, <1>8, <1>9

LEMMA StepLoad ==
  ASSUME CInv, StoreValues, StoreValues', NEW n \in Names, NEW f \in FileIds, Load(n, f),
         LengthCovered(f)
  PROVE  StoreStep
<1>1. /\ sv.file = NULL /\ UNCHANGED <<data, index, heap, sv>>
      /\ f \in Keyed /\ heap[f] # NULL /\ Rank[heap[f].name] = Rank[n]
      /\ reply' = [Reply("load", n, "OK") EXCEPT !.out = Output(f)]
  BY DEF Load, Found, Ready, Between
<1>2. Store' = Store
  BY <1>1, DeviceKept, StoreKept
<1> DEFINE k == Key(n)
<1>3. k \in StoreKeys /\ k = Rank[n]
  BY NamesHaveKeys
<1>4. f \in FilesAt(k)
  <2>1. f # NULL
    BY NullAssumption DEF NullAssumption
  <2> QED BY <1>1, <1>3, <2>1 DEF FilesAt
<1>5. Store[k] = Output(f) /\ Store[k] # NULL
  BY <1>3, <1>4 DEF StoreValues
<1>6. Answer' = FS!Reply("load", k, "OK", Store[k])
  <2>1. /\ reply'.op = "load" /\ reply'.name = n /\ reply'.result = "OK"
        /\ reply'.out = Output(f) /\ reply'.rows = {}
    BY <1>1 DEF Reply
  <2>2. Answer' = [op |-> "load", key |-> k, result |-> "OK", out |-> Output(f), rows |-> {}]
    BY <2>1 DEF Answer, Key
  <2> QED BY <1>5, <2>2 DEF FS!Reply
<1> HIDE DEF k
<1>7. FS!Load(k)
  BY <1>2, <1>3, <1>5, <1>6 DEF FS!Load, FS!Stored
<1> QED BY <1>3, <1>7 DEF StoreStep, FS!LossyNext, FS!Next

LEMMA StepDir ==
  ASSUME CInv, StoreValues, StoreValues', Dir
  PROVE  StoreStep
<1>1. /\ sv.file = NULL /\ UNCHANGED <<data, index, heap, sv>> /\ Clean
      /\ reply' = [Reply("dir", NULL, "OK") EXCEPT !.rows = {Row(f) : f \in Keyed}]
  BY DEF Dir, Ready, Between
<1>2. Store' = Store
  BY <1>1, DeviceKept, StoreKept
<1> DEFINE listed == {<<Key(row.name), row.bytes>> : row \in {Row(f) : f \in Keyed}}
           held == {<<k, Store[k].bytes>> : k \in FS!Stored}
<1>3. ASSUME NEW f \in Keyed
      PROVE  \E k \in FS!Stored : Key(Row(f).name) = k /\ Row(f).bytes = Store[k].bytes
  <2>1. /\ f \in FileIds /\ heap[f] # NULL /\ f # sv.file /\ heap[f].name \in Names
    BY <1>1, NullAssumption DEF Clean, Keyed, CInv, LocalOK, TypeOK, FileRecord, NullAssumption
  <2>2. PICK k \in StoreKeys : k = Key(heap[f].name) /\ k = Rank[heap[f].name]
    BY <2>1, NamesHaveKeys
  <2>3. f \in FilesAt(k)
    BY <2>1, <2>2 DEF FilesAt
  <2>4. Store[k] = Output(f) /\ Store[k] # NULL
    BY <2>3 DEF StoreValues
  <2>5. k \in FS!Stored /\ Store[k].bytes = heap[f].byte_len
    BY <2>4 DEF FS!Stored, Output
  <2> QED BY <2>2, <2>5 DEF Row
<1>4. ASSUME NEW k \in FS!Stored
      PROVE  \E f \in Keyed : Key(Row(f).name) = k /\ Row(f).bytes = Store[k].bytes
  <2>1. k \in StoreKeys /\ Store[k] # NULL
    BY DEF FS!Stored
  <2>2. PICK f \in FilesAt(k) : Store[k] = Output(f)
    BY <2>1 DEF StoreValues
  <2>3. f \in Keyed /\ heap[f] # NULL /\ Rank[heap[f].name] = k /\ heap[f].name \in Names
    BY DEF FilesAt, Keyed, CInv, LocalOK, TypeOK, FileRecord
  <2>4. Key(heap[f].name) = k /\ heap[f].byte_len = Store[k].bytes
    BY <2>2, <2>3, NamesHaveKeys DEF Output
  <2> QED BY <2>3, <2>4 DEF Row
<1>5. listed = held
  <2>1. listed \subseteq held
    BY <1>3
  <2>2. held \subseteq listed
    BY <1>4
  <2> QED BY <2>1, <2>2
<1>6. Answer' = [op |-> "dir", key |-> NULL, result |-> "OK", out |-> FS!NoOutput,
                 rows |-> listed]
  <2>1. /\ reply'.op = "dir" /\ reply'.name = NULL /\ reply'.result = "OK"
        /\ reply'.out = FS!NoOutput /\ reply'.rows = {Row(f) : f \in Keyed}
    BY <1>1 DEF Reply, NoOutput, FS!NoOutput
  <2> QED BY <2>1 DEF Answer, Key
<1> HIDE DEF listed
<1>7. FS!List
  <2>1. Answer' = [FS!Reply("dir", NULL, "OK", FS!NoOutput) EXCEPT !.rows = listed]
    BY <1>6 DEF FS!Reply
  <2> QED BY <1>2, <1>5, <2>1 DEF FS!List
<1> QED BY <1>7 DEF StoreStep, FS!LossyNext, FS!Next

\* The file of a key is taken from it, and no other file is touched.
LEMMA KeyCleared ==
  ASSUME CInv, StoreValues, StoreValues', NEW k \in StoreKeys, NEW f \in FilesAt(k),
         NamesUnique, ~IsStored(f)', \A g \in FileIds \ {f} : Untouched(g)
  PROVE  Store' = [Store EXCEPT ![k] = NULL] /\ k \in FS!Stored
<1>1. f \in FileIds /\ \A g \in FilesAt(k) : g = f
  BY DEF FilesAt, NamesUnique, Live, Keyed
<1>2. FilesAt(k)' = {}
  BY <1>1, StoredAt, StoredAtNext DEF Untouched
<1>3. Store'[k] = NULL
  BY <1>2 DEF StoreValues
<1>4. ASSUME NEW i \in StoreKeys \ {k} PROVE Store'[i] = Store[i]
  <2>1. f \notin FilesAt(i)' /\ f \notin FilesAt(i)
    BY StoredAt, StoredAtNext
  <2>2. /\ i \in StoreKeys /\ {f} \in SUBSET FileIds
        /\ {f} \cap FilesAt(i) = {} /\ {f} \cap FilesAt(i)' = {}
    BY <1>1, <2>1
  <2> QED BY <2>2, OtherKeysKept
<1>5. k \in FS!Stored
  BY DEF StoreValues, FS!Stored
<1> QED BY <1>3, <1>4, <1>5, StoreAltered

LEMMA FoundAt ==
  ASSUME Ready, NEW n \in Names
  PROVE  /\ Key(n) \in StoreKeys /\ Key(n) = Rank[n]
         /\ FilesAt(Key(n)) = Found(n)
<1>1. sv.file = NULL /\ NULL \notin FileIds
  BY NullAssumption DEF Ready, Between, NullAssumption
<1> QED BY <1>1, NamesHaveKeys DEF FilesAt, Found, Keyed

LEMMA StepDelete ==
  ASSUME CInv, NamesUnique, StoreValues, StoreValues',
         NEW n \in Names, NEW f \in FileIds, Delete(n, f), Restorable(f)
  PROVE  StoreStep
<1>1. /\ sv.file = NULL /\ sv' = sv /\ data' = data /\ Ready /\ f \in Found(n)
      /\ index' = [index EXCEPT ![f] = <<>>]
      /\ heap' = [heap EXCEPT ![f] = NULL]
      /\ reply' = Reply("delete", n, "OK")
  BY DEF Delete, Ready, Between
<1> DEFINE k == Key(n)
<1>2. k \in StoreKeys /\ f \in FilesAt(k)
  BY <1>1, FoundAt
<1>3. heap'[f] = NULL /\ \A g \in FileIds \ {f} : heap'[g] = heap[g] /\ index'[g] = index[g]
  BY <1>1 DEF CInv, LocalOK, TypeOK
<1>4. ~IsStored(f)' /\ \A g \in FileIds \ {f} : Untouched(g)
  BY <1>1, <1>3 DEF Untouched, IsStored, Unaffected, Keyed
<1>5. Store' = [Store EXCEPT ![k] = NULL] /\ k \in FS!Stored
  BY <1>2, <1>4, KeyCleared
<1>6. Answer' = FS!Reply("delete", k, "OK", FS!NoOutput)
  BY <1>1, Answered
<1> HIDE DEF k
<1>7. FS!Delete(k)
  BY <1>5, <1>6 DEF FS!Delete
<1> QED BY <1>2, <1>7 DEF StoreStep, FS!LossyNext, FS!Next

LEMMA StepRenameLosesFile ==
  ASSUME CInv, NamesUnique, StoreValues, StoreValues',
         NEW old \in Names, NEW new \in Names, NEW f \in FileIds,
         RenameLosesFile(old, new, f)
  PROVE  StoreStep
<1>1. /\ sv.file = NULL /\ sv' = sv /\ data' = data /\ heap' = heap
      /\ Ready /\ MallocMayFail /\ f \in Found(old) /\ Found(new) = {}
      /\ index' = [index EXCEPT ![f] = <<>>]
      /\ reply' = Reply("rename", new, "OK")
  BY DEF RenameLosesFile, Ready, Between
<1> DEFINE k1 == Key(old)
           k2 == Key(new)
<1>2. k1 \in StoreKeys /\ f \in FilesAt(k1) /\ k2 \in StoreKeys /\ FilesAt(k2) = {}
  BY <1>1, FoundAt
<1>3. index'[f] = <<>> /\ \A g \in FileIds \ {f} : index'[g] = index[g]
  BY <1>1 DEF CInv, LocalOK, TypeOK
<1>4. ~IsStored(f)' /\ \A g \in FileIds \ {f} : Untouched(g)
  BY <1>1, <1>3 DEF Untouched, IsStored, Unaffected, Keyed
<1>5. Store' = [Store EXCEPT ![k1] = NULL] /\ k1 \in FS!Stored
  BY <1>2, <1>4, KeyCleared
<1>6. k2 \notin FS!Stored
  BY <1>2 DEF StoreValues, FS!Stored
<1>7. Answer' = FS!Reply("rename", k2, "OK", FS!NoOutput)
  BY <1>1, Answered
<1> HIDE DEF k1, k2
<1>8. FS!RenameLosesFile(k1, k2)
  BY <1>1, <1>5, <1>6, <1>7 DEF FS!RenameLosesFile
<1> QED BY <1>2, <1>8 DEF StoreStep, FS!LossyNext

LEMMA StepRename ==
  ASSUME CInv, NamesUnique, StoreValues, StoreValues',
         NEW old \in Names, NEW new \in Names, NEW f \in FileIds, Rename(old, new, f)
  PROVE  StoreStep
<1>1. /\ sv.file = NULL /\ sv' = sv /\ data' = data /\ index' = index
      /\ Ready /\ f \in Found(old) /\ Found(new) = {}
      /\ heap[f] # NULL /\ heap[f] \in FileRecord
      /\ heap' = [heap EXCEPT ![f] = [heap[f] EXCEPT !.name = new]]
      /\ reply' = Reply("rename", new, "OK")
  BY DEF Rename, Ready, Between, Found, CInv, LocalOK, TypeOK
<1> DEFINE k1 == Key(old)
           k2 == Key(new)
<1>2. /\ k1 \in StoreKeys /\ f \in FilesAt(k1)
      /\ k2 \in StoreKeys /\ FilesAt(k2) = {} /\ k2 = Rank[new]
  BY <1>1, FoundAt
<1>3. /\ heap'[f] # NULL /\ heap'[f].name = new /\ heap'[f].byte_len = heap[f].byte_len
      /\ \A g \in FileIds \ {f} : heap'[g] = heap[g]
  <2> DEFINE file == [heap[f] EXCEPT !.name = new]
  <2>1. file \in FileRecord /\ file.name = new /\ file.byte_len = heap[f].byte_len
    BY <1>1 DEF FileRecord
  <2>2. file # NULL
    BY <2>1, NullAssumption DEF NullAssumption
  <2> HIDE DEF file
  <2>3. heap' = [heap EXCEPT ![f] = file]
    BY <1>1 DEF file
  <2> QED BY <2>1, <2>2, <2>3 DEF CInv, LocalOK, TypeOK
<1>4. \A g \in FileIds \ {f} : Untouched(g)
  BY <1>1, <1>3 DEF Untouched, IsStored, Unaffected, Keyed
<1>5. IsStored(f)' /\ Unaffected(f)
  BY <1>1, <1>2, <1>3 DEF IsStored, FilesAt, Unaffected, Keyed
<1>6. f \in FilesAt(k2)' /\ k1 # k2
  BY <1>2, <1>3, <1>5, StoredAtNext
<1>7. Store[k1] = Output(f) /\ Store'[k2] = Store[k1]
  BY <1>2, <1>5, <1>6, OutputKept DEF StoreValues
<1>8. Store'[k1] = NULL
  <2>1. \A g \in FilesAt(k1) : g = f
    BY <1>2 DEF FilesAt, NamesUnique, Live
  <2>2. FilesAt(k1)' = {}
    <3>1. f \notin FilesAt(k1)'
      BY <1>2, <1>3, <1>6, StoredAtNext
    <3>2. \A g \in FileIds \ {f} : g \notin FilesAt(k1)'
      BY <1>4, <2>1, StoredAt, StoredAtNext DEF Untouched
    <3> QED BY <3>1, <3>2, StoredAtNext
  <2> QED BY <1>2, <2>2 DEF StoreValues
<1>9. ASSUME NEW i \in StoreKeys \ {k1, k2} PROVE Store'[i] = Store[i]
  <2>1. f \notin FilesAt(i)' /\ f \notin FilesAt(i)
    BY <1>2, <1>3, StoredAt, StoredAtNext
  <2>2. /\ i \in StoreKeys /\ {f} \in SUBSET FileIds
        /\ {f} \cap FilesAt(i) = {} /\ {f} \cap FilesAt(i)' = {}
    BY <2>1
  <2> QED BY <1>4, <2>2, OtherKeysKept
<1> HIDE DEF k1, k2
<1>10. Store' = [Store EXCEPT ![k2] = Store[k1], ![k1] = NULL]
  BY <1>2, <1>6, <1>7, <1>8, <1>9 DEF Store
<1>11. k1 \in FS!Stored /\ k2 \notin FS!Stored
  BY <1>2 DEF StoreValues, FS!Stored
<1>12. Answer' = FS!Reply("rename", k2, "OK", FS!NoOutput)
  BY <1>1, Answered DEF k2
<1>13. FS!Rename(k1, k2)
  BY <1>10, <1>11, <1>12 DEF FS!Rename
<1> QED BY <1>2, <1>13 DEF StoreStep, FS!LossyNext, FS!Next

LEMMA StepDestroy ==
  ASSUME StoreValues', Destroy
  PROVE  StoreStep
<1>1. /\ \A f \in FileIds : index'[f] = <<>>
      /\ reply' = Reply("destroy", NULL, "OK")
  BY DEF Destroy
<1>2. \A k \in StoreKeys : FilesAt(k)' = {}
  BY <1>1, StoredAtNext DEF IsStored, Keyed
<1>3. Store' = [k \in StoreKeys |-> NULL]
  BY <1>2 DEF StoreValues, Store
<1>4. Answer' = FS!Reply("destroy", NULL, "OK", FS!NoOutput)
  BY <1>1, Answered, NullKey
<1> QED BY <1>3, <1>4 DEF StoreStep, FS!LossyNext, FS!Next, FS!Destroy

LEMMA StoreSimulates ==
  ASSUME CInv, NamesUnique, StoreValues, StoreValues', [Next]_vars
  PROVE  StoreStep
<1>1. ASSUME UNCHANGED <<data, index, heap, sv, reply>> PROVE StoreStep
  BY <1>1, DeviceKept, StepUnseen
<1>2. ASSUME NEW op \in {"save", "load", "delete", "rename"}, NEW n \in Names, Refuse(op, n)
      PROVE  StoreStep
  <2>1. \A f \in FileIds : Untouched(f)
    BY <1>2, DeviceKept DEF Refuse
  <2> QED BY <1>2, <2>1, StepRefused DEF Refuse
<1>3. ASSUME NEW b \in Blocks, SaveBlock(b) \/ SaveCluster(b) \/ SaveReadError(b)
      PROVE  StoreStep
  <2>1. \A f \in FileIds : Untouched(f)
    BY <1>3, FilledUntouched
  <2>2. reply' = reply
    BY <1>3 DEF SaveBlock, SaveCluster, SaveReadError
  <2> QED BY <2>1, <2>2, StepUnseen
<1>4. CASE SaveStep
  <2>1. CASE SaveInsertAborts
    BY <1>1, <2>1 DEF SaveInsertAborts, Halt
  <2> QED BY <1>3, <1>4, <2>1, StepSaveCommit, StepSaveGivenUp DEF SaveStep
<1>5. CASE Lookup
  <2>1. ASSUME NEW n \in Names, LoadMissing(n) \/ LoadFailed(n) PROVE StoreStep
    BY <1>2, <2>1 DEF LoadMissing, LoadFailed
  <2>2. CASE DirAborts
    BY <1>1, <2>2 DEF DirAborts, Halt
  <2>3. ASSUME NEW n \in Names, NEW f \in FileIds, Load(n, f) PROVE StoreStep
    <3>1. CASE LengthCovered(f)
      BY <2>3, <3>1, StepLoad
    <3>2. CASE Halt("aborted")
      BY <1>1, <3>2 DEF Halt
    <3> QED BY <2>3, <3>1, <3>2 DEF Load
  <2> QED BY <1>5, <2>1, <2>2, <2>3, StepDir DEF Lookup
<1>6. CASE Alter
  <2>1. ASSUME NEW n \in Names,
               SaveUnopened(n) \/ SaveDuplicate(n) \/ DeleteMissing(n) \/ DeleteUnread(n)
        PROVE  StoreStep
    BY <1>2, <2>1 DEF SaveUnopened, SaveDuplicate, DeleteMissing, DeleteUnread
  <2>2. ASSUME NEW n \in Names, NEW f \in FileIds, Delete(n, f) PROVE StoreStep
    <3>1. CASE ~Restorable(f)
      BY <1>1, <2>2, <3>1 DEF Delete, Halt
    <3>2. CASE Restorable(f)
      BY <2>2, <3>2, StepDelete
    <3> QED BY <3>1, <3>2
  <2>3. ASSUME NEW old \in Names, NEW new \in Names,
               RenameRefused(old, new) \/ RenameUnread(old, new)
        PROVE  StoreStep
    BY <1>2, <2>3 DEF RenameRefused, RenameUnread
  <2>4. ASSUME NEW old \in Names, NEW new \in Names, RenameAborts(old, new) PROVE StoreStep
    BY <1>1, <2>4 DEF RenameAborts, Halt
  <2> QED BY <1>6, <2>1, <2>2, <2>3, <2>4, StepSaveOpen, StepRename, StepRenameLosesFile
      DEF Alter
<1>7. CASE Destroy
  BY <1>7, StepDestroy
<1>8. CASE TouchDangling \/ Halted \/ UNCHANGED vars
  BY <1>1, <1>8 DEF TouchDangling, Halted, Halt, vars
<1> QED BY <1>4, <1>5, <1>6, <1>7, <1>8 DEF Next

LEMMA StoreStarts ==
  ASSUME Init
  PROVE  FS!Init
<1>1. \A k \in StoreKeys : ContentAt(k) = NULL
  BY DEF Init, ContentAt, FilesAt, Keyed
<1>2. Store = [k \in StoreKeys |-> NULL]
  BY <1>1 DEF Store
<1>3. Answer = FS!NoReply
  BY NullKey
  DEF Init, NoReply, Answer, Reply, FS!NoReply, FS!Reply, NoOutput, FS!NoOutput
<1> QED BY <1>2, <1>3 DEF FS!Init

\* The device, its marks, its index and its heap are at every step a FileStore, or
\* one that has just lost the file of a rename.
THEOREM LosesOnlyByRenameHolds == Spec => LosesOnlyByRename
<1>1. Init => IInv /\ ContentOK /\ FS!Init
  BY IInvInit, ContentInit, StoreStarts, BlockCountAssumption
<1>2. IInv /\ ContentOK /\ [Next]_vars => IInv' /\ ContentOK'
  BY IInvNext, ContentNext, StrongerInv
<1>3. IInv /\ ContentOK /\ NamesUnique => StoreValues
  BY StoreReads, StrongerInv
<1>4. IInv /\ NamesUnique /\ StoreValues /\ StoreValues' /\ [Next]_vars
      => [FS!LossyNext]_(FS!vars)
  BY StoreSimulates, StrongerInv DEF StoreStep
<1> QED BY <1>1, <1>2, <1>3, <1>4, NamesStayUnique, PTL
    DEF Spec, LosesOnlyByRename, FS!LossySpec

\* With memory, imffs implements a FileStore, whatever the size of the device: a
\* save appears under its name in one step and whole or not at all, a load answers
\* with exactly the bytes that were saved under the name, and a save, a rollback, a
\* delete or a rename changes no other file (imffs_save, imffs_load, imffs_delete,
\* imffs_rename, imffs_dir, imffs_destroy).
THEOREM FilesAreStored ==
  ASSUME ~MallocMayFail
  PROVE  Spec => ImplementsFileStore
<1>1. [FS!LossyNext]_(FS!vars) => [FS!Next]_(FS!vars)
  BY DEF FS!LossyNext, FS!RenameLosesFile
<1> QED BY <1>1, LosesOnlyByRenameHolds, PTL
    DEF LosesOnlyByRename, FS!LossySpec, ImplementsFileStore, FS!Spec
=============================================================================
