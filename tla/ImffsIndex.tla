------------------------------ MODULE ImffsIndex ------------------------------
(***************************************************************************)
(* imffs with its multimap.  Imffs takes the index for a function from     *)
(* Files to clusters; here it is the array of a5_multimap.c, ordered by    *)
(* names that live in the Files themselves, searched by halves under one   *)
(* name and by a traversal under another.  Each operation also does to the *)
(* array what its calls do, in their order.                                *)
(***************************************************************************)
EXTENDS ImffsDefrag, MultimapArray

VARIABLE mm     \* [keys, trav_pos]: fs->index

ivars == <<dvars, mm>>

EmptyMap == [keys |-> <<>>, trav_pos |-> -1]

\* compare_files_by_name reads the name in the File.
RanksIn(files) ==
  [f \in FileIds |-> IF files[f] = NULL THEN 0 ELSE Rank[files[f].name]]
Ranks == RanksIn(heap)

\* mm_insert_value, the comparator of values being compare_always_greater.
InsertValue(m, ranks, f, c) ==
  LET found == FindPos(m.keys, ranks, ranks[f])
      pos == InsertPos(m.keys, ranks, ranks[f])
  IN IF found >= 0 THEN [m EXCEPT !.keys[found + 1].values = Append(@, c)]
     ELSE IF Len(m.keys) >= BlockCount THEN m
     ELSE [keys |-> InsertAt(m.keys, pos + 1, [key |-> f, values |-> <<c>>]),
           trav_pos |-> MovedUp(m.trav_pos, pos, BlockCount)]

\* mm_remove_key
RemoveKey(m, ranks, f) ==
  LET pos == FindPos(m.keys, ranks, ranks[f])
  IN IF pos < 0 THEN m
     ELSE [keys |-> RemoveAt(m.keys, pos + 1), trav_pos |-> MovedDown(m.trav_pos, pos)]

\* find_matching_file walks the keys until a name matches.
Matches(m, n) == {i \in DOMAIN m.keys : Ranks[m.keys[i].key] = Rank[n]}
Walked(m, n) ==
  [m EXCEPT !.trav_pos = IF Matches(m, n) = {} THEN -1 ELSE Min(Matches(m, n))]
WalkedThrough == [mm EXCEPT !.trav_pos = -1]

ValuesOf(f) ==
  LET pos == FindPos(mm.keys, Ranks, Ranks[f])
  IN IF pos < 0 THEN <<>> ELSE mm.keys[pos + 1].values

-----------------------------------------------------------------------------
(* What the operations do to the array *)

WithCluster == InsertValue(mm, Ranks, sv.file, Ended)

\* imffs_delete of the file being saved, once its last cluster is in.
RolledBack ==
  RemoveKey(Walked(WithCluster, heap[sv.file].name), Ranks, sv.file)

Deleted(n, f) == RemoveKey(Walked(mm, n), Ranks, f)

\* f goes back in, cluster by cluster, under the name it has in files.
Reinserted(m, files, f, values) ==
  LET back[i \in 0 .. Len(values)] ==
        IF i = 0 THEN m ELSE InsertValue(back[i - 1], RanksIn(files), f, values[i])
  IN back[Len(values)]

\* Variant: the File gets its new name before its key is removed.
RenamedInPlace(old, f) ==
  Reinserted(RemoveKey(Walked(mm, old), RanksIn(heap'), f), heap', f, ValuesOf(f))

\* The key goes under the old name and comes back under the new one.
Renamed(old, f) ==
  Reinserted(RemoveKey(Walked(mm, old), Ranks, f), heap', f, ValuesOf(f))

AllStarts == UNION {RunStarts(f) : f \in FileIds}

\* From the front of the device, a run is inserted for each block of starts.
RunsInserted(starts) ==
  LET built[p \in 0 .. BlockCount] ==
        IF p = 0 THEN EmptyMap
        ELSE IF p - 1 \in starts
          THEN InsertValue(built[p - 1], Ranks, df.owners[p - 1], RunOf(p - 1))
        ELSE built[p - 1]
  IN built[BlockCount]

\* Variant: the runs are entered without the last.
RebuiltShort ==
  RunsInserted({b \in AllStarts : \E c \in AllStarts : b < c})

\* A new multimap, and one insertion for each run of blocks.
Rebuilt == RunsInserted(AllStarts)

-----------------------------------------------------------------------------
\* Steps that change no key and walk none.
LeavesIndex ==
  \/ \E b \in Blocks : SaveBlock(b) \/ SaveReadError(b)
  \/ SaveInsertAborts
  \/ \E n \in Names :
       \/ SaveUnopened(n) \/ SaveDuplicate(n) \/ LoadMissing(n) \/ DeleteMissing(n)
       \/ \E d \in DiskFiles, f \in FileIds : SaveOpen(n, d, f)
  \/ \E old, new \in Names : RenameAborts(old, new)
  \/ DirAborts \/ TouchDangling \/ Halted

\* Operations on the file called n that find it and then change nothing.
Looks(n) ==
  \/ LoadFailed(n) \/ DeleteUnread(n)
  \/ \E f \in FileIds : Load(n, f)
  \/ \E new \in Names : RenameRefused(n, new) \/ RenameUnread(n, new)

SaveInserts ==
  \/ \E b \in Blocks : SaveCluster(b) /\ mm' = WithCluster
  \/ SaveCommit /\ mm' = WithCluster
  \/ SaveRollback /\ mm' = RolledBack
  \/ SaveRollbackFails /\ mm' = Walked(WithCluster, heap[sv.file].name)
  \/ SaveAbandoned /\ mm' = IF sv.num > 0 THEN WithCluster ELSE mm

Alters(n, f) ==
  \/ Delete(n, f) /\ mm' = IF Restorable(f) THEN Deleted(n, f) ELSE mm
  \/ \E new \in Names :
       \/ Rename(n, new, f) /\ mm' = Renamed(n, f)
       \/ RenameLosesFile(n, new, f) /\ mm' = Deleted(n, f)

Indexed ==
  /\ df.phase = "idle" \/ status # "running"
  /\ UNCHANGED df
  /\ \/ LeavesIndex /\ UNCHANGED mm
     \/ SaveInserts
     \/ \E n \in Names : Looks(n) /\ mm' = Walked(mm, n)
     \/ \E n \in Names, f \in FileIds : Alters(n, f)
     \/ Dir /\ mm' = WalkedThrough
     \/ Destroy /\ mm' = EmptyMap

\* A defragmentation that has no memory may have walked to any key.
IndexedDefrag ==
  \/ DefragStart /\ mm' = WalkedThrough
  \/ \E p \in {mm.trav_pos} \cup DOMAIN mm.keys :
       DefragUnready /\ mm' = [mm EXCEPT !.trav_pos = p]
  \/ DefragFinish /\ mm' = IF status' = "running" THEN Rebuilt ELSE mm
  \/ /\ \/ DefragSeek
        \/ \E p \in Blocks : KeepBlock(p) \/ CopyBlock(p) \/ ShiftBlocks(p)
        \/ FileCompacted
        \/ DefragAborts
     /\ UNCHANGED mm

IInit == DInit /\ mm = EmptyMap

INext == Indexed \/ IndexedDefrag

ISpec == IInit /\ [][INext]_ivars

-----------------------------------------------------------------------------
(* Properties *)

\* The array holds for each File the clusters that Imffs's index says, whatever
\* is inserted, removed, renamed or rebuilt.
IndexAgrees ==
  \A f \in FileIds :
    LET at == {i \in DOMAIN mm.keys : mm.keys[i].key = f}
    IN IF at = {} THEN index[f] = <<>>
       ELSE \A i \in at : at = {i} /\ mm.keys[i].values = index[f]

\* The two ways to look a name up find the same File, the one Imffs's Found says:
\* mm_count_values, by halves, and find_matching_file, key by key.
LookupsAgree ==
  Clean =>
    \A n \in Names :
      LET pos == FindPos(mm.keys, Ranks, Rank[n])
      IN IF Found(n) = {} THEN pos = -1 /\ Matches(mm, n) = {}
         ELSE /\ pos >= 0
              /\ mm.keys[pos + 1].key \in Found(n)
              /\ Matches(mm, n) = {pos + 1}

\* validate_multimap never fails on the index: the keys are in the order of the
\* names that their Files have now, though a File is renamed in place and two
\* spellings of a name compare equal.
ValidIndex ==
  Clean =>
    /\ Len(mm.keys) <= BlockCount
    /\ mm.trav_pos \in -1 .. BlockCount
    /\ \A i \in DOMAIN mm.keys : mm.keys[i].values # <<>>
    /\ Ascending(mm.keys, Ranks)
=============================================================================
