---------------------------- MODULE CautiousProofs ----------------------------
(***************************************************************************)
(* For every device whose user saves nothing more while a defragmentation  *)
(* has left wrong marks: no block is shared; a defragmentation keeps the   *)
(* Files, the blocks of each, what they hold and their order; it does not  *)
(* abort unless a malloc fails, and keeps right marks right when there was *)
(* no hole.  Where positions matter, they are those that fit a uint8_t.    *)
(***************************************************************************)
EXTENDS DefragStore, DefragProofs, StoreProofs

-----------------------------------------------------------------------------
(* Clusters stay disjoint, though the marks may be wrong between saves *)

CautiousNext == DNext /\ (sv'.file # sv.file /\ sv.file = NULL => MarksAgree)

\* Each block is in clusters of one file.
OneOwner == \E owner : \A f \in FileIds : \A b \in Owned(f) : owner[b] = f

\* Clusters of one file are apart because they ascend; those of two, because each
\* block has one owner.
LEMMA ApartByOwner == LocalOK /\ ClustersAscend /\ Pending = {} /\ OneOwner => Disjoint
<1> SUFFICES ASSUME LocalOK, ClustersAscend, Pending = {}, OneOwner PROVE Disjoint
  OBVIOUS
<1>1. ASSUME NEW f \in FileIds, NEW i \in DOMAIN index[f], NEW j \in DOMAIN index[f],
             NEW b \in Blocks, Covers(index[f][i], b), Covers(index[f][j], b)
      PROVE  i = j
  <2>1. /\ index[f][i].start \in Nat /\ index[f][i].num \in Nat
        /\ index[f][j].start \in Nat /\ index[f][j].num \in Nat
        /\ i \in Nat /\ j \in Nat
    BY ClusterTypes
  <2>2. /\ i < j => index[f][i].start + index[f][i].num < index[f][j].start
        /\ j < i => index[f][j].start + index[f][j].num < index[f][i].start
    BY ClustersFurther
  <2>3. b \in Nat
    BY BlockCountAssumption DEF BlockCountAssumption, Blocks
  <2> QED BY <1>1, <2>1, <2>2, <2>3 DEF Covers
<1>2. \A f, g \in FileIds : \A i \in DOMAIN index[f], j \in DOMAIN index[g] : \A b \in Blocks :
        Covers(index[f][i], b) /\ Covers(index[g][j], b) => f = g
  <2> SUFFICES ASSUME NEW f \in FileIds, NEW g \in FileIds, NEW i \in DOMAIN index[f],
                      NEW j \in DOMAIN index[g], NEW b \in Blocks,
                      Covers(index[f][i], b), Covers(index[g][j], b)
               PROVE  f = g
    OBVIOUS
  <2>1. b \in Owned(f) /\ b \in Owned(g)
    BY DEF Owned
  <2> QED BY <2>1 DEF OneOwner
<1> QED BY <1>1, <1>2 DEF Disjoint

LEMMA ApartByOwnerNext ==
  (LocalOK /\ ClustersAscend /\ Pending = {} /\ OneOwner)' => Disjoint'
BY ApartByOwner, PTL

LEMMA ApartLess ==
  ASSUME Disjoint, UNCHANGED sv,
         \A f \in FileIds : index'[f] = <<>> \/ index'[f] = index[f]
  PROVE  Disjoint'
<1>1. Pending' = Pending
  BY DEF Pending, Covers
<1>2. ASSUME NEW f \in FileIds, NEW i \in DOMAIN index'[f]
      PROVE  i \in DOMAIN index[f] /\ index'[f][i] = index[f][i]
  OBVIOUS
<1> QED BY <1>1, <1>2 DEF Disjoint, Covers

\* Between saves, whatever is asked but a save only takes keys away.
LEMMA IdleNext ==
  ASSUME LocalOK, sv.file = NULL, [Next]_vars
  PROVE  \/ sv'.file # NULL
         \/ UNCHANGED sv /\ \A f \in FileIds : index'[f] = <<>> \/ index'[f] = index[f]
<1> DEFINE Kept == UNCHANGED sv /\ \A f \in FileIds : index'[f] = <<>> \/ index'[f] = index[f]
<1> HIDE DEF Kept
<1>0. ASSUME UNCHANGED <<index, sv>> PROVE Kept
  BY <1>0 DEF Kept
<1>1. ASSUME UNCHANGED sv, NEW f \in FileIds, index' = [index EXCEPT ![f] = <<>>] PROVE Kept
  BY <1>1 DEF Kept, LocalOK, TypeOK
<1>2. CASE SaveStep
  BY <1>2 DEF SaveStep, SaveBlock, SaveCluster, SaveReadError, Looping, SaveCommit, SaveRollback,
              SaveRollbackFails, SaveAbandoned, SaveInsertAborts, LoopOver, Saving
<1>3. CASE Lookup
  BY <1>0, <1>3 DEF Lookup, LoadMissing, LoadFailed, Refuse, Load, Dir, DirAborts, Halt
<1>4. CASE Alter
  <2>1. ASSUME NEW n \in Names,
               SaveUnopened(n) \/ SaveDuplicate(n) \/ DeleteMissing(n) \/ DeleteUnread(n)
        PROVE  Kept
    BY <1>0, <2>1 DEF SaveUnopened, SaveDuplicate, DeleteMissing, DeleteUnread, Refuse
  <2>2. ASSUME NEW n \in Names, NEW f \in FileIds, Delete(n, f) PROVE Kept
    BY <1>0, <1>1, <2>2 DEF Delete, Halt
  <2>3. ASSUME NEW n \in Names, NEW d \in DiskFiles, NEW f \in FileIds, SaveOpen(n, d, f)
        PROVE  sv'.file # NULL
    BY <2>3, NullAssumption DEF SaveOpen, Idle, NullAssumption
  <2>4. ASSUME NEW old \in Names, NEW new \in Names,
               RenameRefused(old, new) \/ RenameUnread(old, new) \/ RenameAborts(old, new)
        PROVE  Kept
    BY <1>0, <2>4 DEF RenameRefused, RenameUnread, RenameAborts, Refuse, Halt
  <2>5. ASSUME NEW old \in Names, NEW new \in Names, NEW f \in FileIds,
               Rename(old, new, f) \/ RenameLosesFile(old, new, f)
        PROVE  Kept
    BY <1>0, <1>1, <2>5 DEF Rename, RenameLosesFile
  <2> QED BY <1>4, <2>1, <2>2, <2>3, <2>4, <2>5 DEF Alter, Kept
<1>5. CASE Destroy
  BY <1>5 DEF Destroy, Kept
<1>6. CASE TouchDangling \/ Halted \/ UNCHANGED vars
  BY <1>0, <1>6 DEF TouchDangling, Halted, Halt, vars
<1> QED BY <1>2, <1>3, <1>4, <1>5, <1>6 DEF Next, Kept

LEMMA RightMarksProtect ==
  ASSUME LocalOK, Disjoint, MarksAgree
  PROVE  IInv
BY DEF MarksAgree, IInv, Protected

LEMMA CInvNext ==
  ASSUME DLocal, ClustersAscend, ClustersAscend', CInv, [CautiousNext]_dvars
  PROVE  CInv'
<1>1. LocalOK /\ LocalOK' /\ [DNext]_dvars
  BY DLocalNext DEF CautiousNext, DLocal
<1>2. CASE [Next]_vars
  <2>1. CASE sv.file # NULL \/ MarksAgree
    <3>1. IInv
      BY <1>1, <2>1, RightMarksProtect DEF CInv, IInv
    <3>2. IInv'
      BY <1>2, <3>1, IInvNext
    <3> QED BY <3>2 DEF IInv, CInv
  <2>2. CASE sv.file = NULL /\ ~MarksAgree
    <3>1. sv'.file = NULL
      BY <2>2 DEF CautiousNext, dvars, vars
    <3>2. Disjoint'
      BY <1>1, <1>2, <2>2, <3>1, IdleNext, ApartLess DEF CInv
    <3> QED BY <1>1, <3>1, <3>2 DEF CInv
  <2> QED BY <2>1, <2>2
<1>3. CASE Finished
  <2>1. sv' = sv /\ sv.file = NULL /\ index' = NewIndex
    BY <1>3 DEF Finished, DefragFinish, InDefrag, DLocal, DfOK
  <2>2. Pending' = {}
    <3>1. sv.num = 0
      BY <1>1, <2>1 DEF LocalOK, SaveOK
    <3>2. Pending = {} /\ Pending' = Pending
      BY <1>1, <2>1, <3>1, IdleHasNoPending DEF Pending, Covers
    <3> QED BY <3>2
  <2>3. OneOwner'
    <3>1. PICK owner : owner = df.owners
      OBVIOUS
    <3>2. \A f \in FileIds : Owned(f)' \in SUBSET Places(f)
      BY <2>1, NewOwned
    <3>3. \A f \in FileIds : \A b \in Owned(f)' : owner[b] = f
      BY <3>1, <3>2 DEF Places
    <3> QED BY <3>3 DEF OneOwner
  <2>4. Disjoint'
    BY <1>1, <2>2, <2>3, ApartByOwnerNext
  <2> QED BY <1>1, <2>1, <2>4 DEF CInv
<1>4. CASE UNCHANGED <<used, index, heap, sv>>
  BY <1>1, <1>4 DEF CInv, Disjoint, Protected, Pending, Owned, Covers
<1> QED BY <1>1, <1>2, <1>3, <1>4, IndexSteps

LEMMA CInvInit == DInit => DLocal /\ CInv /\ ClustersAscend /\ EndedBefore
<1> SUFFICES ASSUME DInit PROVE DLocal /\ CInv /\ ClustersAscend /\ EndedBefore
  OBVIOUS
<1>1. DLocal
  BY DLocalInit
<1>2. CInv
  BY IInvInit, StrongerInv, BlockCountAssumption DEF DInit
<1>3. ClustersAscend /\ EndedBefore
  BY DEF DInit, Init, ClustersAscend, EndedBefore, Idle
<1> QED BY <1>1, <1>2, <1>3

\* What holds at every step of a device whose user is cautious.
Sound == DLocal /\ CInv /\ ClustersAscend /\ EndedBefore

LEMMA SoundNext == Sound /\ [CautiousNext]_dvars => Sound'
<1> SUFFICES ASSUME Sound, [CautiousNext]_dvars PROVE Sound'
  OBVIOUS
<1>1. DLocal' /\ ClustersAscend' /\ EndedBefore'
  BY DLocalNext, AscendStep DEF Sound, CautiousNext
<1>2. CInv'
  BY <1>1, CInvNext DEF Sound
<1> QED BY <1>1, <1>2 DEF Sound

LEMMA SoundAlways == CautiousSpec => []Sound
<1>1. DInit => Sound
  BY CInvInit DEF Sound
<1>2. CautiousSpec => DInit /\ [][CautiousNext]_dvars
  BY DEF CautiousSpec, CautiousNext
<1> QED BY <1>1, <1>2, SoundNext, PTL

\* No block gets to two files, though a defragmentation leaves wrong marks: what it
\* makes of the index (a5_imffs.c, 847 to 869) gives each block to one file, and
\* whatever the user does but save takes no block.
THEOREM BlocksStillSeparate == CautiousSpec => []Disjoint
<1>1. Sound => Disjoint
  BY DEF Sound, CInv
<1> QED BY <1>1, SoundAlways, PTL

\* ... and a save finds room for its File in the index, over indexes that were
\* rebuilt and deleted from in between (lines 397 and 415).
THEOREM IndexStillHasRoom == CautiousSpec => []IndexHasRoom
<1>1. Sound => IndexHasRoom
  BY RoomForKey, BlockCountAssumption DEF IndexHasRoom, Saving, Sound, DLocal, CInv, LocalOK, TypeOK
<1> QED BY <1>1, SoundAlways, PTL

-----------------------------------------------------------------------------
(* The blocks of a file, in the order of its clusters, are in order *)

LEMMA RunRises ==
  ASSUME NEW c \in Cluster
  PROVE  Rising(Run(c)) /\ \A j \in 1 .. c.num : Run(c)[j] = c.start + j - 1
<1>1. c.num \in Nat /\ c.start \in Nat
  BY DEF Cluster
<1>2. Len(Run(c)) = c.num
  BY RunType
<1>3. \A j \in 1 .. c.num : Run(c)[j] = c.start + j - 1
  BY DEF Run
<1> QED BY <1>1, <1>2, <1>3 DEF Rising

\* So imffs_load and imffs_defrag go over the blocks of a file in one order.
LEMMA BlocksInOrder ==
  ASSUME CInv, ClustersAscend, NEW f \in FileIds
  PROVE  /\ BlocksOf(f) = InOrder(Owned(f)) /\ IsFiniteSet(Owned(f))
         /\ Owned(f) \in SUBSET Nat
<1> DEFINE s == index[f]
           n == Len(index[f])
           T == Owned(f)
<1>1. /\ n \in Nat /\ DOMAIN s = 1 .. n
      /\ \A i \in 1 .. n : s[i] \in Cluster /\ s[i].start \in Nat /\ s[i].num \in Nat
  BY ClusterTypes DEF CInv
<1>2. /\ Runs(f) \in Seq(Seq(T)) /\ Len(Runs(f)) = n
      /\ \A i \in 1 .. n : Runs(f)[i] = Run(s[i])
  BY RunsType
<1>3. IsFiniteSet(T) /\ T \in SUBSET Nat
  <2>1. Blocks \in SUBSET Nat
    BY BlockCountAssumption DEF Blocks, BlockCountAssumption
  <2>2. T \in SUBSET Blocks
    BY DEF Owned
  <2> QED BY <2>1, <2>2, BlocksFinite
<1> HIDE DEF s, n, T
<1>4. ASSUME NEW i \in 1 .. n
      PROVE  /\ Rising(Runs(f)[i]) /\ Len(Runs(f)[i]) = s[i].num
             /\ \A j \in 1 .. s[i].num : Runs(f)[i][j] = s[i].start + j - 1
  BY <1>1, <1>2, RunRises, RunType
<1>5. ASSUME NEW i \in 1 .. n, NEW j \in 1 .. n, i < j,
             NEW x \in 1 .. s[i].num, NEW y \in 1 .. s[j].num
      PROVE  Runs(f)[i][x] < Runs(f)[j][y]
  <2>1. s[i].start + s[i].num < s[j].start
    BY <1>1, <1>5, ClustersFurther DEF CInv, s
  <2>2. Runs(f)[i][x] = s[i].start + x - 1 /\ Runs(f)[j][y] = s[j].start + y - 1
    BY <1>4
  <2> QED BY <1>1, <2>1, <2>2
<1>6. /\ Rising(FlattenSeq(Runs(f)))
      /\ \A i \in 1 .. n : \A x \in 1 .. Len(Runs(f)[i]) :
           \E p \in 1 .. Len(FlattenSeq(Runs(f))) : FlattenSeq(Runs(f))[p] = Runs(f)[i][x]
  <2>1. \A i \in 1 .. Len(Runs(f)) : Rising(Runs(f)[i])
    BY <1>2, <1>4
  <2>2. \A i, j \in 1 .. Len(Runs(f)) : i < j =>
          \A x \in 1 .. Len(Runs(f)[i]), y \in 1 .. Len(Runs(f)[j]) :
            Runs(f)[i][x] < Runs(f)[j][y]
    BY <1>2, <1>4, <1>5
  <2> QED BY <1>2, <1>3, <2>1, <2>2, FlattenRises
<1>7. \A b \in T : \E p \in 1 .. Len(BlocksOf(f)) : BlocksOf(f)[p] = b
  <2> SUFFICES ASSUME NEW b \in T PROVE \E p \in 1 .. Len(BlocksOf(f)) : BlocksOf(f)[p] = b
    OBVIOUS
  <2>1. PICK i \in 1 .. n : Covers(s[i], b)
    BY <1>1 DEF T, Owned, s
  <2>2. b \in Nat
    BY <1>3
  <2>3. b - s[i].start + 1 \in 1 .. s[i].num
    BY <1>1, <2>1, <2>2 DEF Covers
  <2>4. Runs(f)[i][b - s[i].start + 1] = b
    <3>1. Runs(f)[i][b - s[i].start + 1] = s[i].start + (b - s[i].start + 1) - 1
      BY <1>4, <2>3
    <3>2. s[i].start \in Nat
      BY <1>1
    <3> QED BY <2>2, <3>1, <3>2
  <2>5. \E p \in 1 .. Len(FlattenSeq(Runs(f))) :
          FlattenSeq(Runs(f))[p] = Runs(f)[i][b - s[i].start + 1]
    BY <1>4, <1>6, <2>3
  <2> QED BY <2>4, <2>5, BlocksAreRuns
<1>8. BlocksOf(f) \in Seq(T)
  BY BlocksType DEF T
<1>9. BlocksOf(f) = InOrder(T)
  BY <1>3, <1>6, <1>7, <1>8, BlocksAreRuns, InOrderUnique
<1> QED BY <1>3, <1>9 DEF T

LEMMA BlocksInOrderNext ==
  (CInv /\ ClustersAscend)' =>
    \A f \in FileIds : BlocksOf(f)' = InOrder(Owned(f)')
<1>1. CInv /\ ClustersAscend => \A f \in FileIds : BlocksOf(f) = InOrder(Owned(f))
  BY BlocksInOrder
<1>2. (CInv /\ ClustersAscend)' => (\A f \in FileIds : BlocksOf(f) = InOrder(Owned(f)))'
  BY <1>1, PTL
<1> QED BY <1>2 DEF InOrder

-----------------------------------------------------------------------------
(* The blocks of files while a defragmentation moves them *)

\* Where each position fits into its variable, the owners are those of the index.
LEMMA OwnersAtStart ==
  ASSUME BlockCount <= PosRange, LocalOK, KeysFew, Clean, Disjoint, NEW f \in FileIds
  PROVE  {b \in Blocks : Owners[b] = f} = Owned(f)
<1>1. ASSUME NEW g \in FileIds, NEW i \in DOMAIN index[g], NEW b \in Blocks
      PROVE  Covers(Narrow(index[g][i]), b) <=> Covers(index[g][i], b)
  <2> DEFINE c == index[g][i]
  <2>1. c \in Cluster /\ c.start \in Nat /\ c.num \in Nat
    BY ClusterTypes
  <2>2. c.num > 0 /\ c.start + c.num <= BlockCount
    BY DEF LocalOK, OnDevice
  <2> HIDE DEF c
  <2>3. c.start < PosRange /\ PosRange \in Nat /\ BlockCount \in Nat
    BY <2>1, <2>2, BlockCountAssumption, PosRangeAssumption
       DEF BlockCountAssumption, PosRangeAssumption
  <2>4. c.start % PosRange = c.start
    BY <2>1, <2>3
  <2>5. Narrow(c).start = c.start /\ Narrow(c).num = c.num
    BY <2>1, <2>4 DEF Narrow, Cluster
  <2> QED BY <2>5 DEF Covers, c
<1>2. \A b \in Blocks : Claimants(b) = {g \in FileIds : b \in Owned(g)}
  <2> SUFFICES ASSUME NEW b \in Blocks
               PROVE  \A g \in FileIds : g \in Claimants(b) <=> b \in Owned(g)
    BY DEF Claimants, Keyed
  <2> SUFFICES ASSUME NEW g \in FileIds PROVE g \in Claimants(b) <=> b \in Owned(g)
    OBVIOUS
  <2>1. g \in Claimants(b) <=> /\ index[g] # <<>>
                              /\ \E i \in DOMAIN index[g] : Covers(index[g][i], b)
    BY <1>1 DEF Claimants, Keyed
  <2>2. (\E i \in DOMAIN index[g] : TRUE) => index[g] # <<>>
    OBVIOUS
  <2> QED BY <2>1, <2>2 DEF Owned
<1>3. ASSUME NEW b \in Blocks PROVE Owners[b] = f <=> b \in Owned(f)
  <2>1. /\ Claimants(b) = {} => Owners[b] = NULL
        /\ Claimants(b) # {} => Owners[b] \in Claimants(b)
    BY OwnersAreKeys
  <2>2. \A g \in Claimants(b) : b \in Owned(f) => g = f
    BY <1>2, OwnedApart
  <2>3. f # NULL
    BY NullAssumption DEF NullAssumption
  <2>4. f \in Claimants(b) <=> b \in Owned(f)
    BY <1>2
  <2> QED BY <2>1, <2>2, <2>3, <2>4
<1> QED BY <1>3 DEF Owned

LEMMA PlacesTypes ==
  \A f : Places(f) \in SUBSET Nat /\ IsFiniteSet(Places(f)) /\ Places(f) \in SUBSET Blocks
<1> SUFFICES ASSUME NEW f
             PROVE  /\ Places(f) \in SUBSET Nat /\ IsFiniteSet(Places(f))
                    /\ Places(f) \in SUBSET Blocks
  OBVIOUS
<1>1. Places(f) \in SUBSET Blocks
  BY DEF Places
<1>2. Blocks \in SUBSET Nat
  BY BlockCountAssumption DEF Blocks, BlockCountAssumption
<1> QED BY <1>1, <1>2, BlocksFinite

LEMMA PlacesTypesNext ==
  \A f : Places(f)' \in SUBSET Nat /\ IsFiniteSet(Places(f)') /\ Places(f)' \in SUBSET Blocks
<1>1. (\A f : Places(f) \in SUBSET Nat /\ IsFiniteSet(Places(f)) /\ Places(f) \in SUBSET Blocks)'
  BY PlacesTypes, PTL
<1> QED BY <1>1

\* The i-th block of a file holds after a move what the i-th held before.
LEMMA MovedInOrder ==
  ASSUME MovesWhole, NEW f, f # NULL
  PROVE  /\ Len(InOrder(Places(f)')) = Len(InOrder(Places(f)))
         /\ Cardinality(Places(f)') = Cardinality(Places(f))
         /\ \A i \in 1 .. Len(InOrder(Places(f))) :
              data'[InOrder(Places(f)')[i]] = data[InOrder(Places(f))[i]]
<1>1. PICK from \in Bijection(Blocks, Blocks) :
        \A b \in Blocks :
          /\ df'.owners[b] = df.owners[from[b]]
          /\ df'.owners[b] # NULL =>
               /\ data'[b] = data[from[b]]
               /\ \A c \in Blocks :
                    b < c /\ df'.owners[b] = df'.owners[c] => from[b] < from[c]
  BY DEF MovesWhole
<1>2. from \in [Blocks -> Blocks] /\ \A b \in Blocks : \E c \in Blocks : from[c] = b
  BY <1>1 DEF Bijection, Surjection
<1> DEFINE S == Places(f)
           N == Places(f)'
           s == InOrder(N)
           n == Cardinality(N)
           t == [i \in 1 .. n |-> from[s[i]]]
<1>3. /\ S \in SUBSET Nat /\ IsFiniteSet(S) /\ N \in SUBSET Nat /\ IsFiniteSet(N)
      /\ S = {b \in Blocks : df.owners[b] = f} /\ N = {b \in Blocks : df'.owners[b] = f}
  BY PlacesTypes, PlacesTypesNext DEF Places
<1> HIDE DEF S, N
<1>4. /\ Len(s) = n /\ n \in Nat /\ DOMAIN s = 1 .. n
      /\ \A i \in 1 .. n : s[i] \in N
      /\ \A i, j \in 1 .. n : i < j => s[i] < s[j]
      /\ \A b \in N : \E i \in 1 .. n : s[i] = b
  BY <1>3, InOrderAscends
<1> HIDE DEF s, n
<1>5. \A i \in 1 .. n : /\ s[i] \in Blocks /\ df'.owners[s[i]] = f
                       /\ from[s[i]] \in S /\ t[i] = from[s[i]]
  BY <1>1, <1>2, <1>3, <1>4
<1>6. t \in Seq(S) /\ Len(t) = n
  <2>1. t \in [1 .. n -> S]
    BY <1>5
  <2> HIDE DEF t
  <2> QED BY <1>4, <2>1
<1> HIDE DEF t
<1>7. Rising(t)
  <2> SUFFICES ASSUME NEW i \in 1 .. n, NEW j \in 1 .. n, i < j PROVE t[i] < t[j]
    BY <1>6 DEF Rising
  <2>1. s[i] < s[j] /\ s[i] \in Blocks /\ s[j] \in Blocks
        /\ df'.owners[s[i]] = df'.owners[s[j]] /\ df'.owners[s[i]] # NULL
    BY <1>4, <1>5
  <2>2. from[s[i]] < from[s[j]]
    BY <1>1, <2>1
  <2> QED BY <1>5, <2>2
<1>8. ASSUME NEW b \in S PROVE \E i \in 1 .. n : t[i] = b
  <2>1. b \in Blocks /\ df.owners[b] = f
    BY <1>3
  <2>2. PICK c \in Blocks : from[c] = b
    BY <1>2, <2>1
  <2>3. c \in N
    BY <1>1, <1>3, <2>1, <2>2
  <2>4. PICK i \in 1 .. n : s[i] = c
    BY <1>4, <2>3
  <2> QED BY <1>5, <2>2, <2>4
<1>9. t = InOrder(S)
  BY <1>3, <1>6, <1>7, <1>8, InOrderUnique
<1>10. \A i \in 1 .. n : data'[s[i]] = data[t[i]]
  BY <1>1, <1>5
<1>11. Len(InOrder(S)) = Cardinality(S)
  BY <1>3, InOrderAscends
<1> QED BY <1>4, <1>6, <1>9, <1>10, <1>11 DEF s, n, S, N

\* While blocks move, those of a file hold what it was saved from, in order.
Gathers(f) == \E d \in DiskFiles : Complete(InOrder(Places(f)), heap[f].byte_len, d)

GatherOK ==
  IF df.phase = "idle"
    THEN ContentOK
    ELSE Clean /\ BlocksMatchLength /\ \A f \in Keyed : Gathers(f)

LEMMA HeldMoved ==
  ASSUME MovesWhole, heap' = heap, NEW f, f # NULL, Gathers(f)
  PROVE  Gathers(f)'
<1>1. PICK d \in DiskFiles : Complete(InOrder(Places(f)), heap[f].byte_len, d)
  BY DEF Gathers
<1> DEFINE s == InOrder(Places(f))
           t == InOrder(Places(f)')
<1>2. Len(t) = Len(s) /\ \A i \in 1 .. Len(s) : data'[t[i]] = data[s[i]]
  BY MovedInOrder
<1>3. InOrder(Places(f))' = t
  BY DEF InOrder
<1> HIDE DEF s, t
<1>4. /\ heap[f].byte_len = Size[d] /\ Len(s) = BlocksFor(Size[d])
      /\ \A i \in 1 .. Len(s) : i <= BlocksWithBytes(Size[d]) => data[s[i]] = <<d, i - 1>>
  BY <1>1 DEF Complete, Holding, s
<1>5. \A i \in 1 .. Len(t) : i <= BlocksWithBytes(Size[d]) => data'[t[i]] = <<d, i - 1>>
  BY <1>2, <1>4
<1>6. Complete(InOrder(Places(f)), heap[f].byte_len, d)'
  BY <1>2, <1>3, <1>4, <1>5 DEF Complete, Holding, BlocksFor, BlocksWithBytes
<1> QED BY <1>6 DEF Gathers

LEMMA LengthsUnchanged ==
  ASSUME UNCHANGED <<index, heap, sv>>
  PROVE  BlocksMatchLength' <=> BlocksMatchLength
BY DEF BlocksMatchLength, BlocksOf, Keyed, BlocksFor

LEMMA GatherStart ==
  ASSUME BlockCount <= PosRange, DLocal, CInv, ClustersAscend, ContentOK, DefragStart
  PROVE  GatherOK'
<1>1. /\ UNCHANGED <<data, index, heap, sv>> /\ sv.file = NULL /\ Clean
      /\ df'.phase = "seek" /\ df'.owners = Owners
  BY FreshDefrag DEF DefragStart, Ready, Between
<1>2. BlocksMatchLength' /\ Clean'
  <2>1. BlocksMatchLength
    BY DEF ContentOK, StoredOK, Complete, BlocksMatchLength
  <2> QED BY <1>1, <2>1, LengthsUnchanged DEF Clean, Keyed
<1>3. ASSUME NEW f \in Keyed' PROVE Gathers(f)'
  <2>1. f \in Keyed \ {sv.file} /\ f \in FileIds /\ heap[f] # NULL
    BY <1>1, NullAssumption DEF Keyed, Clean, NullAssumption
  <2>2. PICK d \in DiskFiles : Complete(BlocksOf(f), heap[f].byte_len, d)
    BY <2>1 DEF ContentOK, StoredOK
  <2>3. Places(f)' = Owned(f)
    BY <1>1, <2>1, OwnersAtStart DEF Places, DLocal, CInv
  <2>4. InOrder(Places(f))' = BlocksOf(f)
    <3>1. InOrder(Places(f))' = InOrder(Places(f)')
      BY DEF InOrder
    <3>2. BlocksOf(f) = InOrder(Owned(f))
      BY <2>1, BlocksInOrder
    <3> QED BY <2>3, <3>1, <3>2
  <2>5. Complete(InOrder(Places(f)), heap[f].byte_len, d)'
    BY <1>1, <2>2, <2>4 DEF Complete, Holding, BlocksFor, BlocksWithBytes
  <2> QED BY <2>5 DEF Gathers
<1> QED BY <1>1, <1>2, <1>3 DEF GatherOK

LEMMA GatherMoves ==
  ASSUME GatherOK, df.phase # "idle", df'.phase # "idle", MovesWhole,
         UNCHANGED <<index, heap, sv>>
  PROVE  GatherOK'
<1>1. Clean /\ BlocksMatchLength /\ \A f \in Keyed : Gathers(f)
  BY DEF GatherOK
<1>2. Clean' /\ BlocksMatchLength' /\ Keyed' = Keyed
  BY <1>1, LengthsUnchanged DEF Clean, Keyed
<1>3. \A f \in Keyed : f # NULL
  BY NullAssumption DEF Keyed, NullAssumption
<1>4. \A f \in Keyed' : Gathers(f)'
  BY <1>1, <1>2, <1>3, HeldMoved
<1> QED BY <1>2, <1>4 DEF GatherOK

\* A file that holds what it was saved from has a place.
LEMMA GatheredIsPlaced ==
  ASSUME NEW f, Gathers(f)
  PROVE  \E b \in Blocks : df.owners[b] = f
<1>1. PICK d \in DiskFiles : Complete(InOrder(Places(f)), heap[f].byte_len, d)
  BY DEF Gathers
<1>2. BlocksFor(Size[d]) > 0
  BY FewerFilled, SizeAssumption, BytesPerBlockAssumption
     DEF SizeAssumption, BytesPerBlockAssumption, BlocksFor
<1>3. Cardinality(Places(f)) > 0
  BY <1>1, <1>2, PlacesTypes, InOrderAscends DEF Complete
<1>4. Places(f) # {}
  BY <1>3, FS_EmptySet
<1> QED BY <1>4 DEF Places

\* What a defragmentation leaves to each file is where its blocks are.
LEMMA FinishKeepsPlaces ==
  ASSUME DLocal, FewPlaces, GatherOK, Finished
  PROVE  Keyed' = Keyed /\ \A f \in Keyed : Owned(f)' = Places(f)
<1>1. /\ index' = NewIndex /\ heap' = heap /\ df.phase # "idle"
      /\ Checked /\ NothingBeyondEnd
  BY DEF Finished, DefragFinish, InDefrag
<1>2. ASSUME NEW f \in Keyed PROVE f \in Keyed' /\ Owned(f)' = Places(f)
  <2>1. f \in FileIds /\ f # NULL /\ Gathers(f)
    BY <1>1, NullAssumption DEF Keyed, GatherOK, NullAssumption
  <2>2. PICK b \in Blocks : df.owners[b] = f
    BY <2>1, GatheredIsPlaced
  <2>3. PICK a, e : Spans(f, a, e)
    BY <1>1, <2>1, <2>2, CheckedSpans
  <2> QED BY <1>1, <2>1, <2>3, OwnedSpan
<1>3. Keyed' \subseteq Keyed
  BY KeysRebuilt
<1> QED BY <1>2, <1>3

LEMMA GatherFinish ==
  ASSUME DLocal, FewPlaces, GatherOK, Finished, CInv', ClustersAscend'
  PROVE  GatherOK'
<1>1. /\ UNCHANGED <<data, heap, sv>> /\ sv.file = NULL
      /\ df.phase # "idle" /\ df'.phase = "idle"
  BY FreshDf DEF Finished, DefragFinish, InDefrag, DLocal, DfOK
<1>2. Keyed' = Keyed /\ \A f \in Keyed : Owned(f)' = Places(f)
  BY FinishKeepsPlaces
<1>3. ASSUME NEW f \in Keyed
      PROVE  \E d \in DiskFiles : Complete(BlocksOf(f), heap[f].byte_len, d)'
  <2>1. f \in FileIds /\ Gathers(f)
    BY <1>1 DEF Keyed, GatherOK
  <2>2. PICK d \in DiskFiles : Complete(InOrder(Places(f)), heap[f].byte_len, d)
    BY <2>1 DEF Gathers
  <2>3. BlocksOf(f)' = InOrder(Places(f))
    BY <1>2, <2>1, BlocksInOrderNext
  <2>4. Complete(BlocksOf(f), heap[f].byte_len, d)'
    BY <1>1, <2>2, <2>3 DEF Complete, Holding, BlocksFor, BlocksWithBytes
  <2> QED BY <2>4
<1>4. StoredOK'
  BY <1>1, <1>2, <1>3 DEF StoredOK
<1> QED BY <1>1, <1>4 DEF GatherOK, ContentOK, ReadOK

LEMMA GatherFrame ==
  ASSUME CInv, GatherOK, UNCHANGED <<data, index, heap, sv, df>>
  PROVE  GatherOK'
<1>1. CASE df.phase = "idle"
  BY <1>1, ContentFrame DEF GatherOK
<1>2. CASE df.phase # "idle"
  BY <1>2, Stays, GatherMoves
<1> QED BY <1>1, <1>2

LEMMA GatherOther ==
  ASSUME CInv, GatherOK, Other
  PROVE  GatherOK'
<1>1. CASE df.phase = "idle"
  <2>1. ContentOK'
    BY <1>1, ContentNext DEF GatherOK, Other
  <2> QED BY <1>1, <2>1 DEF GatherOK, Other
<1>2. CASE status # "running"
  <2>1. UNCHANGED vars
    BY <1>2, StoppedStays DEF Other
  <2> QED BY <2>1, GatherFrame DEF vars, Other
<1> QED BY <1>1, <1>2 DEF Other

\* What files hold is kept by every step, those of a defragmentation included.
LEMMA GatherNext ==
  ASSUME BlockCount <= PosRange, Sound, Sound', FewPlaces, GatherOK, [DNext]_dvars
  PROVE  GatherOK'
<1>1. CASE DefragStart
  BY <1>1, GatherStart DEF Sound, GatherOK, DefragStart
<1>2. CASE DefragUnready \/ DefragAborts \/ UNCHANGED dvars
  <2>1. UNCHANGED <<data, index, heap, sv, df>>
    BY <1>2 DEF DefragUnready, DefragAborts, Refuse, Halt, dvars, vars
  <2> QED BY <2>1, GatherFrame DEF Sound
<1>3. CASE DefragSeek \/ FileCompacted \/ \E p \in Blocks : KeepBlock(p) \/ CopyBlock(p) \/ ShiftBlocks(p)
  <2>1. UNCHANGED <<index, heap, sv>> /\ InDefrag /\ DNext
    BY <1>3 DEF DefragSeek, FileCompacted, KeepBlock, CopyBlock, ShiftBlocks, NextOwned, Halt, vars,
                DNext, Compact
  <2>2. df'.phase # "idle"
    BY <1>3, <2>1 DEF DefragSeek, FileCompacted, KeepBlock, CopyBlock, ShiftBlocks, NextOwned, Placed,
                      Sound, DLocal, DfOK, InDefrag
  <2>3. MovesWhole
    BY <1>3, <2>1, <2>2, MovesWholeNext, Stays DEF Sound, DLocal, dvars, vars
  <2> QED BY <2>1, <2>2, <2>3, GatherMoves DEF InDefrag
<1>4. CASE DefragFinish
  <2>1. CASE Finished
    BY <2>1, GatherFinish DEF Sound
  <2>2. CASE CheckFails
    BY <2>2, GatherFrame DEF CheckFails, Halt, Sound
  <2> QED BY <1>4, <2>1, <2>2, FinishedOrNot
<1> QED BY <1>1, <1>2, <1>3, <1>4, GatherOther DEF DNext, Compact, Sound

-----------------------------------------------------------------------------
(* What a device whose positions fit into a uint8_t keeps *)

Right == Sound /\ Few /\ GatherOK

LEMMA RightNext ==
  ASSUME BlockCount <= PosRange
  PROVE  Right /\ [CautiousNext]_dvars => Right'
<1> SUFFICES ASSUME Right, [CautiousNext]_dvars PROVE Right'
  OBVIOUS
<1>1. Sound' /\ [DNext]_dvars
  BY SoundNext DEF Right, CautiousNext
<1>2. Few'
  BY <1>1, FewStep DEF Right, Sound
<1>3. GatherOK'
  BY <1>1, GatherNext DEF Right, Few
<1> QED BY <1>1, <1>2, <1>3 DEF Right

LEMMA RightInit == DInit => Right
<1> SUFFICES ASSUME DInit PROVE Right
  OBVIOUS
<1>1. Sound /\ Few
  BY CInvInit, FewInit DEF Sound
<1>2. GatherOK
  BY ContentInit, FreshDf DEF DInit, GatherOK
<1> QED BY <1>1, <1>2 DEF Right

LEMMA RightAlways ==
  ASSUME BlockCount <= PosRange
  PROVE  CautiousSpec => []Right
<1>1. CautiousSpec => DInit /\ [][CautiousNext]_dvars
  BY DEF CautiousSpec, CautiousNext
<1> QED BY <1>1, RightInit, RightNext, PTL

LEMMA LengthsFound == Right => BlocksMatchLength
<1> SUFFICES ASSUME Right PROVE BlocksMatchLength
  OBVIOUS
<1>1. CASE df.phase = "idle"
  BY <1>1 DEF Right, GatherOK, ContentOK, StoredOK, Complete, BlocksMatchLength
<1> QED BY <1>1 DEF Right, GatherOK

\* Every file keeps the number of blocks that its length needs, through every
\* defragmentation: imffs_load never runs out of clusters, and the next
\* defragmentation may take it for granted (a5_imffs.c, 729, 831 to 869).
THEOREM LengthsStillMatch ==
  ASSUME BlockCount <= PosRange
  PROVE  CautiousSpec => []BlocksMatchLength
<1> QED BY RightAlways, LengthsFound, PTL

LEMMA OwnersCounted == Right => OwnersConserved
<1> SUFFICES ASSUME Right, InDefrag, NEW f \in Keyed
             PROVE  Cardinality({b \in Blocks : df.owners[b] = f}) = Len(BlocksOf(f))
  BY DEF OwnersConserved
<1>1. /\ f \in FileIds /\ f # sv.file /\ heap[f] # NULL /\ Gathers(f) /\ BlocksMatchLength
  BY NullAssumption
  DEF Right, GatherOK, InDefrag, Sound, DLocal, DfOK, Keyed, Clean, NullAssumption
<1>2. PICK d \in DiskFiles : Complete(InOrder(Places(f)), heap[f].byte_len, d)
  BY <1>1 DEF Gathers
<1>3. Len(InOrder(Places(f))) = Cardinality(Places(f))
  BY PlacesTypes, InOrderAscends
<1>4. Len(BlocksOf(f)) = BlocksFor(heap[f].byte_len)
  BY <1>1 DEF BlocksMatchLength
<1> QED BY <1>2, <1>3, <1>4 DEF Complete, Places

\* At every move (lines 783 to 826) each file still owns as many blocks as it has.
THEOREM OwnersAreConserved ==
  ASSUME BlockCount <= PosRange
  PROVE  CautiousSpec => []OwnersConserved
<1> QED BY RightAlways, OwnersCounted, PTL

LEMMA HeapStep ==
  ASSUME Right, ~MallocMayFail, HeapExact, [CautiousNext]_dvars
  PROVE  HeapExact'
<1>0. DLocal /\ LocalOK /\ FewPlaces /\ GatherOK /\ [DNext]_dvars
  BY DEF Right, Sound, DLocal, Few, CautiousNext
<1>1. CASE [Next]_vars
  BY <1>0, <1>1, HeapExactNext
<1>2. CASE Finished
  <2>1. Keyed' = Keyed /\ UNCHANGED <<heap, sv>>
    BY <1>0, <1>2, FinishKeepsPlaces DEF Finished
  <2> QED BY <2>1 DEF HeapExact
<1>3. CASE UNCHANGED <<used, index, heap, sv>>
  BY <1>3 DEF HeapExact, Keyed
<1> QED BY <1>0, <1>1, <1>2, <1>3, IndexSteps

LEMMA HeapStillExactAlways ==
  ASSUME BlockCount <= PosRange, ~MallocMayFail
  PROVE  CautiousSpec => []HeapExact
<1>1. CautiousSpec => DInit /\ [][CautiousNext]_dvars
  BY DEF CautiousSpec, CautiousNext
<1>2. DInit => HeapExact
  BY DEF DInit, Init, HeapExact, Keyed, Idle
<1>3. Right /\ HeapExact /\ [CautiousNext]_dvars => HeapExact'
  BY HeapStep
<1> QED BY <1>1, <1>2, <1>3, RightAlways, PTL

\* No defragmentation loses a File or leaves one in the index twice: as long as no
\* malloc fails, the Files on the heap are the keys of the index that it rebuilds
\* (lines 847 to 876) and the File that is being saved.
THEOREM HeapStillExact ==
  ASSUME BlockCount <= PosRange
  PROVE  CautiousSpec => [](MallocMayFail \/ HeapExact)
<1>1. CASE MallocMayFail
  BY <1>1, PTL
<1>2. CASE ~MallocMayFail
  BY <1>2, HeapStillExactAlways, PTL
<1> QED BY <1>1, <1>2

-----------------------------------------------------------------------------
(* A defragmentation changes nothing of what is stored *)

DStore == [k \in StoreKeys |-> DContentAt(k)]

\* What a file gives back, whether its blocks are those of the index or are moving.
Yields(f) == IF df.phase = "idle" THEN Output(f) ELSE Gathered(f)

LEMMA ChosenContent ==
  \A k, f : FilesAt(k) # {} /\ f = (CHOOSE g \in FilesAt(k) : TRUE) => DContentAt(k) = Yields(f)
BY DEF DContentAt, ContentAt, Yields

LEMMA ChosenContentNext ==
  \A k, f : FilesAt(k)' # {} /\ f = (CHOOSE g \in FilesAt(k)' : TRUE)
             => DContentAt(k)' = Yields(f)'
<1>1. (\A k, f : FilesAt(k) # {} /\ f = (CHOOSE g \in FilesAt(k) : TRUE)
                 => DContentAt(k) = Yields(f))'
  BY ChosenContent, PTL
<1> QED BY <1>1

LEMMA DStoreKept ==
  ASSUME Keyed' = Keyed, UNCHANGED <<heap, sv>>,
         \A f \in Keyed : Yields(f)' = Yields(f)
  PROVE  DStore' = DStore
<1>1. ASSUME NEW k \in StoreKeys PROVE DContentAt(k)' = DContentAt(k)
  <2>1. FilesAt(k)' = FilesAt(k)
    BY DEF FilesAt
  <2>2. CASE FilesAt(k) = {}
    BY <2>1, <2>2 DEF DContentAt, ContentAt
  <2>3. CASE FilesAt(k) # {}
    <3>1. PICK f \in Keyed : f = CHOOSE g \in FilesAt(k) : TRUE
      <4>1. (CHOOSE g \in FilesAt(k) : TRUE) \in FilesAt(k)
        BY <2>3
      <4> QED BY <4>1 DEF FilesAt
    <3>2. f = CHOOSE g \in FilesAt(k)' : TRUE
      BY <2>1, <3>1
    <3>3. DContentAt(k) = Yields(f)
      BY <2>3, <3>1, ChosenContent
    <3>4. DContentAt(k)' = Yields(f)'
      BY <2>1, <2>3, <3>2, ChosenContentNext
    <3> QED BY <3>3, <3>4
  <2> QED BY <2>2, <2>3
<1> QED BY <1>1 DEF DStore

\* The chunks of a file, given its blocks in order.
Chunked(bytes, blocks) ==
  [bytes |-> bytes,
   chunks |-> [i \in 1 .. Lesser(Len(blocks), BlocksWithBytes(bytes)) |-> data[blocks[i]]]]

LEMMA YieldsChunks ==
  \A f : Output(f) = Chunked(heap[f].byte_len, BlocksOf(f))
         /\ Gathered(f) = Chunked(heap[f].byte_len, InOrder(Places(f)))
BY DEF Output, Gathered, Chunked, Places

LEMMA YieldsChunksNext ==
  \A f : /\ Output(f)' = [bytes |-> heap'[f].byte_len,
              chunks |-> [i \in 1 .. Lesser(Len(BlocksOf(f)'), BlocksWithBytes(heap'[f].byte_len))
                            |-> data'[BlocksOf(f)'[i]]]]
         /\ Gathered(f)' = [bytes |-> heap'[f].byte_len,
              chunks |-> [i \in 1 .. Lesser(Len(InOrder(Places(f)')), BlocksWithBytes(heap'[f].byte_len))
                            |-> data'[InOrder(Places(f)')[i]]]]
BY DEF Output, Gathered, Places, BlocksWithBytes, Lesser, InOrder

LEMMA YieldsAtStart ==
  ASSUME BlockCount <= PosRange, DLocal, CInv, ClustersAscend, DefragStart
  PROVE  \A f \in Keyed : Yields(f)' = Yields(f)
<1>1. /\ UNCHANGED <<data, index, heap, sv>> /\ Clean
      /\ df.phase = "idle" /\ df'.phase = "seek" /\ df'.owners = Owners
  BY FreshDefrag DEF DefragStart, Ready
<1> SUFFICES ASSUME NEW f \in Keyed PROVE Gathered(f)' = Output(f)
  BY <1>1 DEF Yields
<1>2. f \in FileIds
  BY DEF Keyed
<1>3. Places(f)' = Owned(f)
  BY <1>1, <1>2, OwnersAtStart DEF Places, DLocal, CInv
<1>4. InOrder(Places(f)') = BlocksOf(f)
  <2>1. BlocksOf(f) = InOrder(Owned(f))
    BY <1>2, BlocksInOrder
  <2> QED BY <1>3, <2>1
<1> QED BY <1>1, <1>4, YieldsChunks, YieldsChunksNext DEF Chunked

LEMMA YieldsMoved ==
  ASSUME LocalOK, Clean, df.phase # "idle", df'.phase # "idle", MovesWhole, UNCHANGED heap
  PROVE  \A f \in Keyed : Yields(f)' = Yields(f)
<1> SUFFICES ASSUME NEW f \in Keyed PROVE Gathered(f)' = Gathered(f)
  BY DEF Yields
<1> DEFINE s == InOrder(Places(f))
           t == InOrder(Places(f)')
           all == BlocksWithBytes(heap[f].byte_len)
           n == Lesser(Len(s), all)
<1>1. f # NULL
  BY NullAssumption DEF Keyed, NullAssumption
<1>2. Len(t) = Len(s) /\ \A i \in 1 .. Len(s) : data'[t[i]] = data[s[i]]
  BY <1>1, MovedInOrder
<1>3. Len(s) \in Nat
  BY PlacesTypes, InOrderAscends
<1>4. Gathered(f) = [bytes |-> heap[f].byte_len, chunks |-> [i \in 1 .. n |-> data[s[i]]]]
  BY YieldsChunks DEF Chunked
<1>5. Gathered(f)' = [bytes |-> heap[f].byte_len, chunks |-> [i \in 1 .. n |-> data'[t[i]]]]
  <2>1. Gathered(f)' =
          [bytes |-> heap[f].byte_len, chunks |-> [i \in 1 .. Lesser(Len(t), all) |-> data'[t[i]]]]
    BY YieldsChunksNext
  <2> HIDE DEF s, t, all
  <2> QED BY <1>2, <2>1
<1>6. \A i \in 1 .. n : i \in 1 .. Len(s)
  <2>1. heap[f].byte_len \in Nat /\ BytesPerBlock \in Nat \ {0}
    BY BytesPerBlockAssumption
    DEF Keyed, Clean, LocalOK, TypeOK, FileRecord, BytesPerBlockAssumption
  <2>2. all \in Nat
    BY <2>1, FewerFilled DEF BlocksWithBytes
  <2> HIDE DEF s, all
  <2> QED BY <1>3, <2>2 DEF Lesser
<1> HIDE DEF n, s, t
<1>7. [i \in 1 .. n |-> data[s[i]]] = [i \in 1 .. n |-> data'[t[i]]]
  BY <1>2, <1>6
<1> QED BY <1>4, <1>5, <1>7

LEMMA YieldsAtFinish ==
  ASSUME DLocal, FewPlaces, GatherOK, Finished, CInv', ClustersAscend'
  PROVE  \A f \in Keyed : Yields(f)' = Yields(f)
<1>1. /\ UNCHANGED <<data, heap>> /\ df.phase # "idle" /\ df'.phase = "idle"
  BY FreshDf DEF Finished, DefragFinish, InDefrag
<1> SUFFICES ASSUME NEW f \in Keyed PROVE Output(f)' = Gathered(f)
  BY <1>1 DEF Yields
<1>2. f \in FileIds /\ Owned(f)' = Places(f)
  BY FinishKeepsPlaces DEF Keyed
<1>3. BlocksOf(f)' = InOrder(Places(f))
  <2>1. BlocksOf(f)' = InOrder(Owned(f)')
    BY <1>2, BlocksInOrderNext
  <2> QED BY <1>2, <2>1
<1> QED BY <1>1, <1>3, YieldsChunks, YieldsChunksNext DEF Chunked

DefragStep == DFS!LossyNext \/ UNCHANGED DFS!vars

LEMMA StoreAtRest ==
  /\ df.phase = "idle" => DStore = Store
  /\ df'.phase = "idle" => DStore' = Store'
<1>1. df.phase = "idle" => DStore = Store
  BY DEF DStore, Store, DContentAt
<1>2. (df.phase = "idle" => DStore = Store)'
  BY <1>1, PTL
<1> QED BY <1>1, <1>2

\* At rest the two stores are one.
LEMMA StepAtRest ==
  ASSUME StoreStep, DStore = Store, DStore' = Store'
  PROVE  DefragStep
<1>1. CASE UNCHANGED FS!vars
  BY <1>1 DEF FS!vars, DFS!vars, DStore, DefragStep
<1>2. ASSUME FS!Accept PROVE DFS!Next
  BY <1>2 DEF FS!Accept, DFS!Accept, DFS!Next, DStore, FS!NoReply, DFS!NoReply,
              FS!Reply, DFS!Reply, FS!NoOutput, DFS!NoOutput
<1>3. ASSUME NEW op \in {"save", "load", "delete", "rename", "defrag"},
             NEW k \in StoreKeys \cup {NULL}, FS!Refuse(op, k)
      PROVE  DFS!Next
  BY <1>3 DEF FS!Refuse, DFS!Refuse, DFS!Next, DStore,
              FS!Reply, DFS!Reply, FS!NoOutput, DFS!NoOutput
<1>4. FS!Stored = DFS!Stored
  BY DEF FS!Stored, DFS!Stored, DStore
<1>5. ASSUME NEW k \in StoreKeys, FS!Save(k) PROVE DFS!Save(k)
  BY <1>4, <1>5 DEF FS!Save, DFS!Save, DStore, Contents,
              FS!Reply, DFS!Reply, FS!NoOutput, DFS!NoOutput
<1>6. ASSUME NEW k \in StoreKeys, FS!SaveRolledBack(k) \/ FS!Load(k) \/ FS!Delete(k)
      PROVE  DFS!SaveRolledBack(k) \/ DFS!Load(k) \/ DFS!Delete(k)
  BY <1>4, <1>6 DEF FS!SaveRolledBack, DFS!SaveRolledBack, FS!Load, DFS!Load, FS!Delete, DFS!Delete,
              DStore, FS!Reply, DFS!Reply, FS!NoOutput, DFS!NoOutput
<1>7. ASSUME NEW old \in StoreKeys, NEW new \in StoreKeys
      PROVE  /\ FS!Rename(old, new) => DFS!Rename(old, new)
             /\ FS!RenameLosesFile(old, new) => DFS!RenameLosesFile(old, new)
  BY <1>4, <1>7 DEF FS!Rename, DFS!Rename, FS!RenameLosesFile, DFS!RenameLosesFile,
              DStore, FS!Reply, DFS!Reply, FS!NoOutput, DFS!NoOutput
<1>8. ASSUME FS!List PROVE DFS!List
  BY <1>4, <1>8 DEF FS!List, DFS!List, DStore, FS!Reply, DFS!Reply, FS!NoOutput, DFS!NoOutput
<1>9. ASSUME FS!Defragment \/ FS!Destroy PROVE DFS!Defragment \/ DFS!Destroy
  BY <1>9 DEF FS!Defragment, DFS!Defragment, FS!Destroy, DFS!Destroy,
              DStore, FS!Reply, DFS!Reply, FS!NoOutput, DFS!NoOutput
<1>10. CASE FS!Next
  BY <1>2, <1>3, <1>5, <1>6, <1>7, <1>8, <1>9, <1>10 DEF FS!Next, DFS!Next, DFS!LossyNext, DefragStep
<1>11. CASE \E old, new \in StoreKeys : FS!RenameLosesFile(old, new)
  BY <1>7, <1>11 DEF DFS!LossyNext, DefragStep
<1> QED BY <1>1, <1>10, <1>11 DEF StoreStep, FS!LossyNext

LEMMA YieldsFrame ==
  ASSUME UNCHANGED <<data, index, heap, df>>
  PROVE  \A f \in Keyed : Yields(f)' = Yields(f)
BY DEF Yields, Output, Gathered, BlocksOf, InOrder

LEMMA DeviceAtRest ==
  ASSUME UNCHANGED <<data, index, heap, sv, df>>
  PROVE  DStore' = DStore
<1>1. Keyed' = Keyed
  BY DEF Keyed
<1> QED BY <1>1, YieldsFrame, DStoreKept

LEMMA DefragAnswered ==
  ASSUME NEW result, reply' = Reply("defrag", NULL, result)
  PROVE  Answer' = DFS!Reply("defrag", NULL, result, DFS!NoOutput)
BY NullKey DEF Answer, Reply, DFS!Reply, NoOutput, DFS!NoOutput

\* Every step of a device with positions that fit is a step of its store.
LEMMA DefragSimulates ==
  ASSUME BlockCount <= PosRange, Right, Right', NamesUnique, NamesUnique', [DNext]_dvars
  PROVE  DefragStep
<1>0. /\ DLocal /\ LocalOK /\ CInv /\ ClustersAscend /\ FewPlaces /\ GatherOK
      /\ CInv' /\ ClustersAscend' /\ GatherOK'
  BY DEF Right, Sound, DLocal, Few
<1>1. ASSUME UNCHANGED <<data, index, heap, sv, reply, df>> PROVE DefragStep
  BY <1>1, DeviceAtRest DEF DefragStep, DFS!vars, DStore, Answer
<1>2. CASE DefragStart
  <2>1. DStore' = DStore
    <3>1. \A f \in Keyed : Yields(f)' = Yields(f)
      BY <1>0, <1>2, YieldsAtStart
    <3> QED BY <1>2, <3>1, DStoreKept DEF DefragStart, Keyed
  <2>2. Answer' = DFS!NoReply
    BY <1>2, NullKey
    DEF DefragStart, NoReply, Answer, Reply, DFS!NoReply, DFS!Reply, NoOutput, DFS!NoOutput
  <2> QED BY <2>1, <2>2 DEF DFS!Accept, DFS!Next, DFS!LossyNext, DefragStep, DStore
<1>3. CASE DefragUnready
  <2>1. DStore' = DStore
    BY <1>3, DeviceAtRest DEF DefragUnready, Refuse
  <2>2. Answer' = DFS!Reply("defrag", NULL, "ERROR", DFS!NoOutput)
    BY <1>3, DefragAnswered DEF DefragUnready, Refuse
  <2> QED BY <2>1, <2>2 DEF DFS!Refuse, DFS!Next, DFS!LossyNext, DefragStep, DStore
<1>4. CASE DefragSeek \/ FileCompacted \/ \E p \in Blocks : KeepBlock(p) \/ CopyBlock(p) \/ ShiftBlocks(p)
  <2>1. UNCHANGED <<index, heap, sv, reply>> /\ InDefrag /\ DNext
    BY <1>4 DEF DefragSeek, FileCompacted, KeepBlock, CopyBlock, ShiftBlocks, NextOwned, Halt, vars,
                DNext, Compact
  <2>2. df'.phase # "idle"
    BY <1>0, <1>4, <2>1
    DEF DefragSeek, FileCompacted, KeepBlock, CopyBlock, ShiftBlocks, NextOwned, Placed,
        DLocal, DfOK, InDefrag
  <2>3. MovesWhole
    BY <1>0, <1>4, <2>1, <2>2, MovesWholeNext, Stays DEF DLocal, dvars, vars
  <2>4. \A f \in Keyed : Yields(f)' = Yields(f)
    BY <1>0, <2>1, <2>2, <2>3, YieldsMoved DEF InDefrag, GatherOK
  <2>5. DStore' = DStore
    BY <2>1, <2>4, DStoreKept DEF Keyed
  <2> QED BY <2>1, <2>5 DEF DefragStep, DFS!vars, DStore, Answer
<1>5. CASE Finished
  <2>1. DStore' = DStore
    <3>1. \A f \in Keyed : Yields(f)' = Yields(f)
      BY <1>0, <1>5, YieldsAtFinish
    <3>2. Keyed' = Keyed
      BY <1>0, <1>5, FinishKeepsPlaces
    <3> QED BY <1>5, <3>1, <3>2, DStoreKept DEF Finished
  <2>2. Answer' = DFS!Reply("defrag", NULL, "OK", DFS!NoOutput)
    BY <1>5, DefragAnswered DEF Finished
  <2> QED BY <2>1, <2>2 DEF DFS!Defragment, DFS!Next, DFS!LossyNext, DefragStep, DStore
<1>6. CASE Other
  <2>1. CASE status # "running"
    <3>1. UNCHANGED vars
      BY <1>6, <2>1, StoppedStays DEF Other
    <3> QED BY <1>1, <1>6, <3>1 DEF vars, Other
  <2>2. CASE df.phase = "idle"
    <3>1. df'.phase = "idle" /\ [Next]_vars
      BY <1>6, <2>2 DEF Other
    <3>2. ContentOK /\ ContentOK'
      BY <1>0, <2>2, <3>1 DEF GatherOK
    <3>3. StoreStep
      BY <1>0, <3>1, <3>2, StoreReads, StoreReadsNext, StoreSimulates
    <3> QED BY <2>2, <3>1, <3>3, StoreAtRest, StepAtRest
  <2> QED BY <1>6, <2>1, <2>2 DEF Other
<1>7. CASE DefragAborts \/ UNCHANGED dvars
  BY <1>1, <1>7 DEF DefragAborts, Halt, dvars, vars
<1>8. CASE DefragFinish
  <2>1. CASE CheckFails
    BY <1>1, <2>1 DEF CheckFails, Halt
  <2> QED BY <1>5, <1>8, <2>1, FinishedOrNot
<1> QED BY <1>2, <1>3, <1>4, <1>6, <1>7, <1>8 DEF DNext, Compact

LEMMA DefragStarts ==
  ASSUME DInit
  PROVE  DFS!Init
<1>1. FS!Init /\ DStore = Store
  BY StoreStarts, StoreAtRest, FreshDf DEF DInit
<1> QED BY <1>1 DEF FS!Init, DFS!Init, DStore, FS!NoReply, DFS!NoReply,
                    FS!Reply, DFS!Reply, FS!NoOutput, DFS!NoOutput

\* imffs with its defragmentation is at every step a FileStore, or one that has just
\* lost the file of a rename.
THEOREM DefragLosesOnlyByRenameHolds ==
  ASSUME BlockCount <= PosRange
  PROVE  CautiousSpec => DefragLosesOnlyByRename
<1>1. CautiousSpec => DInit /\ [][DNext]_dvars
  BY PTL DEF CautiousSpec, CautiousNext
<1>2. DInit => DFS!Init
  BY DefragStarts
<1>3. Right /\ Right' /\ NamesUnique /\ NamesUnique' /\ [DNext]_dvars
      => [DFS!LossyNext]_(DFS!vars)
  BY DefragSimulates DEF DefragStep
<1> QED BY <1>1, <1>2, <1>3, RightAlways, NamesStillUnique, PTL
    DEF DSpec, DefragLosesOnlyByRename, DFS!LossySpec

\* With memory, imffs with its defragmentation implements a FileStore: no move of a
\* block changes what any file holds, the index and the marks that are rebuilt give
\* every file back whole under its name, and every other operation does what it does
\* without a defragmentation (imffs_defrag, lines 690 to 893).
THEOREM FilesSurviveDefrag ==
  ASSUME BlockCount <= PosRange, ~MallocMayFail
  PROVE  CautiousSpec => DefragKeepsFiles
<1>1. [DFS!LossyNext]_(DFS!vars) => [DFS!Next]_(DFS!vars)
  BY DEF DFS!LossyNext, DFS!RenameLosesFile
<1> QED BY <1>1, DefragLosesOnlyByRenameHolds, PTL
    DEF DefragLosesOnlyByRename, DFS!LossySpec, DefragKeepsFiles, DFS!Spec

-----------------------------------------------------------------------------
(* The files keep their order while their blocks move *)

Leads(f, g) == \E b \in Places(f) : \A c \in Places(g) : b < c

Ordered ==
  \A f, g \in FileIds :
    f # g /\ Places(f) # {} /\ index[f][1].start < index[g][1].start => Leads(f, g)

\* The file that is moved has a block before every one that is left.
FirstOfRest ==
  df.phase = "move" => \E c \in Places(df.curr_file) : \A b \in Rest : c <= b

OrderOK == df.phase # "idle" => Ordered /\ FirstOfRest

LEMMA FirstBlock ==
  ASSUME LocalOK, ClustersAscend, NEW f \in FileIds, Owned(f) # {}
  PROVE  /\ index[f][1].start \in Owned(f)
         /\ \A b \in Owned(f) : index[f][1].start <= b
<1>1. PICK b \in Owned(f) : TRUE
  OBVIOUS
<1>2. PICK i \in DOMAIN index[f] : Covers(index[f][i], b)
  BY <1>1 DEF Owned
<1>3. /\ Len(index[f]) \in Nat /\ DOMAIN index[f] = 1 .. Len(index[f])
      /\ \A j \in DOMAIN index[f] : index[f][j].start \in Nat /\ index[f][j].num \in Nat
  BY ClusterTypes
<1>4. 1 \in DOMAIN index[f]
  BY <1>2, <1>3
<1>5. \A j \in DOMAIN index[f] : index[f][1].start <= index[f][j].start
  <2> SUFFICES ASSUME NEW j \in DOMAIN index[f], j # 1
               PROVE  index[f][1].start <= index[f][j].start
    BY <1>3, <1>4
  <2>1. 1 < j
    BY <1>3
  <2>2. index[f][1].start + index[f][1].num < index[f][j].start
    BY <1>4, <2>1, ClustersFurther
  <2> QED BY <1>3, <1>4, <2>2
<1>6. ASSUME NEW c \in Owned(f) PROVE index[f][1].start <= c
  <2>1. PICK j \in DOMAIN index[f] : Covers(index[f][j], c)
    BY DEF Owned
  <2>2. c \in Nat
    BY BlockCountAssumption DEF Owned, Blocks, BlockCountAssumption
  <2> QED BY <1>3, <1>4, <1>5, <2>1, <2>2 DEF Covers
<1>7. index[f][1].num > 0 /\ index[f][1].start + index[f][1].num <= BlockCount
  BY <1>4 DEF LocalOK, OnDevice
<1>8. index[f][1].start \in Blocks /\ Covers(index[f][1], index[f][1].start)
  BY <1>3, <1>4, <1>7, BlockCountAssumption DEF Covers, Blocks, BlockCountAssumption
<1> QED BY <1>4, <1>6, <1>8 DEF Owned

LEMMA OrderStart ==
  ASSUME BlockCount <= PosRange, DLocal, CInv, ClustersAscend, DefragStart
  PROVE  OrderOK'
<1>1. /\ UNCHANGED index /\ Clean /\ df'.phase = "seek" /\ df'.owners = Owners
  BY FreshDefrag DEF DefragStart, Ready
<1>2. \A f \in FileIds : Places(f)' = Owned(f)
  BY <1>1, OwnersAtStart DEF Places, DLocal, CInv
<1>3. ASSUME NEW f \in FileIds, NEW g \in FileIds, Owned(f) # {},
             index[f][1].start < index[g][1].start
      PROVE  \E b \in Owned(f) : \A c \in Owned(g) : b < c
  <2>1. LocalOK
    BY DEF DLocal
  <2>2. index[f][1].start \in Owned(f)
    BY <1>3, <2>1, FirstBlock
  <2>3. ASSUME NEW c \in Owned(g) PROVE index[f][1].start < c
    <3>1. index[g][1].start \in Owned(g) /\ index[g][1].start <= c
      BY <2>1, <2>3, FirstBlock
    <3>2. index[f][1].start \in Nat /\ index[g][1].start \in Nat /\ c \in Nat
      BY <2>2, <3>1, BlockCountAssumption DEF Owned, Blocks, BlockCountAssumption
    <3> QED BY <1>3, <3>1, <3>2
  <2> QED BY <2>2, <2>3
<1>4. Ordered'
  BY <1>1, <1>2, <1>3 DEF Ordered, Leads
<1> QED BY <1>1, <1>4 DEF OrderOK, FirstOfRest

\* The steps that move nothing.
LEMMA OrderFrame ==
  ASSUME OrderOK, UNCHANGED <<index, df>>
  PROVE  OrderOK'
BY DEF OrderOK, Ordered, Leads, FirstOfRest, Places, Rest

\* What is known of the place p of the next block and of the place q it goes to.
LEMMA MoveKnown ==
  ASSUME DLocal, OrderOK, NEW p \in Blocks, NextOwned(p)
  PROVE  /\ df.phase = "move" /\ df.curr_file \in FileIds /\ df.curr_file # NULL
         /\ df.curr_file_block \in Blocks /\ df.curr_file_block <= p
         /\ df.owners[p] = df.curr_file
         /\ \A b \in Blocks :
              df.curr_file_block <= b /\ b < p => df.owners[b] # df.curr_file
         /\ Ordered
         /\ \E c \in Places(df.curr_file) : \A b \in Rest : c <= b
<1>1. /\ MoveOK /\ df.phase = "move"
  BY DEF DLocal, DInv, NextOwned
<1>2. df.curr_file \in FileIds /\ df.curr_file # NULL
  BY <1>1 DEF MoveOK, DLocal, DfOK
<1> QED BY <1>1, <1>2, NextIsAhead DEF Blocks, OrderOK, FirstOfRest

\* A file that leads the one that is moved does so by a block behind which no
\* move goes.
LEMMA LeaderStays ==
  ASSUME DLocal, OrderOK, NEW p \in Blocks, NextOwned(p),
         NEW f \in FileIds, f # df.curr_file, Leads(f, df.curr_file)
  PROVE  \E b \in Places(f) : b < df.curr_file_block /\ \A c \in Places(df.curr_file) : b < c
<1>1. PICK b \in Places(f) : \A c \in Places(df.curr_file) : b < c
  BY DEF Leads
<1>2. PICK c0 \in Places(df.curr_file) : \A c \in Rest : c0 <= c
  BY MoveKnown
<1>3. b \in Blocks /\ df.owners[b] # NULL
  BY NullAssumption DEF Places, NullAssumption
<1>4. b \in Nat /\ c0 \in Nat /\ df.curr_file_block \in Nat /\ b < c0
  BY <1>1, <1>2, <1>3, MoveKnown, BlockCountAssumption DEF Places, Blocks, BlockCountAssumption
<1>5. b < df.curr_file_block
  <2> SUFFICES ASSUME df.curr_file_block <= b PROVE FALSE
    BY <1>4
  <2>1. b \in Rest
    BY <1>3, <1>4, BlockCountAssumption DEF Rest, Blocks, BlockCountAssumption
  <2> QED BY <1>2, <1>4, <2>1
<1> QED BY <1>1, <1>5

LEMMA CopyKeepsOrder ==
  ASSUME DLocal, OrderOK, NEW p \in Blocks, CopyBlock(p)
  PROVE  Ordered'
<1>0. PICK q, curr : q = df.curr_file_block /\ curr = df.curr_file
  OBVIOUS
<1>1. /\ NextOwned(p) /\ Target = NULL /\ index' = index
      /\ df'.owners = [df.owners EXCEPT ![q] = curr, ![p] = NULL]
  BY <1>0 DEF CopyBlock, Placed, DLocal, DInv, MoveOK
<1>2. /\ curr \in FileIds /\ curr # NULL /\ q \in Blocks /\ q <= p /\ Ordered
      /\ df.owners[p] = curr /\ df.owners[q] = NULL /\ p # q
      /\ df.owners = [b \in Blocks |-> df.owners[b]]
  BY <1>0, <1>1, MoveKnown DEF Target, DLocal, DInv, MoveOK
<1>3. /\ \A b \in Places(curr) : b # p => b \in Places(curr)'
      /\ \A b \in Places(curr)' : b = q \/ (b \in Places(curr) /\ b # p)
      /\ q \in Places(curr)' /\ p \in Places(curr)
      /\ \A f : f # NULL /\ f # curr => Places(f)' = Places(f)
  BY <1>1, <1>2 DEF Places
<1>4. p \in Nat /\ q \in Nat /\ Blocks \in SUBSET Nat
  BY <1>2, BlockCountAssumption DEF Blocks, BlockCountAssumption
<1> SUFFICES ASSUME NEW f \in FileIds, NEW g \in FileIds, f # g, Places(f)' # {},
                    index[f][1].start < index[g][1].start
             PROVE  \E b \in Places(f)' : \A c \in Places(g)' : b < c
  BY <1>1 DEF Ordered, Leads
<1>5. f # NULL /\ g # NULL
  BY NullAssumption DEF NullAssumption
<1>6. Places(f) # {}
  BY <1>3, <1>5
<1>7. Leads(f, g)
  BY <1>2, <1>6 DEF Ordered
<1>8. CASE f = curr
  <2>1. PICK b \in Places(curr) : \A c \in Places(g) : b < c
    BY <1>7, <1>8 DEF Leads
  <2>2. Places(g)' = Places(g) /\ Places(g) \in SUBSET Nat
    BY <1>3, <1>5, <1>8, PlacesTypes
  <2>3. CASE b = p
    BY <1>2, <1>3, <1>4, <1>8, <2>1, <2>2, <2>3
  <2> QED BY <1>3, <1>8, <2>1, <2>2, <2>3
<1>9. CASE g = curr
  <2>1. PICK b \in Places(f) : b < q /\ \A c \in Places(curr) : b < c
    BY <1>1, <1>7, <1>9, LeaderStays, <1>0
  <2> QED BY <1>3, <1>5, <1>9, <2>1
<1>10. CASE f # curr /\ g # curr
  BY <1>3, <1>5, <1>7, <1>10 DEF Leads
<1> QED BY <1>8, <1>9, <1>10

LEMMA ShiftKeepsOrder ==
  ASSUME DLocal, OrderOK, NEW p \in Blocks, ShiftBlocks(p)
  PROVE  Ordered'
<1>0. PICK q, curr : q = df.curr_file_block /\ curr = df.curr_file
  OBVIOUS
<1> DEFINE Up(b) == IF q <= b /\ b < p THEN b + 1 ELSE b
<1>1. /\ NextOwned(p) /\ index' = index /\ df'.owners = Shifted(df.owners, p, q)
  BY <1>0 DEF ShiftBlocks, Placed, DLocal, DInv, MoveOK
<1>2. /\ curr \in FileIds /\ curr # NULL /\ q \in Blocks /\ q <= p /\ Ordered
      /\ df.owners[p] = curr
      /\ \A b \in Blocks : q <= b /\ b < p => df.owners[b] # curr
  BY <1>0, <1>1, MoveKnown
<1>3. /\ p \in Nat /\ q \in Nat /\ Blocks \in SUBSET Nat
      /\ \A b \in Blocks : b > 0 => b - 1 \in Blocks
      /\ \A b \in Blocks : b < p => b + 1 \in Blocks
  BY <1>2, BlockCountAssumption DEF Blocks, BlockCountAssumption
<1>4. \A b \in Blocks : df'.owners[b] = IF b = q THEN curr
                                       ELSE IF q < b /\ b <= p THEN df.owners[b - 1]
                                       ELSE df.owners[b]
  BY <1>1, <1>2 DEF Shifted
<1> HIDE DEF Blocks
<1>5. /\ \A b \in Places(curr) : b # p => b \in Places(curr)'
      /\ \A b \in Places(curr)' : b = q \/ (b \in Places(curr) /\ b # p)
      /\ q \in Places(curr)' /\ p \in Places(curr)
  <2>1. ASSUME NEW b \in Places(curr), b # p PROVE b \in Places(curr)'
    <3>1. b \in Blocks /\ df.owners[b] = curr
      BY DEF Places
    <3>2. ~(q < b /\ b <= p)
      BY <1>2, <1>3, <2>1, <3>1
    <3> QED BY <1>4, <3>1, <3>2 DEF Places
  <2>2. ASSUME NEW b \in Places(curr)', b # q PROVE b \in Places(curr) /\ b # p
    <3>1. b \in Blocks /\ df'.owners[b] = curr
      BY DEF Places
    <3>2. ~(q < b /\ b <= p)
      <4> SUFFICES ASSUME q < b, b <= p PROVE FALSE
        OBVIOUS
      <4>1. b - 1 \in Blocks /\ q <= b - 1 /\ b - 1 < p
        BY <1>3, <3>1
      <4>2. df'.owners[b] = df.owners[b - 1]
        BY <1>4, <2>2, <3>1
      <4>3. df.owners[b - 1] # curr
        BY <1>2, <4>1
      <4> QED BY <3>1, <4>2, <4>3
    <3>3. b # p
      BY <1>2, <1>3, <2>2, <3>2
    <3>4. df'.owners[b] = df.owners[b]
      BY <1>4, <2>2, <3>1, <3>2
    <3> QED BY <3>1, <3>3, <3>4 DEF Places
  <2>3. q \in Places(curr)' /\ p \in Places(curr)
    BY <1>2, <1>4 DEF Places
  <2> QED BY <2>1, <2>2, <2>3
<1>6. ASSUME NEW f, f # NULL, f # curr
      PROVE  /\ \A b \in Places(f) : Up(b) \in Places(f)'
             /\ \A c \in Places(f)' : \E b \in Places(f) : c = Up(b)
  <2>1. ASSUME NEW b \in Places(f) PROVE Up(b) \in Places(f)'
    <3>1. b \in Blocks /\ df.owners[b] = f /\ b # p
      BY <1>2, <1>6 DEF Places
    <3>2. CASE q <= b /\ b < p
      <4>1. b + 1 \in Blocks /\ q < b + 1 /\ b + 1 <= p /\ b + 1 # q /\ b + 1 - 1 = b
        BY <1>3, <3>1, <3>2
      <4>2. PICK d : d = b + 1
        OBVIOUS
      <4>3. d \in Blocks /\ q < d /\ d <= p /\ d # q /\ d - 1 = b
        <5>1. b \in Nat
          BY <1>3, <3>1
        <5> QED BY <4>1, <4>2, <5>1
      <4>4. d \in Places(f)'
        BY <1>4, <3>1, <4>3 DEF Places
      <4> QED BY <3>2, <4>2, <4>4
    <3>3. CASE ~(q <= b /\ b < p)
      <4>1. b # q /\ ~(q < b /\ b <= p)
        BY <1>2, <1>3, <3>1, <3>3
      <4> QED BY <1>4, <3>1, <3>3, <4>1 DEF Places
    <3> QED BY <3>2, <3>3
  <2>2. ASSUME NEW c \in Places(f)' PROVE \E b \in Places(f) : c = Up(b)
    <3>1. c \in Blocks /\ df'.owners[c] = f
      BY DEF Places
    <3>2. c # q
      BY <1>4, <1>6, <3>1
    <3>3. CASE q < c /\ c <= p
      <4>1. c - 1 \in Blocks /\ q <= c - 1 /\ c - 1 < p /\ c - 1 + 1 = c
        BY <1>3, <3>1, <3>3
      <4>2. c - 1 \in Places(f)
        BY <1>4, <3>1, <3>2, <3>3, <4>1 DEF Places
      <4>3. c = Up(c - 1)
        BY <4>1
      <4> QED BY <4>2, <4>3
    <3>4. CASE ~(q < c /\ c <= p)
      <4>1. c \in Places(f)
        <5>1. df'.owners[c] = df.owners[c]
          BY <1>4, <3>1, <3>2, <3>4
        <5> QED BY <3>1, <5>1 DEF Places
      <4>2. ~(q <= c /\ c < p)
        BY <1>3, <3>1, <3>2, <3>4
      <4> QED BY <4>1, <4>2
    <3> QED BY <3>3, <3>4
  <2> QED BY <2>1, <2>2
<1>7. \A b, c \in Nat : b < c /\ c # p => Up(b) < Up(c)
  BY <1>3
<1> SUFFICES ASSUME NEW f \in FileIds, NEW g \in FileIds, f # g, Places(f)' # {},
                    index[f][1].start < index[g][1].start
             PROVE  \E b \in Places(f)' : \A c \in Places(g)' : b < c
  BY <1>1 DEF Ordered, Leads
<1>8. /\ f # NULL /\ g # NULL
      /\ Places(f) \in SUBSET Nat /\ Places(g) \in SUBSET Nat
      /\ \A b \in Places(g) : g # curr => b # p
  BY <1>2, NullAssumption, PlacesTypes DEF NullAssumption, Places
<1>9. Places(f) # {}
  BY <1>5, <1>6, <1>8
<1>10. Leads(f, g)
  BY <1>2, <1>9 DEF Ordered
<1>11. CASE f = curr
  <2>1. PICK b \in Places(curr) : \A c \in Places(g) : b < c
    BY <1>10, <1>11 DEF Leads
  <2>2. ASSUME NEW c \in Places(g)' PROVE \E a \in Places(g) : a <= c /\ a \in Nat /\ c \in Nat
    BY <1>3, <1>6, <1>8, <1>11
  <2>3. \A c \in Places(g)' : b < c
    BY <1>8, <1>11, <2>1, <2>2
  <2>4. CASE b = p
    <3>1. \A c \in Places(g)' : q < c
      BY <1>2, <1>3, <2>2, <2>3, <2>4
    <3> QED BY <1>5, <1>11, <3>1
  <2> QED BY <1>5, <1>11, <2>3, <2>4
<1>12. CASE g = curr
  <2>1. PICK b \in Places(f) : b < q /\ \A c \in Places(curr) : b < c
    BY <1>1, <1>10, <1>12, LeaderStays, <1>0
  <2>2. Up(b) = b
    BY <1>3, <1>8, <2>1
  <2> QED BY <1>5, <1>6, <1>8, <1>12, <2>1, <2>2
<1>13. CASE f # curr /\ g # curr
  <2>1. PICK b \in Places(f) : \A c \in Places(g) : b < c
    BY <1>10 DEF Leads
  <2>2. \A c \in Places(g)' : Up(b) < c
    <3> HIDE DEF Up
    <3> QED BY <1>6, <1>7, <1>8, <1>13, <2>1
  <2> QED BY <1>6, <1>8, <1>13, <2>1, <2>2
<1> QED BY <1>11, <1>12, <1>13

\* A block that has been placed lies before all that are left.
LEMMA PlacedIsFirst ==
  ASSUME DLocal, OrderOK, NEW p \in Blocks, NextOwned(p), NEW owners,
         df' = Placed(p, owners), owners[df.curr_file_block] = df.curr_file
  PROVE  FirstOfRest'
<1>0. PICK q, curr : q = df.curr_file_block /\ curr = df.curr_file
  OBVIOUS
<1>1. q \in Blocks /\ q \in Nat
  BY <1>0, MoveKnown, BlockCountAssumption DEF Blocks, BlockCountAssumption
<1>2. df'.owners = owners /\ df'.curr_file = curr /\ df'.curr_file_block = q + 1
  BY <1>0 DEF Placed, DLocal, DInv, MoveOK
<1>3. q \in Places(df.curr_file)'
  BY <1>0, <1>1, <1>2 DEF Places
<1>4. \A b \in Rest' : q <= b
  BY <1>1, <1>2 DEF Rest
<1> QED BY <1>3, <1>4 DEF FirstOfRest

LEMMA OrderMoves ==
  ASSUME DLocal, OrderOK, NEW p \in Blocks, KeepBlock(p) \/ CopyBlock(p) \/ ShiftBlocks(p)
  PROVE  OrderOK'
<1>0. PICK q, curr : q = df.curr_file_block /\ curr = df.curr_file
  OBVIOUS
<1>1. NextOwned(p) /\ df.owners = [b \in Blocks |-> df.owners[b]]
  BY DEF KeepBlock, CopyBlock, ShiftBlocks, DLocal, DInv, MoveOK
<1>2. curr # NULL /\ q \in Blocks /\ q <= p /\ Ordered /\ df.owners[p] = curr
  BY <1>0, <1>1, MoveKnown
<1>3. CASE KeepBlock(p)
  <2>1. df' = Placed(p, df.owners) /\ df.owners[q] = curr /\ index' = index
    BY <1>0, <1>3 DEF KeepBlock, Target, vars
  <2>2. df'.owners = df.owners
    BY <2>1 DEF Placed, DLocal, DInv, MoveOK
  <2>3. Ordered'
    BY <1>2, <2>1, <2>2 DEF Ordered, Leads, Places
  <2> QED BY <1>0, <1>1, <2>1, <2>3, PlacedIsFirst DEF OrderOK
<1>4. CASE CopyBlock(p)
  <2> DEFINE owners == [df.owners EXCEPT ![q] = curr, ![p] = NULL]
  <2>1. df' = Placed(p, owners) /\ df.owners[q] = NULL
    BY <1>0, <1>4 DEF CopyBlock, Target
  <2>2. owners[q] = curr
    BY <1>1, <1>2, <2>1
  <2>3. Ordered'
    BY <1>4, CopyKeepsOrder
  <2> HIDE DEF owners
  <2> QED BY <1>0, <1>1, <2>1, <2>2, <2>3, PlacedIsFirst DEF OrderOK
<1>5. CASE ShiftBlocks(p)
  <2> DEFINE owners == Shifted(df.owners, p, q)
  <2>1. df' = Placed(p, owners)
    BY <1>0, <1>5 DEF ShiftBlocks
  <2>2. owners[q] = curr
    BY <1>2 DEF Shifted
  <2>3. Ordered'
    BY <1>5, ShiftKeepsOrder
  <2> HIDE DEF owners
  <2> QED BY <1>0, <1>1, <2>1, <2>2, <2>3, PlacedIsFirst DEF OrderOK
<1> QED BY <1>3, <1>4, <1>5

LEMMA OrderSeek ==
  ASSUME DLocal, OrderOK, DefragSeek
  PROVE  OrderOK'
<1>1. CASE Rest = {}
  BY <1>1, OrderFrame DEF DefragSeek, Halt
<1>2. CASE Rest # {}
  <2>1. Rest \in SUBSET Nat /\ Rest \in SUBSET Blocks
    BY BlockCountAssumption DEF Rest, DLocal, DfOK, Blocks, BlockCountAssumption
  <2>2. PICK c : c = Min(Rest)
    OBVIOUS
  <2>3. c \in Rest /\ \A b \in Rest : c <= b
    BY <1>2, <2>1, <2>2, LeastNumber
  <2>4. /\ df'.owners = df.owners /\ df'.curr_file = df.owners[c]
        /\ df'.curr_file_block = df.curr_file_block /\ index' = index
    BY <1>2, <2>2 DEF DefragSeek, NextFile, vars, DLocal, DInv, MoveOK
  <2>5. Rest' = Rest
    BY <2>4 DEF Rest
  <2>6. c \in Places(df.curr_file)'
    BY <2>1, <2>3, <2>4 DEF Places
  <2>7. FirstOfRest'
    BY <2>3, <2>5, <2>6 DEF FirstOfRest
  <2>8. Ordered
    BY DEF DefragSeek, InDefrag, OrderOK
  <2>9. Ordered'
    BY <2>4, <2>8 DEF Ordered, Leads, Places
  <2> QED BY <2>7, <2>9 DEF OrderOK
<1> QED BY <1>1, <1>2

LEMMA OrderNext ==
  ASSUME BlockCount <= PosRange, Sound, OrderOK, [DNext]_dvars
  PROVE  OrderOK'
<1>0. DLocal /\ CInv /\ ClustersAscend
  BY DEF Sound
<1>1. CASE DefragUnready \/ DefragAborts \/ UNCHANGED dvars
  BY <1>1, OrderFrame DEF DefragUnready, DefragAborts, Refuse, Halt, dvars, vars
<1>2. CASE Other
  <2>1. CASE df.phase = "idle"
    BY <1>2, <2>1 DEF Other, OrderOK
  <2>2. CASE status # "running"
    BY <1>2, <2>2, StoppedStays, OrderFrame DEF Other, vars
  <2> QED BY <1>2, <2>1, <2>2 DEF Other
<1>3. CASE FileCompacted
  <2>1. /\ df'.phase = "seek" /\ df'.owners = df.owners /\ index' = index
        /\ df.phase = "move"
    BY <1>0, <1>3 DEF FileCompacted, vars, DLocal, DInv, MoveOK
  <2> QED BY <2>1 DEF OrderOK, Ordered, Leads, Places, FirstOfRest
<1>4. CASE DefragFinish
  <2>1. CASE Finished
    BY <2>1, FreshDf DEF Finished, OrderOK
  <2> QED BY <1>4, <2>1, FinishedOrNot, OrderFrame DEF CheckFails, Halt
<1> QED BY <1>0, <1>1, <1>2, <1>3, <1>4, OrderStart, OrderSeek, OrderMoves DEF DNext, Compact

LEMMA OrderFound == Sound /\ OrderOK => OrderKept
<1> SUFFICES ASSUME Sound, OrderOK, InDefrag,
                    NEW f \in {df.owners[b] : b \in Blocks} \ {NULL},
                    NEW g \in {df.owners[b] : b \in Blocks} \ {NULL},
                    index[f][1].start < index[g][1].start
             PROVE  First(f) < First(g)
  BY DEF OrderKept
<1>1. f \in Keyed /\ g \in Keyed /\ Places(f) # {} /\ Places(g) # {}
  BY DEF Sound, DLocal, DfOK, InDefrag, Places
<1>2. f \in FileIds /\ g \in FileIds /\ index[f] # <<>> /\ index[g] # <<>>
  BY <1>1 DEF Keyed
<1>3. f # g
  <2>1. Len(index[f]) \in Nat /\ DOMAIN index[f] = 1 .. Len(index[f]) /\ LocalOK
    BY <1>2, ClusterTypes DEF Sound, DLocal
  <2>2. 1 \in DOMAIN index[f]
    BY <1>2, <2>1, ClusterTypes DEF LocalOK, TypeOK
  <2>3. index[f][1].start \in Nat
    BY <1>2, <2>1, <2>2, ClusterTypes
  <2> QED BY <2>3
<1>4. PICK b \in Places(f) : \A c \in Places(g) : b < c
  BY <1>1, <1>2, <1>3 DEF OrderOK, InDefrag, Ordered, Leads
<1>5. /\ First(f) = Min(Places(f)) /\ First(g) = Min(Places(g))
      /\ Places(f) \in SUBSET Nat /\ Places(g) \in SUBSET Nat
  BY PlacesTypes DEF First, Places
<1>6. First(f) \in Nat /\ First(f) <= b /\ First(g) \in Places(g)
  BY <1>1, <1>5, LeastNumber
<1> QED BY <1>4, <1>5, <1>6

\* No file overtakes another while their blocks move: they come to lie in the order
\* of their first blocks (lines 783 to 826).
THEOREM OrderStillKept ==
  ASSUME BlockCount <= PosRange
  PROVE  CautiousSpec => []OrderKept
<1>1. CautiousSpec => DInit /\ [][DNext]_dvars
  BY PTL DEF CautiousSpec
<1>2. DInit => OrderOK
  BY FreshDf DEF DInit, OrderOK
<1>3. Sound /\ OrderOK /\ [DNext]_dvars => OrderOK'
  BY OrderNext
<1> QED BY <1>1, <1>2, <1>3, SoundAlways, OrderFound, PTL

-----------------------------------------------------------------------------
(* What has been compacted at each step *)

\* The files of D, each in one piece, are the first e blocks.
Stacked(D, e) ==
  /\ \A g \in D : \E a \in Nat : WholeFrom(g, a)
  /\ \A b \in Blocks : b < e <=> df.owners[b] \in D

\* The blocks from a on are what has been placed of the file that is moved.
Moving(a) ==
  /\ a \in Nat /\ a <= df.curr_file_block
  /\ \A b \in Blocks : a <= b /\ b < df.curr_file_block => df.owners[b] = df.curr_file
  /\ a + BlocksFor(heap[df.curr_file].byte_len) = df.curr_file_block + df.curr_blocks

LayoutOK ==
  df.phase # "idle" =>
    /\ df.owner_count = Cardinality(Keyed)
    /\ \E D \in SUBSET Keyed :
         /\ Cardinality(D) = df.count
         /\ df.phase = "seek" => Stacked(D, df.curr_file_block)
         /\ df.phase = "move" => /\ df.curr_file \in Keyed \ D
                                 /\ \E a \in Nat : Stacked(D, a) /\ Moving(a)

\* Each file has its blocks while they move.
LEMMA GatheredHasPlaces ==
  ASSUME NEW f, Gathers(f)
  PROVE  /\ Cardinality(Places(f)) = BlocksFor(heap[f].byte_len)
         /\ Places(f) # {}
<1>1. PICK d \in DiskFiles : Complete(InOrder(Places(f)), heap[f].byte_len, d)
  BY DEF Gathers
<1>2. Places(f) # {}
  BY GatheredIsPlaced DEF Places
<1> QED BY <1>1, <1>2, PlacesTypes, InOrderAscends DEF Complete

\* What a step does from block q on does not touch the files that end before it.
LEMMA StackKept ==
  ASSUME UNCHANGED heap, NEW D, NEW e \in Nat, Stacked(D, e), NEW q \in Nat, e <= q,
         \A b \in Blocks : b < q => df'.owners[b] = df.owners[b],
         \A b \in Blocks : q <= b =>
           df'.owners[b] \notin D \/ \E c \in Blocks : q <= c /\ df'.owners[b] = df.owners[c]
  PROVE  Stacked(D, e)'
<1>1. Blocks \in SUBSET Nat
  BY BlockCountAssumption DEF Blocks, BlockCountAssumption
<1> HIDE DEF Blocks
<1>2. ASSUME NEW b \in Blocks, q <= b PROVE df.owners[b] \notin D
  <2>1. ~(b < e)
    BY <1>1, <1>2
  <2> QED BY <2>1 DEF Stacked
<1>3. ASSUME NEW b \in Blocks, q <= b PROVE df'.owners[b] \notin D
  BY <1>2, <1>3
<1>4. ASSUME NEW b \in Blocks PROVE (b < e) <=> (df'.owners[b] \in D)
  <2>1. CASE b < q
    BY <2>1 DEF Stacked
  <2>2. CASE q <= b
    <3>1. ~(b < e)
      BY <1>1, <2>2
    <3> QED BY <1>3, <2>2, <3>1
  <2> QED BY <1>1, <2>1, <2>2
<1>5. ASSUME NEW g \in D, NEW a \in Nat, WholeFrom(g, a)
      PROVE  WholeFrom(g, a)'
  <2>1. ASSUME NEW b \in Blocks PROVE (df'.owners[b] = g) <=> (df.owners[b] = g)
    <3>1. CASE b < q
      BY <3>1
    <3>2. CASE q <= b
      BY <1>2, <1>3, <3>2
    <3> QED BY <1>1, <3>1, <3>2
  <2> QED BY <1>5, <2>1 DEF WholeFrom, BlocksFor
<1>6. ASSUME NEW g \in D PROVE \E a \in Nat : WholeFrom(g, a)'
  BY <1>5 DEF Stacked
<1> QED BY <1>4, <1>6 DEF Stacked

LEMMA LayoutFrame ==
  ASSUME LayoutOK, UNCHANGED <<index, heap, df>>
  PROVE  LayoutOK'
BY DEF LayoutOK, Stacked, Moving, WholeFrom, Keyed, BlocksFor

LEMMA LayoutStart ==
  ASSUME DefragStart
  PROVE  LayoutOK'
<1> DEFINE owners == Owners
           count == Cardinality(Keyed)
<1>1. df' = [NoDefrag EXCEPT !.phase = "seek", !.owners = owners, !.owner_count = count]
  BY DEF DefragStart
<1>2. Keyed' = Keyed
  BY DEF DefragStart, Keyed
<1>3. df'.phase = "seek" /\ df'.owner_count = count /\ df'.count = 0 /\ df'.curr_file_block = 0
  <2> HIDE DEF owners, count
  <2> QED BY <1>1, FreshDefrag
<1>4. Stacked({}, df.curr_file_block)'
  BY <1>3, BlockCountAssumption DEF Stacked, Blocks, BlockCountAssumption
<1>5. {} \in SUBSET Keyed' /\ Cardinality({}) = df'.count
  BY <1>3, FS_EmptySet
<1> QED BY <1>2, <1>3, <1>4, <1>5 DEF LayoutOK

\* There is a file to move as long as not all are counted.
LEMMA SomeAreLeft ==
  ASSUME DLocal, GatherOK, LayoutOK, InDefrag, df.phase = "seek", df.count < df.owner_count
  PROVE  Rest # {}
<1>1. df.owner_count = Cardinality(Keyed) /\ \A f \in Keyed : Gathers(f)
  BY DEF LayoutOK, GatherOK
<1>2. PICK D \in SUBSET Keyed : Cardinality(D) = df.count /\ Stacked(D, df.curr_file_block)
  BY DEF LayoutOK
<1>3. df.count \in Nat /\ df.curr_file_block \in Nat
  BY DEF DLocal, DfOK, DInv, MoveOK
<1>4. D # Keyed
  BY <1>1, <1>2, <1>3
<1>5. PICK f \in Keyed : f \notin D
  BY <1>4
<1>6. PICK c \in Blocks : df.owners[c] = f
  BY <1>1, GatheredIsPlaced
<1>7. f # NULL
  BY NullAssumption DEF Keyed, NullAssumption
<1>8. c \in Nat /\ ~(c < df.curr_file_block)
  BY <1>2, <1>5, <1>6, BlockCountAssumption DEF Stacked, Blocks, BlockCountAssumption
<1>9. c \in Rest
  BY <1>3, <1>6, <1>7, <1>8, BlockCountAssumption DEF Rest, Blocks, BlockCountAssumption
<1> QED BY <1>9

LEMMA LayoutSeek ==
  ASSUME DLocal, GatherOK, LayoutOK, DefragSeek
  PROVE  LayoutOK' /\ status' = status
<1>1. Rest # {}
  BY SomeAreLeft DEF DefragSeek
<1>2. Rest \in SUBSET Nat /\ Rest \in SUBSET Blocks
  BY BlockCountAssumption DEF Rest, DLocal, DfOK, Blocks, BlockCountAssumption
<1>3. PICK c : c = Min(Rest)
  OBVIOUS
<1>4. c \in Rest
  BY <1>1, <1>2, <1>3, LeastNumber
<1>5. PICK q, f : q = df.curr_file_block /\ f = df.owners[c]
  OBVIOUS
<1> DEFINE n == BlocksFor(heap[f].byte_len)
<1>6. /\ df' = [df EXCEPT !.phase = "move", !.curr_file = f, !.curr_blocks = n, !.pos = q]
      /\ UNCHANGED vars
  BY <1>1, <1>3, <1>5 DEF DefragSeek, NextFile
<1>7. /\ df'.phase = "move" /\ df'.owners = df.owners /\ df'.curr_file = f
      /\ df'.curr_file_block = q /\ df'.curr_blocks = n
      /\ df'.count = df.count /\ df'.owner_count = df.owner_count
  <2> HIDE DEF n
  <2> QED BY <1>5, <1>6 DEF DLocal, DInv, MoveOK
<1>8. /\ Keyed' = Keyed /\ heap' = heap /\ q \in Nat
      /\ df.owner_count = Cardinality(Keyed) /\ f \in Keyed
  BY <1>2, <1>4, <1>5, <1>6
  DEF vars, Keyed, DLocal, DInv, MoveOK, DfOK, LayoutOK, DefragSeek, InDefrag, Rest
<1>9. PICK D \in SUBSET Keyed : Cardinality(D) = df.count /\ Stacked(D, q)
  BY <1>5 DEF LayoutOK, DefragSeek
<1>10. f \notin D
  <2>1. c \in Nat /\ q <= c
    BY <1>2, <1>4, <1>5 DEF Rest
  <2> QED BY <1>2, <1>4, <1>5, <1>8, <1>9, <2>1 DEF Stacked
<1>11. Stacked(D, q)'
  BY <1>7, <1>8, <1>9 DEF Stacked, WholeFrom, BlocksFor
<1>12. Moving(q)'
  <2>1. \A b \in Blocks : ~(q <= b /\ b < q)
    BY <1>8, BlockCountAssumption DEF Blocks, BlockCountAssumption
  <2>2. BlocksFor(heap'[f].byte_len) = n
    BY <1>8
  <2> HIDE DEF n
  <2> QED BY <1>7, <1>8, <2>1, <2>2 DEF Moving, BlocksFor
<1>13. LayoutOK'
  BY <1>7, <1>8, <1>9, <1>10, <1>11, <1>12 DEF LayoutOK
<1> QED BY <1>6, <1>13 DEF vars

\* The three outcomes for a block have this in common.
LEMMA LayoutPlaced ==
  ASSUME DLocal, LayoutOK, NEW p \in Blocks, NextOwned(p), NEW owners, df' = Placed(p, owners),
         UNCHANGED <<index, heap>>,
         NEW q, NEW curr, q = df.curr_file_block, curr = df.curr_file, owners[q] = curr,
         \A b \in Blocks : b < q => owners[b] = df.owners[b],
         \A b \in Blocks : q <= b =>
           owners[b] \in {curr, NULL} \/ \E c \in Blocks : q <= c /\ owners[b] = df.owners[c]
  PROVE  LayoutOK'
<1>1. /\ df.phase = "move" /\ df.curr_blocks \in Nat /\ q \in Nat
      /\ Keyed' = Keyed /\ NULL \notin Keyed
  BY NullAssumption DEF NextOwned, DLocal, DfOK, DInv, MoveOK, Keyed, NullAssumption
<1>2. /\ df'.phase = "move" /\ df'.owners = owners /\ df'.curr_file = curr
      /\ df'.curr_file_block = q + 1 /\ df'.curr_blocks = df.curr_blocks - 1
      /\ df'.count = df.count /\ df'.owner_count = df.owner_count
  BY <1>1 DEF Placed, DLocal, DInv, MoveOK
<1>3. PICK D \in SUBSET Keyed :
        /\ Cardinality(D) = df.count /\ curr \in Keyed \ D
        /\ \E a \in Nat : Stacked(D, a) /\ Moving(a)
  BY <1>1 DEF LayoutOK
<1>4. PICK a \in Nat : Stacked(D, a) /\ Moving(a)
  BY <1>3
<1>5. a <= q
  BY <1>4 DEF Moving
<1>6. Stacked(D, a)'
  BY <1>1, <1>2, <1>3, <1>4, <1>5, StackKept
<1>7. Moving(a)'
  <2>1. \A b \in Blocks : a <= b /\ b < q + 1 => owners[b] = curr
    BY <1>1, <1>4, BlockCountAssumption DEF Moving, Blocks, BlockCountAssumption
  <2> DEFINE n == BlocksFor(heap[curr].byte_len)
  <2>2. a + n = q + df.curr_blocks
    BY <1>4 DEF Moving
  <2>3. a + n = (q + 1) + (df.curr_blocks - 1)
    <3> HIDE DEF n
    <3> QED BY <1>1, <2>2
  <2>4. BlocksFor(heap'[curr].byte_len) = n
    OBVIOUS
  <2> HIDE DEF n
  <2> QED BY <1>1, <1>2, <1>5, <2>1, <2>3, <2>4 DEF Moving, BlocksFor
<1>8. df'.owner_count = Cardinality(Keyed)
  BY <1>1, <1>2 DEF LayoutOK
<1> QED BY <1>1, <1>2, <1>3, <1>6, <1>7, <1>8 DEF LayoutOK

LEMMA LayoutMoves ==
  ASSUME DLocal, LayoutOK, NEW p \in Blocks, KeepBlock(p) \/ CopyBlock(p) \/ ShiftBlocks(p)
  PROVE  LayoutOK'
<1>0. PICK q, curr : q = df.curr_file_block /\ curr = df.curr_file
  OBVIOUS
<1>1. /\ NextOwned(p) /\ df.owners = [b \in Blocks |-> df.owners[b]] /\ UNCHANGED <<index, heap>>
  BY DEF KeepBlock, CopyBlock, ShiftBlocks, DLocal, DInv, MoveOK, vars
<1>2. q \in Blocks /\ q <= p /\ df.owners[p] = curr
  BY <1>0, <1>1, NextIsAhead DEF DLocal, DInv, Blocks
<1>3. /\ Blocks \in SUBSET Nat
      /\ \A b \in Blocks : q < b => b - 1 \in Blocks /\ q <= b - 1
  BY <1>2, BlockCountAssumption DEF Blocks, BlockCountAssumption
<1>4. CASE KeepBlock(p)
  <2>1. df' = Placed(p, df.owners) /\ df.owners[q] = curr
    BY <1>0, <1>4 DEF KeepBlock, Target
  <2> QED BY <1>0, <1>1, <2>1, LayoutPlaced
<1>5. CASE CopyBlock(p)
  <2> DEFINE owners == [df.owners EXCEPT ![q] = curr, ![p] = NULL]
  <2>1. df' = Placed(p, owners) /\ df.owners[q] = NULL
    BY <1>0, <1>5 DEF CopyBlock, Target
  <2>2. curr # NULL
    BY <1>0, <1>1 DEF DLocal, DInv, MoveOK, NextOwned
  <2>3. /\ owners[q] = curr
        /\ \A b \in Blocks : b < q => owners[b] = df.owners[b]
        /\ \A b \in Blocks : q <= b => owners[b] \in {curr, NULL} \/ owners[b] = df.owners[b]
    BY <1>1, <1>2, <1>3, <2>1, <2>2
  <2> HIDE DEF owners
  <2>4. \A b \in Blocks : q <= b =>
          owners[b] \in {curr, NULL} \/ \E c \in Blocks : q <= c /\ owners[b] = df.owners[c]
    BY <2>3
  <2> QED BY <1>0, <1>1, <2>1, <2>3, <2>4, LayoutPlaced
<1>6. CASE ShiftBlocks(p)
  <2> DEFINE owners == Shifted(df.owners, p, q)
  <2>1. df' = Placed(p, owners)
    BY <1>0, <1>6 DEF ShiftBlocks
  <2>2. \A b \in Blocks : owners[b] = IF b = q THEN df.owners[p]
                                      ELSE IF q < b /\ b <= p THEN df.owners[b - 1]
                                      ELSE df.owners[b]
    BY DEF Shifted
  <2> HIDE DEF owners, Blocks
  <2>3. owners[q] = curr /\ \A b \in Blocks : b < q => owners[b] = df.owners[b]
    BY <1>2, <1>3, <2>2
  <2>4. ASSUME NEW b \in Blocks, q <= b
        PROVE  owners[b] \in {curr, NULL} \/ \E c \in Blocks : q <= c /\ owners[b] = df.owners[c]
    <3>1. CASE b = q
      BY <2>3, <3>1
    <3>2. CASE q < b /\ b <= p
      <4>1. b # q /\ b - 1 \in Blocks /\ q <= b - 1
        BY <1>2, <1>3, <3>2
      <4>2. owners[b] = df.owners[b - 1]
        BY <2>2, <3>2, <4>1
      <4> QED BY <4>1, <4>2
    <3>3. CASE p < b
      <4>1. b # q /\ ~(b <= p)
        BY <1>2, <1>3, <3>3
      <4>2. owners[b] = df.owners[b]
        BY <2>2, <4>1
      <4> QED BY <2>4, <4>2
    <3> QED BY <1>2, <1>3, <2>4, <3>1, <3>2, <3>3
  <2> QED BY <1>0, <1>1, <2>1, <2>3, <2>4, LayoutPlaced
<1> QED BY <1>4, <1>5, <1>6

\* A file is left when all its blocks have been placed, neither before nor later.
LEMMA MovedIsWhole ==
  ASSUME DLocal, FewPlaces, GatherOK, LayoutOK, FileCompacted,
         NEW D \in SUBSET Keyed, NEW a \in Nat, Stacked(D, a), Moving(a),
         df.curr_file \in Keyed \ D
  PROVE  Stacked(D \cup {df.curr_file}, df.curr_file_block)
<1> DEFINE f == df.curr_file
           q == df.curr_file_block
           n == BlocksFor(heap[f].byte_len)
           S == a .. q - 1
<1>1. /\ f \in Keyed /\ f \in FileIds /\ heap[f] # NULL /\ Gathers(f)
      /\ df.phase = "move" /\ df.phase # "idle"
  BY DEF FileCompacted, InDefrag, GatherOK, Clean, Keyed
<1>2. /\ q \in 0 .. BlockCount /\ q \in Nat /\ a <= q /\ a + n = q + df.curr_blocks
      /\ df.curr_blocks \in Nat /\ n \in Nat /\ n > 0
      /\ \A b \in Blocks : a <= b /\ b < q => df.owners[b] = f
      /\ BlockCount \in Nat
  <2>1. n \in Nat /\ n > 0
    BY <1>1, LengthTypes DEF DLocal
  <2> QED BY <2>1, BlockCountAssumption DEF Moving, DLocal, DfOK, DInv, MoveOK, BlockCountAssumption
<1>3. Cardinality(Places(f)) = n
  BY <1>1, GatheredHasPlaces
<1>4. Cardinality(S) = q - a /\ IsFiniteSet(S) /\ S \in SUBSET Places(f)
  <2>1. PICK e : e = q - 1 /\ e \in Int /\ S = a .. e
    BY <1>2
  <2>2. /\ IsFiniteSet(a .. e)
        /\ Cardinality(a .. e) = IF a > e THEN 0 ELSE e - a + 1
    <3>1. a \in Int /\ e \in Int
      BY <2>1
    <3> HIDE DEF S
    <3> QED BY <3>1, FS_Interval
  <2>3. S \in SUBSET Places(f)
    BY <1>2 DEF Places, Blocks
  <2>4. Cardinality(S) = q - a
    <3> HIDE DEF S, q
    <3> QED BY <1>2, <2>1, <2>2
  <2> QED BY <2>1, <2>2, <2>3, <2>4
<1>5. df.curr_blocks = 0
  <2>1. CASE OwnedFrom(df.curr_file, df.pos) = {}
    <3>1. \A b \in Blocks : df.owners[b] = f => b \in S
      <4> SUFFICES ASSUME NEW b \in Blocks, df.owners[b] = f PROVE b \in S
        OBVIOUS
      <4>1. b \in Nat /\ b < BlockCount /\ df.pos \in Nat
        BY <1>1, BlockCountAssumption DEF Blocks, BlockCountAssumption, DLocal, DInv, MoveOK
      <4>2. ~(b < a)
        BY DEF Stacked
      <4>3. ~(q <= b /\ b < df.pos)
        BY <1>1 DEF DLocal, DInv, MoveOK
      <4>4. ~(df.pos <= b)
        BY <1>2, <2>1, <4>1 DEF OwnedFrom
      <4> QED BY <1>2, <4>1, <4>2, <4>3, <4>4
    <3>2. Places(f) \in SUBSET S
      BY <3>1 DEF Places
    <3>3. Cardinality(Places(f)) <= Cardinality(S)
      <4> HIDE DEF S
      <4> QED BY <1>4, <3>2, FS_Subset
    <3> HIDE DEF S, q, n
    <3> QED BY <1>2, <1>3, <1>4, <3>3
  <2> QED BY <2>1 DEF FileCompacted
<1>6. q - a = n /\ a < q
  <2> HIDE DEF n, q
  <2> QED BY <1>2, <1>5
<1>7. S = Places(f)
  <2>1. IsFiniteSet(Places(f))
    BY PlacesTypes
  <2> HIDE DEF S, n, q
  <2> QED BY <1>3, <1>4, <1>6, <2>1, FS_Subset
<1>8. \A b \in Blocks : (df.owners[b] = f) <=> (a <= b /\ b < q)
  BY <1>2, <1>7, BlockCountAssumption DEF Places, Blocks, BlockCountAssumption
<1>9. WholeFrom(f, a)
  <2>1. a + n = q /\ q <= BlockCount
    <3> HIDE DEF n, q
    <3> QED BY <1>2, <1>6
  <2> HIDE DEF q
  <2> QED BY <1>8, <2>1 DEF WholeFrom
<1>10. \A b \in Blocks : (b < q) <=> (df.owners[b] \in D \cup {f})
  <2> SUFFICES ASSUME NEW b \in Blocks PROVE (b < q) <=> (df.owners[b] \in D \cup {f})
    OBVIOUS
  <2>1. b \in Nat
    BY BlockCountAssumption DEF Blocks, BlockCountAssumption
  <2>2. (b < a) <=> (df.owners[b] \in D)
    BY DEF Stacked
  <2>3. (df.owners[b] = f) <=> (a <= b /\ b < q)
    BY <1>8
  <2> HIDE DEF q, f
  <2> QED BY <1>2, <2>1, <2>2, <2>3
<1> QED BY <1>9, <1>10 DEF Stacked

LEMMA LayoutCompacted ==
  ASSUME DLocal, FewPlaces, GatherOK, LayoutOK, FileCompacted
  PROVE  LayoutOK'
<1>1. PICK D \in SUBSET Keyed :
        /\ Cardinality(D) = df.count /\ df.curr_file \in Keyed \ D
        /\ \E a \in Nat : Stacked(D, a) /\ Moving(a)
  BY DEF LayoutOK, FileCompacted
<1>2. PICK f, E : f = df.curr_file /\ E = D \cup {f}
  OBVIOUS
<1>3. Stacked(E, df.curr_file_block)
  BY <1>1, <1>2, MovedIsWhole
<1>4. Cardinality(E) = df.count + 1
  <2>1. IsFiniteSet(D)
    BY FS_Subset DEF DLocal, KeysFew
  <2> QED BY <1>1, <1>2, <2>1, FS_AddElement
<1>5. /\ UNCHANGED vars /\ df'.phase = "seek" /\ df'.owners = df.owners
      /\ df'.curr_file_block = df.curr_file_block /\ df'.count = df.count + 1
      /\ df'.owner_count = df.owner_count /\ df.owner_count = Cardinality(Keyed)
  BY DEF FileCompacted, DLocal, DInv, MoveOK, LayoutOK
<1>6. Keyed' = Keyed /\ heap' = heap
  BY <1>5 DEF vars, Keyed
<1>7. Stacked(E, df.curr_file_block)'
  BY <1>3, <1>5, <1>6 DEF Stacked, WholeFrom, BlocksFor
<1> QED BY <1>1, <1>2, <1>4, <1>5, <1>6, <1>7 DEF LayoutOK

LEMMA LayoutNext ==
  ASSUME DLocal, FewPlaces, GatherOK, LayoutOK, [DNext]_dvars
  PROVE  LayoutOK'
<1>1. CASE DefragUnready \/ DefragAborts \/ UNCHANGED dvars
  BY <1>1, LayoutFrame DEF DefragUnready, DefragAborts, Refuse, Halt, dvars, vars
<1>2. CASE Other
  <2>1. CASE df.phase = "idle"
    BY <1>2, <2>1 DEF Other, LayoutOK
  <2>2. CASE status # "running"
    BY <1>2, <2>2, StoppedStays, LayoutFrame DEF Other, vars
  <2> QED BY <1>2, <2>1, <2>2 DEF Other
<1>3. CASE DefragFinish
  <2>1. CASE Finished
    BY <2>1, FreshDf DEF Finished, LayoutOK
  <2> QED BY <1>3, <2>1, FinishedOrNot, LayoutFrame DEF CheckFails, Halt
<1> QED BY <1>1, <1>2, <1>3, LayoutStart, LayoutSeek, LayoutMoves, LayoutCompacted
        DEF DNext, Compact

-----------------------------------------------------------------------------
(* The check of a compaction lets it pass *)

LEMMA AllAreStacked ==
  ASSUME DLocal, LayoutOK, InDefrag, df.phase = "seek", df.count >= df.owner_count
  PROVE  /\ Stacked(Keyed, df.curr_file_block)
         /\ df.owner_count = Cardinality(Keyed)
         /\ \A b \in Blocks : df.curr_file_block <= b => df.owners[b] = NULL
<1>1. /\ df.owner_count = Cardinality(Keyed) /\ df.phase # "idle"
      /\ df.count \in Nat /\ df.curr_file_block \in Nat
  BY DEF LayoutOK, InDefrag, DLocal, DfOK, DInv, MoveOK
<1>2. PICK D \in SUBSET Keyed : Cardinality(D) = df.count /\ Stacked(D, df.curr_file_block)
  BY DEF LayoutOK, InDefrag
<1>3. D = Keyed
  <2>1. IsFiniteSet(Keyed) /\ Cardinality(Keyed) \in Nat
    BY FS_CardinalityType DEF DLocal, KeysFew
  <2>2. Cardinality(D) <= Cardinality(Keyed) /\ (Cardinality(Keyed) = Cardinality(D) => D = Keyed)
    BY <2>1, FS_Subset
  <2> QED BY <1>1, <1>2, <2>1, <2>2
<1>4. ASSUME NEW b \in Blocks, df.curr_file_block <= b PROVE df.owners[b] = NULL
  <2>1. b \in Nat
    BY BlockCountAssumption DEF Blocks, BlockCountAssumption
  <2>2. df.owners[b] \notin Keyed
    BY <1>1, <1>2, <1>3, <1>4, <2>1 DEF Stacked
  <2> QED BY <1>1, <2>2 DEF DLocal, DfOK
<1> QED BY <1>1, <1>2, <1>3, <1>4

\* The files that have a block before block p.
Started(p) == {g \in Keyed : \E b \in Blocks : b < p /\ df.owners[b] = g}

LEMMA StartedMore ==
  ASSUME DLocal, NEW p \in Blocks, NEW f \in Keyed, df.owners[p] = f
  PROVE  /\ Cardinality(Started(p)) \in Nat /\ Cardinality(Keyed) \in Nat
         /\ f \in Started(p) => Started(p + 1) = Started(p)
         /\ f \notin Started(p) => /\ Cardinality(Started(p)) < Cardinality(Keyed)
                                   /\ Cardinality(Started(p + 1)) = Cardinality(Started(p)) + 1
<1>1. Blocks \in SUBSET Nat
  BY BlockCountAssumption DEF Blocks, BlockCountAssumption
<1> HIDE DEF Blocks
<1>2. \A b \in Blocks : b < p + 1 <=> (b < p \/ b = p)
  BY <1>1
<1>3. Started(p + 1) = Started(p) \cup {f}
  BY <1>2 DEF Started
<1>4. Started(p) \in SUBSET Keyed
  BY DEF Started
<1>5. IsFiniteSet(Keyed) /\ Cardinality(Keyed) \in Nat
  BY FS_CardinalityType DEF DLocal, KeysFew
<1>6. IsFiniteSet(Started(p)) /\ Cardinality(Started(p)) \in Nat
      /\ Cardinality(Started(p)) <= Cardinality(Keyed)
      /\ (Cardinality(Keyed) = Cardinality(Started(p)) => Started(p) = Keyed)
  BY <1>4, <1>5, FS_Subset, FS_CardinalityType
<1>7. CASE f \in Started(p)
  BY <1>3, <1>5, <1>6, <1>7
<1>8. CASE f \notin Started(p)
  <2>1. Cardinality(Started(p)) # Cardinality(Keyed)
    BY <1>6, <1>8
  <2>2. Cardinality(Started(p) \cup {f}) = Cardinality(Started(p)) + 1
    BY <1>6, <1>8, FS_AddElement
  <2> QED BY <1>3, <1>5, <1>6, <1>8, <2>1, <2>2
<1> QED BY <1>7, <1>8

LEMMA StartedEnds ==
  ASSUME NEW q \in Nat, Stacked(Keyed, q), \A f \in Keyed : Gathers(f)
  PROVE  Started(q) = Keyed /\ Started(0) = {}
<1>1. ASSUME NEW f \in Keyed PROVE f \in Started(q)
  <2>1. PICK b \in Blocks : df.owners[b] = f
    BY GatheredIsPlaced
  <2> QED BY <2>1 DEF Started, Stacked
<1>2. \A b \in Blocks : ~(b < 0)
  BY BlockCountAssumption DEF Blocks, BlockCountAssumption
<1> QED BY <1>1, <1>2 DEF Started

\* What the check knows after p blocks of files stacked up to block q.
Passing(s, p, q) ==
  /\ s \in ScanType /\ s.ok
  /\ q < p => s.files = 0
  /\ p <= q =>
       /\ s.files + Cardinality(Started(p)) = Cardinality(Keyed) + 1
       /\ p = 0 => s.blocks = 0
       /\ p > 0 => /\ s.file = df.owners[p - 1]
                   /\ \E a \in Nat :
                        /\ WholeFrom(s.file, a)
                        /\ p + s.blocks = a + BlocksFor(heap[s.file].byte_len)

LEMMA PassingNext ==
  ASSUME DLocal, df.phase # "idle", Clean, \A f \in Keyed : Gathers(f),
         NEW q \in Nat, Stacked(Keyed, q), \A b \in Blocks : q <= b => df.owners[b] = NULL,
         NEW p \in Blocks, NEW s, Passing(s, p, q)
  PROVE  Passing(CheckStep(s, df.owners[p]), p + 1, q)
<1>0. PICK owner, t : owner = df.owners[p] /\ t = CheckStep(s, owner)
  OBVIOUS
<1>1. /\ s \in ScanType /\ s.files \in Nat /\ s.blocks \in Nat /\ s.ok = TRUE
      /\ s.file \in FileIds \cup {NULL}
      /\ p \in Nat /\ BlockCount \in Nat /\ p + 1 # 0 /\ p + 1 - 1 = p /\ p + 1 > 0
  BY BlockCountAssumption DEF Passing, ScanType, Blocks, BlockCountAssumption
<1>2. p > 0 => p - 1 \in Blocks
  BY <1>1, BlockCountAssumption DEF Blocks, BlockCountAssumption
<1>3. ASSUME q < p PROVE Passing(t, p + 1, q)
  <2>1. s.files = 0 /\ owner = NULL /\ q < p + 1
    BY <1>0, <1>1, <1>3 DEF Passing
  <2>2. t = [s EXCEPT !.ok = s.ok /\ owner = NULL]
    BY <1>0, <2>1 DEF CheckStep
  <2>3. t \in ScanType /\ t.ok /\ t.files = 0
    BY <1>1, <2>1, <2>2 DEF ScanType
  <2>4. ~(p + 1 <= q)
    BY <1>1, <2>1
  <2> QED BY <2>3, <2>4 DEF Passing
<1>4. ASSUME p = q PROVE Passing(t, p + 1, q)
  <2>1. owner = NULL /\ q < p + 1 /\ ~(p + 1 <= q) /\ p <= q
    BY <1>0, <1>1, <1>4
  <2>2. s.files = 1
    <3>1. Cardinality(Keyed) \in Nat
      BY FS_CardinalityType DEF DLocal, KeysFew
    <3>2. s.files + Cardinality(Keyed) = Cardinality(Keyed) + 1
      BY <1>4, <2>1, StartedEnds DEF Passing
    <3> QED BY <1>1, <3>1, <3>2
  <2>3. s.blocks = 0
    <3>1. CASE p = 0
      BY <2>1, <3>1 DEF Passing
    <3>2. CASE p > 0
      <4>1. PICK f : f = s.file
        OBVIOUS
      <4>2. PICK a \in Nat : /\ WholeFrom(f, a) /\ f = df.owners[p - 1]
                            /\ p + s.blocks = a + BlocksFor(heap[f].byte_len)
        BY <2>1, <3>2, <4>1 DEF Passing
      <4>3. SUFFICES ASSUME s.blocks > 0 PROVE FALSE
        BY <1>1
      <4>4. f \in Keyed
        BY <1>2, <1>4, <1>1, <3>2, <4>2 DEF Stacked
      <4>5. df.owners[p] = f
        <5>1. a <= p - 1
          BY <1>2, <3>2, <4>2 DEF WholeFrom
        <5> DEFINE n == BlocksFor(heap[f].byte_len)
        <5>2. p + s.blocks = a + n
          BY <4>2
        <5>3. a <= p /\ p < a + n
          <6> HIDE DEF n
          <6> QED BY <1>1, <4>3, <5>1, <5>2
        <5> QED BY <4>2, <5>3 DEF WholeFrom
      <4> QED BY <1>0, <2>1, <4>4, <4>5, NullAssumption DEF Keyed, NullAssumption
    <3> QED BY <1>1, <3>1, <3>2
  <2>4. t = [s EXCEPT !.files = 0]
    BY <1>0, <2>2, <2>3 DEF CheckStep
  <2>5. t \in ScanType /\ t.ok /\ t.files = 0
    BY <1>1, <2>4 DEF ScanType
  <2> QED BY <2>1, <2>5 DEF Passing
<1>5. ASSUME p < q PROVE Passing(t, p + 1, q)
  <2>1. owner \in Keyed /\ owner # NULL /\ owner \in FileIds /\ heap[owner] # NULL
        /\ p <= q /\ p + 1 <= q /\ ~(q < p + 1)
    <3>1. owner \in Keyed
      BY <1>0, <1>5 DEF Stacked
    <3> QED BY <1>1, <1>5, <3>1, NullAssumption DEF Keyed, Clean, NullAssumption
  <2>2. PICK c \in Nat : WholeFrom(owner, c)
    BY <2>1 DEF Stacked
  <2> DEFINE n == BlocksFor(heap[owner].byte_len)
             rest == heap[owner].byte_len \div BytesPerBlock
  <2>3. n \in Nat /\ rest \in Nat /\ n = rest + 1
    BY <2>1, LengthTypes DEF DLocal
  <2>4. c <= p /\ p < c + n
    BY <1>0, <2>2 DEF WholeFrom
  <2>5. /\ Cardinality(Started(p)) \in Nat /\ Cardinality(Keyed) \in Nat
        /\ s.files + Cardinality(Started(p)) = Cardinality(Keyed) + 1
        /\ owner \in Started(p) => Started(p + 1) = Started(p)
        /\ owner \notin Started(p) =>
             /\ Cardinality(Started(p)) < Cardinality(Keyed)
             /\ Cardinality(Started(p + 1)) = Cardinality(Started(p)) + 1
    BY <1>0, <2>1, StartedMore DEF Passing
  <2> HIDE DEF n, rest
  <2>6. CASE s.blocks > 0
    <3>1. p > 0
      BY <1>1, <2>1, <2>6 DEF Passing
    <3>2. PICK f : f = s.file
      OBVIOUS
    <3> DEFINE m == BlocksFor(heap[f].byte_len)
    <3>3. PICK a \in Nat : WholeFrom(f, a) /\ f = df.owners[p - 1] /\ p + s.blocks = a + m
      BY <2>1, <3>1, <3>2 DEF Passing
    <3>4. a <= p - 1
      BY <1>2, <3>1, <3>3 DEF WholeFrom
    <3>5. a <= p /\ p < a + m
      <4> HIDE DEF m
      <4> QED BY <1>1, <2>6, <3>3, <3>4
    <3>6. f = owner
      BY <1>0, <3>3, <3>5 DEF WholeFrom
    <3>7. owner \in Started(p)
      <4>1. p - 1 \in Blocks /\ p - 1 < p /\ df.owners[p - 1] = owner
        BY <1>1, <1>2, <3>1, <3>3, <3>6
      <4>2. \E b \in Blocks : b < p /\ df.owners[b] = owner
        BY <4>1
      <4> QED BY <2>1, <4>2 DEF Started
    <3>8. s.files > 0
      <4>1. Cardinality(Started(p)) <= Cardinality(Keyed)
        <5>1. Started(p) \in SUBSET Keyed
          BY DEF Started
        <5> QED BY <5>1, FS_Subset DEF DLocal, KeysFew
      <4> QED BY <1>1, <2>5, <4>1
    <3>9. t = [s EXCEPT !.ok = s.ok /\ owner = s.file, !.blocks = s.blocks - 1]
      BY <1>0, <1>1, <2>6, <3>8 DEF CheckStep
    <3>10. /\ t \in ScanType /\ t.ok /\ t.files = s.files
           /\ t.blocks = s.blocks - 1 /\ t.file = owner
      <4>1. s.blocks - 1 \in Nat
        BY <1>1, <2>6
      <4>2. s.file = owner /\ (s.ok /\ owner = s.file) = TRUE
        BY <1>1, <3>2, <3>6
      <4> DEFINE left == s.blocks - 1
      <4>3. t = [s EXCEPT !.ok = TRUE, !.blocks = left]
        BY <3>9, <4>2
      <4> HIDE DEF left
      <4>4. left \in Nat
        BY <4>1 DEF left
      <4>5. t \in ScanType /\ t.ok /\ t.files = s.files /\ t.blocks = left /\ t.file = s.file
        BY <1>1, <4>3, <4>4 DEF ScanType
      <4> QED BY <4>2, <4>5 DEF left
    <3>11. (p + 1) + (s.blocks - 1) = a + m
      <4> HIDE DEF m
      <4> QED BY <1>1, <3>3
    <3>12. \E b \in Nat : WholeFrom(owner, b)
                         /\ (p + 1) + t.blocks = b + BlocksFor(heap[owner].byte_len)
      BY <3>3, <3>6, <3>10, <3>11
    <3> QED BY <1>0, <1>1, <2>1, <2>5, <3>7, <3>10, <3>12 DEF Passing
  <2>7. CASE s.blocks = 0
    <3>1. owner \notin Started(p)
      <4> SUFFICES ASSUME owner \in Started(p) PROVE FALSE
        OBVIOUS
      <4>1. PICK b \in Blocks : b < p /\ df.owners[b] = owner
        BY DEF Started
      <4>2. b \in Nat /\ c <= b
        BY <2>2, <4>1, BlockCountAssumption DEF WholeFrom, Blocks, BlockCountAssumption
      <4>3. p > 0 /\ c <= p - 1 /\ p - 1 < c + n
        BY <1>1, <2>3, <2>4, <4>1, <4>2
      <4>4. df.owners[p - 1] = owner
        BY <1>2, <2>2, <4>3 DEF WholeFrom, n
      <4>5. PICK a \in Nat : WholeFrom(owner, a) /\ p + s.blocks = a + n
        BY <2>1, <4>3, <4>4 DEF Passing, n
      <4>6. p < a + n
        BY <1>0, <4>5 DEF WholeFrom, n
      <4> QED BY <1>1, <2>7, <4>5, <4>6
    <3>2. s.files > 1
      BY <1>1, <2>5, <3>1
    <3>3. t = [s EXCEPT !.files = s.files - 1, !.file = owner, !.blocks = rest]
      BY <1>0, <1>1, <2>1, <2>7, <3>2 DEF CheckStep, rest
    <3>4. /\ t \in ScanType /\ t.ok /\ t.files = s.files - 1
          /\ t.blocks = rest /\ t.file = owner
      <4> DEFINE left == s.files - 1
      <4>1. left \in Nat
        BY <1>1, <3>2
      <4>2. t = [s EXCEPT !.files = left, !.file = owner, !.blocks = rest]
        BY <3>3
      <4> HIDE DEF left
      <4>3. t \in ScanType /\ t.ok /\ t.files = left /\ t.blocks = rest /\ t.file = owner
        BY <1>1, <2>1, <2>3, <4>1, <4>2 DEF ScanType
      <4> QED BY <4>3 DEF left
    <3>5. t.files + Cardinality(Started(p + 1)) = Cardinality(Keyed) + 1
      BY <1>1, <2>5, <3>1, <3>2, <3>4
    <3>6. c = p
      <4> SUFFICES ASSUME c < p PROVE FALSE
        BY <1>1, <2>4
      <4>1. c \in Blocks /\ c < c + n
        BY <1>1, <2>3, <2>4 DEF Blocks
      <4>2. df.owners[c] = owner
        BY <2>2, <4>1 DEF WholeFrom, n
      <4> QED BY <2>1, <3>1, <4>1, <4>2 DEF Started
    <3>7. (p + 1) + t.blocks = c + n
      BY <1>1, <2>3, <3>4, <3>6
    <3> QED BY <1>0, <1>1, <2>1, <2>2, <3>4, <3>5, <3>7 DEF Passing, n
  <2> QED BY <1>1, <2>6, <2>7
<1> QED BY <1>0, <1>1, <1>3, <1>4, <1>5

LEMMA ScanPasses ==
  ASSUME DLocal, df.phase # "idle", Clean, \A f \in Keyed : Gathers(f),
         NEW q \in Nat, Stacked(Keyed, q), \A b \in Blocks : q <= b => df.owners[b] = NULL,
         df.owner_count = Cardinality(Keyed), NEW scan, Scans(scan)
  PROVE  scan[BlockCount].ok
<1> DEFINE S == {k \in Nat : k <= BlockCount => Passing(scan[k], k, q)}
<1>1. BlockCount \in Nat
  BY BlockCountAssumption DEF BlockCountAssumption
<1>2. 0 \in S
  <2>1. scan[0] = [files |-> df.owner_count + 1, blocks |-> 0, file |-> NULL, ok |-> TRUE]
    BY <1>1 DEF Scans, ScanStep
  <2>2. Cardinality(Keyed) \in Nat /\ Cardinality(Started(0)) = 0
    BY StartedEnds, FS_EmptySet, FS_CardinalityType DEF DLocal, KeysFew
  <2>3. scan[0] \in ScanType
    BY <2>1, <2>2 DEF ScanType
  <2>4. Passing(scan[0], 0, q)
    BY <2>1, <2>2, <2>3 DEF Passing
  <2> QED BY <2>4
<1>3. ASSUME NEW k \in S PROVE k + 1 \in S
  <2> SUFFICES ASSUME k + 1 <= BlockCount PROVE Passing(scan[k + 1], k + 1, q)
    OBVIOUS
  <2>1. k \in Nat /\ k \in Blocks /\ k + 1 \in 0 .. BlockCount /\ Passing(scan[k], k, q)
    BY <1>1 DEF Blocks
  <2>2. scan[k + 1] = CheckStep(scan[k], df.owners[k])
    <3>1. scan[k + 1] = ScanStep(scan, k + 1)
      BY <2>1 DEF Scans
    <3>2. k + 1 # 0 /\ k + 1 - 1 = k
      BY <2>1
    <3> QED BY <3>1, <3>2 DEF ScanStep
  <2> QED BY <2>1, <2>2, PassingNext
<1>4. S = Nat
  <2>1. S \in SUBSET Nat
    OBVIOUS
  <2> HIDE DEF S
  <2> QED BY <1>2, <1>3, <2>1, Inductive
<1>5. BlockCount \in S
  <2> HIDE DEF S
  <2> QED BY <1>1, <1>4
<1> QED BY <1>1, <1>5 DEF Passing

\* No check fails: when every file is placed, the new index is made.
LEMMA CheckPasses ==
  ASSUME DLocal, GatherOK, LayoutOK, InDefrag, df.phase = "seek", df.count >= df.owner_count
  PROVE  Checked /\ NothingBeyondEnd /\ Stacked(Keyed, End)
<1> DEFINE q == df.curr_file_block
<1>1. /\ Stacked(Keyed, q) /\ df.owner_count = Cardinality(Keyed)
      /\ \A b \in Blocks : q <= b => df.owners[b] = NULL
  BY AllAreStacked
<1>2. Clean /\ (\A f \in Keyed : Gathers(f)) /\ df.phase # "idle"
  BY DEF GatherOK, InDefrag
<1>3. q \in Nat
  BY DEF DLocal, DInv, MoveOK, DfOK, InDefrag
<1> HIDE DEF q
<1>4. \A scan : Scans(scan) => scan[BlockCount].ok
  BY <1>1, <1>2, <1>3, ScanPasses
<1>5. Checked
  <2>1. Scans(Scan)
    BY ScanIsScan
  <2> QED BY <1>4, <2>1 DEF Checked
<1>6. /\ Blocks \in SUBSET Nat /\ BlockCount \in Nat /\ End \in Nat /\ End <= BlockCount
      /\ \A b \in Blocks : b < BlockCount
      /\ \A b \in Nat : b < BlockCount => b \in Blocks
  BY EndIsFirstGap, BlockCountAssumption DEF Blocks, BlockCountAssumption
<1> HIDE DEF Blocks
<1>7. \A b \in Blocks : b < End <=> df.owners[b] \in Keyed
  <2>1. \A b \in Blocks : df.owners[b] # NULL => b < q /\ df.owners[b] \in Keyed
    BY <1>1, <1>3, <1>6 DEF Stacked
  <2>2. \A b \in Blocks : b < End => df.owners[b] # NULL
    BY EndIsFirstGap DEF Blocks
  <2>3. ASSUME NEW b \in Blocks, df.owners[b] \in Keyed PROVE b < End
    <3> SUFFICES ASSUME End <= b PROVE FALSE
      BY <1>6
    <3>1. End \in Blocks /\ df.owners[End] = NULL
      BY <1>6, EndIsFirstGap
    <3>2. b < q
      BY <1>1, <2>3 DEF Stacked
    <3>3. End < q
      BY <1>3, <1>6, <3>2
    <3>4. NULL \in Keyed
      BY <1>1, <3>1, <3>3 DEF Stacked
    <3> QED BY <3>4, NullAssumption DEF Keyed, NullAssumption
  <2> QED BY <2>1, <2>2, <2>3
<1>8. NothingBeyondEnd
  <2>1. ASSUME NEW b \in End .. BlockCount - 1 PROVE df.owners[b] = NULL
    <3>1. b \in Blocks /\ ~(b < End)
      BY <1>6
    <3>2. df.owners[b] \notin Keyed
      BY <1>7, <3>1
    <3> QED BY <1>2, <3>1, <3>2 DEF DLocal, DfOK
  <2> QED BY <2>1 DEF NothingBeyondEnd
<1>9. Stacked(Keyed, End)
  BY <1>1, <1>7 DEF Stacked
<1> QED BY <1>5, <1>8, <1>9

-----------------------------------------------------------------------------
(* While the marks are right nothing aborts *)

\* What fails an assertion stops there: it changes neither the marks nor the index.
LEMMA AbortsChangeNothing ==
  ASSUME ~MallocMayFail, [Next]_vars
  PROVE  status' \in {status, "destroyed"} \/ UNCHANGED <<used, index, sv>>
<1> DEFINE Stops == status' \in {status, "destroyed"} \/ UNCHANGED <<used, index, sv>>
<1>0. (status' = status \/ status' = "destroyed" \/ UNCHANGED <<used, index, sv>>) => Stops
  OBVIOUS
<1> HIDE DEF Stops
<1>1. CASE SaveStep
  BY <1>0, <1>1 DEF SaveStep, SaveBlock, SaveCluster, SaveReadError, SaveCommit,
     SaveRollback, SaveRollbackFails, SaveAbandoned, SaveInsertAborts, SaveReturns
<1>2. CASE Lookup
  <2>1. ASSUME NEW n \in Names, NEW f \in FileIds, Load(n, f) PROVE Stops
    BY <1>0, <2>1 DEF Load, Halt
  <2>2. ASSUME NEW n \in Names, LoadMissing(n) \/ LoadFailed(n) PROVE Stops
    BY <1>0, <2>2 DEF LoadMissing, LoadFailed, Refuse
  <2>3. ASSUME Dir \/ DirAborts PROVE Stops
    BY <1>0, <2>3 DEF Dir, DirAborts
  <2> QED BY <1>2, <2>1, <2>2, <2>3 DEF Lookup, Stops
<1>3. CASE Alter
  <2>1. ASSUME NEW n \in Names,
               SaveUnopened(n) \/ SaveDuplicate(n) \/ DeleteMissing(n) \/ DeleteUnread(n)
        PROVE  Stops
    BY <1>0, <2>1 DEF SaveUnopened, SaveDuplicate, DeleteMissing, DeleteUnread, Refuse
  <2>2. ASSUME NEW n \in Names, NEW d \in DiskFiles, NEW f \in FileIds, SaveOpen(n, d, f)
        PROVE  Stops
    BY <1>0, <2>2 DEF SaveOpen
  <2>3. ASSUME NEW n \in Names, NEW f \in FileIds, Delete(n, f) PROVE Stops
    BY <1>0, <2>3 DEF Delete, Halt
  <2>4. ASSUME NEW old \in Names, NEW new \in Names,
               RenameRefused(old, new) \/ RenameUnread(old, new) \/ RenameAborts(old, new)
        PROVE  Stops
    BY <1>0, <2>4 DEF RenameRefused, RenameUnread, RenameAborts, Refuse
  <2>5. ASSUME NEW old \in Names, NEW new \in Names, NEW f \in FileIds,
               Rename(old, new, f) \/ RenameLosesFile(old, new, f)
        PROVE  Stops
    BY <1>0, <2>5 DEF Rename, RenameLosesFile
  <2> QED BY <1>3, <2>1, <2>2, <2>3, <2>4, <2>5 DEF Alter, Stops
<1>4. CASE Destroy
  BY <1>0, <1>4 DEF Destroy
<1>5. CASE TouchDangling \/ Halted \/ UNCHANGED vars
  BY <1>0, <1>5 DEF TouchDangling, Halted, Halt, vars
<1>6. Stops
  BY <1>1, <1>2, <1>3, <1>4, <1>5 DEF Next, Stops
<1> QED BY <1>6 DEF Stops

LEMMA MarksStand ==
  ASSUME UNCHANGED <<used, index, sv>>
  PROVE  MarksAgree' = MarksAgree
BY DEF MarksAgree, Pending, Owned, Covers

\* The steps of a defragmentation fail nothing.
LEMMA DefragRuns ==
  ASSUME ~MallocMayFail, Right, LayoutOK, DefragStart \/ DefragUnready \/ Compact
  PROVE  status' = status
<1>1. CASE DefragStart \/ DefragUnready
  BY <1>1 DEF DefragStart, DefragUnready, Refuse
<1>2. CASE DefragSeek
  BY <1>2, LayoutSeek DEF Right, Sound
<1>3. ASSUME NEW p \in Blocks, KeepBlock(p) \/ CopyBlock(p) \/ ShiftBlocks(p)
      PROVE  status' = status
  BY <1>3 DEF KeepBlock, CopyBlock, ShiftBlocks, vars
<1>4. CASE FileCompacted
  BY <1>4 DEF FileCompacted, vars
<1>5. CASE DefragFinish
  <2>1. Checked /\ NothingBeyondEnd
    BY <1>5, CheckPasses DEF Right, Sound, DefragFinish
  <2> QED BY <1>5, <2>1 DEF DefragFinish
<1>6. ~DefragAborts
  BY DEF DefragAborts
<1> QED BY <1>1, <1>2, <1>3, <1>4, <1>5, <1>6 DEF Compact

LEMMA UnmarkedAborts ==
  ASSUME ~MallocMayFail, Right, LayoutOK, HeapExact, AbortsOnlyUnmarked, [DNext]_dvars
  PROVE  AbortsOnlyUnmarked'
<1>1. CASE status' = status /\ NoAbort
  BY <1>1 DEF AbortsOnlyUnmarked, NoAbort
<1>2. CASE UNCHANGED <<used, index, sv, status>>
  BY <1>2, MarksStand DEF AbortsOnlyUnmarked, NoAbort
<1>3. CASE DefragStart \/ DefragUnready \/ Compact
  <2>1. status = "running"
    BY <1>3 DEF DefragStart, DefragUnready, Compact, Ready, Between, DefragSeek, KeepBlock,
       CopyBlock, ShiftBlocks, NextOwned, FileCompacted, DefragFinish, DefragAborts, InDefrag
  <2> QED BY <1>1, <1>3, <2>1, DefragRuns DEF NoAbort
<1>4. CASE Other
  <2>1. CASE status # "running"
    BY <1>2, <1>4, <2>1, StoppedStays DEF Other, vars
  <2>2. CASE df.phase = "idle" /\ status = "running" /\ MarksAgree
    <3>1. IInv
      BY <2>2, RightMarksProtect DEF Right, Sound, CInv
    <3>2. DeleteNeverAborts /\ BlocksMatchLength /\ NoAbort
      BY <2>2, <3>1, NothingRestoredTwice, LengthsFound DEF NoAbort
    <3>3. NoAbort'
      BY <1>4, <3>1, <3>2, NoAbortNext DEF Other
    <3> QED BY <3>3 DEF AbortsOnlyUnmarked
  <2>3. CASE df.phase = "idle" /\ status = "running" /\ ~MarksAgree
    <3>1. status' \in {status, "destroyed"} => NoAbort'
      BY <2>3 DEF NoAbort
    <3>2. UNCHANGED <<used, index, sv>> => ~MarksAgree'
      BY <2>3, MarksStand
    <3> QED BY <1>4, <3>1, <3>2, AbortsChangeNothing DEF Other, AbortsOnlyUnmarked
  <2> QED BY <1>4, <2>1, <2>2, <2>3 DEF Other
<1>5. CASE UNCHANGED dvars
  BY <1>2, <1>5 DEF dvars, vars
<1> QED BY <1>3, <1>4, <1>5 DEF DNext

LEMMA LayoutAlways ==
  ASSUME BlockCount <= PosRange
  PROVE  CautiousSpec => [](Right /\ LayoutOK)
<1>1. CautiousSpec => DInit /\ [][DNext]_dvars
  BY PTL DEF CautiousSpec
<1>2. DInit => LayoutOK
  BY FreshDf DEF DInit, LayoutOK
<1>3. Right /\ LayoutOK /\ [DNext]_dvars => LayoutOK'
  BY LayoutNext DEF Right, Sound, Few
<1> QED BY <1>1, <1>2, <1>3, RightAlways, PTL

LEMMA UnmarkedAbortsAlways ==
  ASSUME BlockCount <= PosRange, ~MallocMayFail
  PROVE  CautiousSpec => []AbortsOnlyUnmarked
<1>1. CautiousSpec => DInit /\ [][DNext]_dvars
  BY PTL DEF CautiousSpec
<1>2. DInit => AbortsOnlyUnmarked
  BY DEF DInit, Init, AbortsOnlyUnmarked, NoAbort
<1>3. /\ Right /\ LayoutOK /\ HeapExact /\ AbortsOnlyUnmarked /\ [DNext]_dvars
      => AbortsOnlyUnmarked'
  BY UnmarkedAborts
<1> QED BY <1>1, <1>2, <1>3, LayoutAlways, HeapStillExactAlways, PTL

\* As long as no malloc fails, nothing aborts but over marks that a defragmentation
\* left wrong: no file is left out when the next is sought (line 783), every check of
\* a compaction passes (lines 831 to 845), and while the marks are right neither a
\* load nor a delete fails an assertion (lines 502, 104 and 105).
THEOREM UnmarkedOnlyAborts ==
  ASSUME BlockCount <= PosRange
  PROVE  CautiousSpec => [](MallocMayFail \/ AbortsOnlyUnmarked)
<1>1. CASE MallocMayFail
  BY <1>1, PTL
<1>2. CASE ~MallocMayFail
  BY <1>2, UnmarkedAbortsAlways, PTL
<1> QED BY <1>1, <1>2

-----------------------------------------------------------------------------
(* Right marks without a hole stay right *)

\* The blocks have not become more or fewer.
LEMMA AsManyBlocks ==
  ASSUME Right, InDefrag
  PROVE  Cardinality(UNION {Owned(f) : f \in Keyed})
           = Cardinality(UNION {Places(f) : f \in Keyed})
<1> DEFINE old == [f \in Keyed |-> Owned(f)]
           new == [f \in Keyed |-> Places(f)]
           count == [f \in Keyed |-> Cardinality(old[f])]
           recount == [f \in Keyed |-> Cardinality(new[f])]
<1>1. IsFiniteSet(Keyed) /\ CInv
  BY DEF Right, Sound, DLocal, KeysFew
<1>2. ASSUME NEW f \in Keyed
      PROVE  IsFiniteSet(old[f]) /\ IsFiniteSet(new[f]) /\ Cardinality(old[f]) = Cardinality(new[f])
  <2>1. f \in FileIds
    BY DEF Keyed
  <2>2. IsFiniteSet(Owned(f)) /\ Cardinality(Owned(f)) = Len(BlocksOf(f))
    BY <1>1, <2>1, BlocksCounted
  <2>3. IsFiniteSet(Places(f)) /\ Cardinality(Places(f)) = Len(BlocksOf(f))
    BY PlacesTypes, OwnersCounted DEF OwnersConserved, Places
  <2> QED BY <2>2, <2>3
<1>3. ASSUME NEW f \in Keyed, NEW g \in Keyed, f # g
      PROVE  old[f] \cap old[g] = {} /\ new[f] \cap new[g] = {}
  <2>1. f \in FileIds /\ g \in FileIds
    BY DEF Keyed
  <2>2. Owned(f) \cap Owned(g) = {}
    BY <1>1, <1>3, <2>1 DEF CInv, Disjoint, Owned
  <2>3. Places(f) \cap Places(g) = {}
    BY <1>3 DEF Places
  <2> QED BY <2>2, <2>3
<1>4. count = recount
  BY <1>2
<1>5. /\ UNION {old[f] : f \in Keyed} = UNION {Owned(f) : f \in Keyed}
      /\ UNION {new[f] : f \in Keyed} = UNION {Places(f) : f \in Keyed}
  OBVIOUS
<1>6. Cardinality(UNION {old[f] : f \in Keyed}) = SumFunctionOnSet(count, Keyed)
  <2> HIDE DEF old, new
  <2> QED BY <1>1, <1>2, <1>3, UnionCounts
<1>7. Cardinality(UNION {new[f] : f \in Keyed}) = SumFunctionOnSet(recount, Keyed)
  <2> HIDE DEF old, new
  <2> QED BY <1>1, <1>2, <1>3, UnionCounts
<1> HIDE DEF old, new, count, recount
<1> QED BY <1>4, <1>5, <1>6, <1>7

\* Two sets of blocks without a hole are the same when they have as many blocks.
LEMMA FrontsAgree ==
  ASSUME NEW S \in SUBSET Blocks, NEW T \in SUBSET Blocks, Cardinality(S) = Cardinality(T),
         \A b \in S : \A c \in Blocks : c <= b => c \in S,
         \A b \in T : \A c \in Blocks : c <= b => c \in T
  PROVE  S = T
<1>1. Blocks \in SUBSET Nat
  BY BlockCountAssumption DEF Blocks, BlockCountAssumption
<1>2. IsFiniteSet(S) /\ IsFiniteSet(T)
  BY BlocksFinite
<1> HIDE DEF Blocks
<1>3. CASE S \subseteq T
  BY <1>2, <1>3, FS_Subset
<1>4. CASE ~(S \subseteq T)
  <2>1. PICK b \in S : b \notin T
    BY <1>4
  <2>2. ASSUME NEW c \in T PROVE c \in S
    <3>1. b \in Blocks /\ c \in Blocks /\ ~(b <= c)
      BY <2>1
    <3>2. c <= b
      BY <1>1, <3>1
    <3> QED BY <2>1, <3>1, <3>2
  <2>3. T \in SUBSET S
    BY <2>2
  <2> QED BY <1>2, <2>3, FS_Subset
<1> QED BY <1>3, <1>4

LEMMA MarksKeptAtFinish ==
  ASSUME Right, LayoutOK, Finished, MarksAgree, NoHole
  PROVE  MarksAgree'
<1>1. /\ InDefrag /\ UNCHANGED sv /\ sv.file = NULL /\ LocalOK /\ DLocal
      /\ index' = NewIndex /\ used' = used \ Unmarked /\ sv.num = 0
  BY DEF Right, Sound, Finished, DefragFinish, InDefrag, DLocal, DfOK, LocalOK, SaveOK
<1>2. Pending = {} /\ Pending' = {}
  <2>1. Pending' = Pending
    BY <1>1 DEF Pending, Covers
  <2> QED BY <1>1, <2>1, IdleHasNoPending
<1>3. PICK last, lost : last = End /\ lost = Unmarked
  OBVIOUS
<1>4. /\ Stacked(Keyed, last) /\ last \in Nat /\ last <= BlockCount
      /\ BlockCount \in Nat /\ Blocks \in SUBSET Nat /\ Blocks = 0 .. BlockCount - 1
  BY <1>1, <1>3, CheckPasses, EndIsFirstGap, BlockCountAssumption
  DEF Right, Sound, Finished, DefragFinish, Blocks, BlockCountAssumption
<1> DEFINE front == {b \in Blocks : b < last}
<1>5. UNION {Places(f) : f \in Keyed} = front
  BY <1>4 DEF Stacked, Places
<1>6. UNION {Owned(f)' : f \in FileIds} = front
  <2>1. Keyed' = Keyed /\ \A f \in Keyed : Owned(f)' = Places(f)
    BY FinishKeepsPlaces DEF Right, Sound, Few
  <2>2. Keyed \subseteq FileIds
    BY DEF Keyed
  <2>3. ASSUME NEW f \in FileIds, f \notin Keyed PROVE Owned(f)' = {}
    <3>1. index'[f] = <<>>
      BY <2>1, <2>3 DEF Keyed
    <3> QED BY <3>1 DEF Owned
  <2>4. UNION {Owned(f)' : f \in FileIds} = UNION {Places(f) : f \in Keyed}
    BY <2>1, <2>2, <2>3
  <2> QED BY <1>5, <2>4
<1>7. used = UNION {Owned(f) : f \in Keyed}
  <2>1. used = UNION {Owned(f) : f \in FileIds}
    BY <1>2 DEF MarksAgree
  <2>2. \A f \in FileIds : f \notin Keyed => Owned(f) = {}
    BY DEF Keyed, Owned
  <2>3. Keyed \subseteq FileIds
    BY DEF Keyed
  <2> QED BY <2>1, <2>2, <2>3
<1>8. used = front
  <2>1. used \in SUBSET Blocks
    BY <1>7 DEF Owned
  <2>2. Cardinality(used) = Cardinality(front)
    BY <1>1, <1>5, <1>7, AsManyBlocks
  <2>3. ASSUME NEW b \in used, NEW c \in Blocks, c <= b PROVE c \in used
    <3>1. c \in 0 .. b
      BY <1>4, <2>1, <2>3
    <3> QED BY <3>1 DEF NoHole
  <2>4. ASSUME NEW b \in front, NEW c \in Blocks, c <= b PROVE c \in front
    BY <1>4, <2>4
  <2> HIDE DEF front
  <2>5. front \in SUBSET Blocks
    BY DEF front
  <2> QED BY <2>1, <2>2, <2>3, <2>4, <2>5, FrontsAgree
<1>9. front \ lost = front
  <2>1. lost = IF last = 0 THEN Blocks ELSE last + 1 .. BlockCount - 1
    BY <1>3 DEF Unmarked
  <2>2. ASSUME NEW b \in front PROVE b \notin lost
    <3>1. b \in Nat /\ b < last /\ last # 0
      BY <1>4, <2>2
    <3> QED BY <1>4, <2>1, <3>1
  <2> QED BY <2>2
<1>10. used' = UNION {Owned(f)' : f \in FileIds}
  <2> HIDE DEF front
  <2> QED BY <1>1, <1>3, <1>6, <1>8, <1>9
<1> QED BY <1>2, <1>10 DEF MarksAgree

\* A defragmentation ends only when its check has passed, or stops the program.
LEMMA EndsFinished ==
  ASSUME DLocal, InDefrag, [DNext]_dvars, df'.phase = "idle"
  PROVE  Finished
<1>1. df.phase # "idle" /\ status = "running" /\ df' # df
  BY DEF InDefrag
<1>2. ~DefragStart /\ ~DefragUnready /\ ~Other /\ ~UNCHANGED dvars /\ ~DefragAborts
  BY <1>1 DEF DefragStart, DefragUnready, Other, dvars, DefragAborts
<1>3. ~DefragSeek
  BY <1>1 DEF DefragSeek, DLocal, DfOK
<1>4. ASSUME NEW p \in Blocks PROVE ~(KeepBlock(p) \/ CopyBlock(p) \/ ShiftBlocks(p))
  BY <1>1 DEF KeepBlock, CopyBlock, ShiftBlocks, NextOwned, Placed, DLocal, DfOK
<1>5. ~FileCompacted
  BY DEF FileCompacted, DLocal, DfOK
<1>6. DefragFinish
  BY <1>2, <1>3, <1>4, <1>5 DEF DNext, Compact
<1>7. ~CheckFails
  BY <1>1 DEF CheckFails
<1> QED BY <1>6, <1>7, FinishedOrNot

\* Marks that are right and have no hole are right after a defragmentation: the
\* blocks of the files come to be the same front of the device as before, and the
\* marks that are cleared (lines 871 to 876) are all behind it.
THEOREM MarksStayRight ==
  ASSUME BlockCount <= PosRange
  PROVE  CautiousSpec => MarksKept
<1>1. CautiousSpec => [][DNext]_dvars
  BY PTL DEF CautiousSpec
<1>2. Right /\ LayoutOK /\ [DNext]_dvars
      => [InDefrag /\ df'.phase = "idle" /\ MarksAgree /\ NoHole => MarksAgree']_dvars
  BY EndsFinished, MarksKeptAtFinish DEF Right, Sound
<1> QED BY <1>1, <1>2, LayoutAlways, PTL DEF MarksKept
=============================================================================
