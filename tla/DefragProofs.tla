----------------------------- MODULE DefragProofs -----------------------------
(***************************************************************************)
(* For every device and whatever the marks and the clusters are: what each *)
(* move of a defragmentation does to the blocks of files, what of the      *)
(* index, the names and the heap no defragmentation spoils, and what its   *)
(* check establishes of the layout it leaves.                              *)
(***************************************************************************)
EXTENDS ImffsDefrag, ImffsProofs, DataLemmas

USE DEF Blocks

\* While a file is moved, its blocks that have been placed lie before the place of
\* the next one, and no other lies before the position reached.
MoveOK ==
  /\ df = [phase |-> df.phase, owners |-> df.owners, owner_count |-> df.owner_count,
           count |-> df.count, curr_file_block |-> df.curr_file_block,
           curr_file |-> df.curr_file, curr_blocks |-> df.curr_blocks, pos |-> df.pos]
  /\ df.owners = [b \in Blocks |-> df.owners[b]]
  /\ df.curr_file_block \in Nat
  /\ df.phase = "move" =>
       /\ df.pos \in Nat
       /\ df.curr_file # NULL
       /\ df.curr_file_block <= df.pos
       /\ \A b \in Blocks :
            df.curr_file_block <= b /\ b < df.pos => df.owners[b] # df.curr_file

DInv == MoveOK /\ DOMAIN data = Blocks

-----------------------------------------------------------------------------
(* What a step does to the blocks *)

\* Whatever permutation of the blocks a step is, this is what has to be shown.
LEMMA Rearranged ==
  ASSUME NEW from \in [Blocks -> Blocks],
         \A b, c \in Blocks : from[b] = from[c] => b = c,
         \A b \in Blocks : \E c \in Blocks : from[c] = b,
         \A b \in Blocks : df'.owners[b] = df.owners[from[b]],
         \A b \in Blocks : df'.owners[b] # NULL => data'[b] = data[from[b]],
         \A b, c \in Blocks :
           b < c /\ df'.owners[b] = df'.owners[c] /\ df'.owners[b] # NULL => from[b] < from[c]
  PROVE  MovesWhole
<1>1. from \in Bijection(Blocks, Blocks)
  <2> HIDE DEF Blocks
  <2> QED BY DEF Bijection, Injection, Surjection, IsInjective
<1> QED BY <1>1 DEF MovesWhole

LEMMA Stays ==
  ASSUME df'.owners = df.owners, data' = data
  PROVE  MovesWhole
<1> DEFINE from == [b \in Blocks |-> b]
<1>1. from \in [Blocks -> Blocks] /\ \A b \in Blocks : from[b] = b
  OBVIOUS
<1> HIDE DEF from
<1> QED BY <1>1, Rearranged

\* The next block of the file lies at or behind the place it goes to, and no block
\* of the file lies between.
LEMMA NextIsAhead ==
  ASSUME MoveOK, NEW p \in Blocks, NextOwned(p)
  PROVE  /\ df.curr_file_block \in Blocks /\ df.curr_file_block <= p
         /\ df.owners[p] = df.curr_file /\ df.curr_file # NULL
         /\ df.pos \in Nat /\ df.pos <= p
         /\ \A b \in Blocks :
              df.curr_file_block <= b /\ b < p => df.owners[b] # df.curr_file
<1>1. /\ df.pos \in Nat /\ df.curr_file_block \in Nat
      /\ df.curr_file_block <= df.pos /\ df.curr_file # NULL
      /\ df.phase = "move"
  BY DEF NextOwned, MoveOK
<1>2. /\ df.pos <= p /\ df.owners[p] = df.curr_file
      /\ \A b \in OwnedFrom(df.curr_file, df.pos) : p <= b
  BY <1>1, BlockCountAssumption DEF NextOwned, OwnedFrom, BlockCountAssumption
<1>3. df.curr_file_block \in Blocks /\ df.curr_file_block <= p
  BY <1>1, <1>2, BlockCountAssumption DEF BlockCountAssumption
<1>4. ASSUME NEW b \in Blocks, df.curr_file_block <= b, b < p
      PROVE  df.owners[b] # df.curr_file
  <2>1. CASE b < df.pos
    BY <1>1, <1>4, <2>1 DEF MoveOK
  <2>2. CASE df.pos <= b
    BY <1>1, <1>2, <1>4, <2>2, BlockCountAssumption DEF OwnedFrom, BlockCountAssumption
  <2> QED BY <1>1, <2>1, <2>2
<1> QED BY <1>1, <1>2, <1>3, <1>4

LEMMA CopyMoves ==
  ASSUME DInv, NEW p \in Blocks, CopyBlock(p)
  PROVE  MovesWhole
<1> DEFINE q == df.curr_file_block
           from == [b \in Blocks |-> IF b = q THEN p ELSE IF b = p THEN q ELSE b]
<1>1. /\ q \in Blocks /\ q <= p
      /\ df.owners[p] = df.curr_file /\ df.curr_file # NULL /\ df.owners[q] = NULL
      /\ \A b \in Blocks : q <= b /\ b < p => df.owners[b] # df.curr_file
  BY NextIsAhead DEF DInv, CopyBlock, Target
<1>2. /\ data' = [data EXCEPT ![q] = data[p]]
      /\ df'.owners = [df.owners EXCEPT ![q] = df.curr_file, ![p] = NULL]
  BY DEF CopyBlock, Placed, DInv, MoveOK
<1>3. /\ data'[q] = data[p]
      /\ \A b \in Blocks \ {q} : data'[b] = data[b]
      /\ df'.owners[q] = df.owners[p] /\ df'.owners[p] = NULL
      /\ \A b \in Blocks \ {p, q} : df'.owners[b] = df.owners[b]
  BY <1>1, <1>2 DEF DInv, MoveOK
<1>4. /\ from \in [Blocks -> Blocks] /\ from[q] = p /\ from[p] = q
      /\ \A b \in Blocks \ {p, q} : from[b] = b
  BY <1>1
<1> HIDE DEF from, q
<1>5. \A b, c \in Blocks : from[b] = from[c] => b = c
  <2> HIDE DEF Blocks
  <2> QED BY <1>1, <1>4
<1>6. \A b \in Blocks : \E c \in Blocks : from[c] = b
  <2> HIDE DEF Blocks
  <2> QED BY <1>1, <1>4
<1>7. /\ \A b \in Blocks : df'.owners[b] = df.owners[from[b]]
      /\ \A b \in Blocks : df'.owners[b] # NULL => data'[b] = data[from[b]]
  BY <1>1, <1>3, <1>4
<1>8. ASSUME NEW b \in Blocks, NEW c \in Blocks,
             b < c, df'.owners[b] = df'.owners[c], df'.owners[b] # NULL
      PROVE  from[b] < from[c]
  <2>1. b # p /\ c # p
    BY <1>3, <1>8
  <2>2. CASE b = q
    <3>1. c # q /\ df.owners[c] = df.curr_file
      BY <1>1, <1>3, <1>8, <2>1, <2>2
    <3>2. p < c
      BY <1>1, <1>8, <2>1, <2>2, <3>1
    <3> QED BY <1>4, <2>1, <2>2, <3>1, <3>2
  <2>3. CASE c = q
    BY <1>1, <1>4, <1>8, <2>1, <2>3
  <2>4. CASE b # q /\ c # q
    BY <1>4, <1>8, <2>1, <2>4
  <2> QED BY <2>2, <2>3, <2>4
<1> QED BY <1>4, <1>5, <1>6, <1>7, <1>8, Rearranged

LEMMA ShiftMoves ==
  ASSUME DInv, NEW p \in Blocks, ShiftBlocks(p)
  PROVE  MovesWhole
<1> DEFINE q == df.curr_file_block
           from == [b \in Blocks |-> IF b = q THEN p
                                     ELSE IF q < b /\ b <= p THEN b - 1 ELSE b]
<1>1. /\ q \in Blocks /\ q <= p
      /\ df.owners[p] = df.curr_file
      /\ \A b \in Blocks : q <= b /\ b < p => df.owners[b] # df.curr_file
  BY NextIsAhead DEF DInv, ShiftBlocks
<1>2. /\ data' = Shifted(data, p, q)
      /\ df'.owners = Shifted(df.owners, p, q)
  BY DEF ShiftBlocks, Placed, DInv, MoveOK
<1>3. /\ from \in [Blocks -> Blocks] /\ from[q] = p
      /\ \A b \in Blocks : q < b /\ b <= p => from[b] = b - 1 /\ b - 1 \in Blocks
      /\ \A b \in Blocks : b < q \/ p < b => from[b] = b
  BY <1>1, BlockCountAssumption DEF BlockCountAssumption
<1>4. \A b \in Blocks : data'[b] = data[from[b]] /\ df'.owners[b] = df.owners[from[b]]
  BY <1>2 DEF Shifted
<1> HIDE DEF from, q
<1>5. \A b, c \in Blocks : from[b] = from[c] => b = c
  BY <1>1, <1>3
<1>6. ASSUME NEW b \in Blocks PROVE \E c \in Blocks : from[c] = b
  <2>1. CASE b = p
    BY <1>1, <1>3, <2>1
  <2>2. CASE q <= b /\ b < p
    <3>1. b + 1 \in Blocks /\ from[b + 1] = b
      <4>1. b + 1 \in Blocks /\ q < b + 1 /\ b + 1 <= p
        BY <1>1, <2>2, BlockCountAssumption DEF BlockCountAssumption
      <4>2. from[b + 1] = b + 1 - 1
        BY <1>3, <4>1
      <4> QED BY <4>1, <4>2
    <3> QED BY <3>1
  <2>3. CASE b < q \/ p < b
    BY <1>3, <2>3
  <2> QED BY <1>1, <2>1, <2>2, <2>3
<1>7. ASSUME NEW b \in Blocks, NEW c \in Blocks,
             b < c, df'.owners[b] = df'.owners[c]
      PROVE  from[b] < from[c]
  <2>1. df.owners[from[b]] = df.owners[from[c]]
    BY <1>4, <1>7
  <2>2. CASE b = q
    <3>1. df.owners[from[c]] = df.curr_file
      BY <1>1, <1>3, <2>1, <2>2
    <3>2. p < c
      BY <1>1, <1>3, <1>7, <2>2, <3>1
    <3> QED BY <1>3, <2>2, <3>2
  <2>3. CASE c = q
    BY <1>1, <1>3, <1>7, <2>3
  <2>4. CASE b # q /\ c # q
    BY <1>1, <1>3, <1>7, <2>4
  <2> QED BY <2>2, <2>3, <2>4
<1> QED BY <1>3, <1>4, <1>5, <1>6, <1>7, Rearranged

\* A block that is kept is in its place already.
LEMMA KeepMoves ==
  ASSUME DInv, NEW p \in Blocks, KeepBlock(p)
  PROVE  MovesWhole
<1>1. df'.owners = df.owners /\ data' = data
  BY DEF KeepBlock, Placed, DInv, MoveOK, vars
<1> QED BY <1>1, Stays

-----------------------------------------------------------------------------
(* The invariant of the moves *)

LEMMA DeviceKeepsSize ==
  ASSUME DOMAIN data = Blocks, Next
  PROVE  DOMAIN data' = Blocks
<1>1. ASSUME NEW b \in Blocks, SaveBlock(b) \/ SaveCluster(b) \/ SaveReadError(b)
      PROVE  DOMAIN data' = Blocks
  BY <1>1 DEF SaveBlock, SaveCluster, StoreChunk, SaveReadError
<1>2. CASE SaveStep
  BY <1>1, <1>2 DEF SaveStep, SaveCommit, SaveRollback, SaveRollbackFails, SaveAbandoned,
                    SaveReturns, SaveInsertAborts, Halt
<1>3. CASE Lookup
  BY <1>3 DEF Lookup, LoadMissing, LoadFailed, Load, Dir, DirAborts, Refuse, Halt
<1>4. CASE Alter
  <2>1. ASSUME NEW n \in Names, NEW f \in FileIds, Delete(n, f)
        PROVE  DOMAIN data' = Blocks
    BY <2>1 DEF Delete, Halt
  <2>2. ASSUME NEW n \in Names,
               \/ SaveUnopened(n) \/ SaveDuplicate(n) \/ DeleteMissing(n) \/ DeleteUnread(n)
               \/ \E f \in FileIds, d \in DiskFiles : SaveOpen(n, d, f)
        PROVE  DOMAIN data' = Blocks
    BY <2>2 DEF SaveUnopened, SaveDuplicate, DeleteMissing, DeleteUnread, SaveOpen, Refuse
  <2>3. ASSUME NEW old \in Names, NEW new \in Names,
               \/ RenameRefused(old, new) \/ RenameUnread(old, new) \/ RenameAborts(old, new)
               \/ \E f \in FileIds : Rename(old, new, f) \/ RenameLosesFile(old, new, f)
        PROVE  DOMAIN data' = Blocks
    BY <2>3 DEF RenameRefused, RenameUnread, RenameAborts, Rename, RenameLosesFile, Refuse, Halt
  <2> QED BY <1>4, <2>1, <2>2, <2>3 DEF Alter
<1>5. CASE Destroy \/ TouchDangling \/ Halted
  BY <1>5 DEF Destroy, TouchDangling, Halted, Halt, vars
<1> QED BY <1>2, <1>3, <1>4, <1>5 DEF Next

\* Before the first move of a file there is nothing behind the position reached.
LEMMA SeekStep ==
  ASSUME DInv, DefragSeek
  PROVE  DInv'
<1>0. data' = data
  BY DEF DefragSeek, Halt, vars
<1>1. CASE Rest = {}
  BY <1>0, <1>1 DEF DefragSeek, DInv, MoveOK
<1>2. CASE Rest # {}
  <2>1. Rest \subseteq Nat /\ \A b \in Rest : df.owners[b] # NULL
    BY BlockCountAssumption DEF Rest, DInv, MoveOK, BlockCountAssumption
  <2>2. NextFile # NULL
    BY <1>2, <2>1, LeastNumber DEF NextFile
  <2> DEFINE file == NextFile
             blocks == BlocksFor(heap[NextFile].byte_len)
  <2>3. df' = [df EXCEPT !.phase = "move", !.curr_file = file, !.curr_blocks = blocks,
                         !.pos = df.curr_file_block]
    BY <1>2 DEF DefragSeek
  <2>4. file # NULL
    BY <2>2
  <2> HIDE DEF file, blocks
  <2>5. /\ df'.phase = "move" /\ df'.owners = df.owners /\ df'.curr_file = file
        /\ df'.curr_file_block = df.curr_file_block /\ df'.pos = df.curr_file_block
        /\ df' = [phase |-> df'.phase, owners |-> df'.owners, owner_count |-> df'.owner_count,
                  count |-> df'.count, curr_file_block |-> df'.curr_file_block,
                  curr_file |-> df'.curr_file, curr_blocks |-> df'.curr_blocks, pos |-> df'.pos]
    BY <2>3 DEF DInv, MoveOK
  <2>6. df.curr_file_block \in Nat /\ df.owners = [b \in Blocks |-> df.owners[b]]
    BY DEF DInv, MoveOK
  <2>7. \A b \in Blocks : ~(df'.curr_file_block <= b /\ b < df'.pos)
    BY <2>5, <2>6, BlockCountAssumption DEF BlockCountAssumption
  <2> QED BY <1>0, <2>4, <2>5, <2>6, <2>7 DEF DInv, MoveOK
<1> QED BY <1>1, <1>2

LEMMA PlacedStep ==
  ASSUME MoveOK, NEW p \in Blocks, NextOwned(p),
         NEW owners, owners = [b \in Blocks |-> owners[b]], df' = Placed(p, owners),
         \A b \in Blocks : df.curr_file_block < b /\ b <= p => owners[b] # df.curr_file
  PROVE  MoveOK'
<1>1. /\ df'.owners = owners /\ df'.curr_file = df.curr_file /\ df'.phase = df.phase
      /\ df'.curr_file_block = df.curr_file_block + 1 /\ df'.pos = p + 1
      /\ df' = [phase |-> df'.phase, owners |-> df'.owners, owner_count |-> df'.owner_count,
                count |-> df'.count, curr_file_block |-> df'.curr_file_block,
                curr_file |-> df'.curr_file, curr_blocks |-> df'.curr_blocks, pos |-> df'.pos]
  BY DEF Placed, MoveOK
<1>2. df.curr_file_block \in Blocks /\ df.curr_file_block <= p /\ df.curr_file # NULL
  BY NextIsAhead
<1>3. /\ df'.curr_file_block \in Nat /\ df'.pos \in Nat
      /\ df'.curr_file_block <= df'.pos
  BY <1>1, <1>2, BlockCountAssumption DEF BlockCountAssumption
<1>4. ASSUME NEW b \in Blocks, df'.curr_file_block <= b, b < df'.pos
      PROVE  owners[b] # df.curr_file
  BY <1>1, <1>2, <1>4, BlockCountAssumption DEF BlockCountAssumption
<1>5. df'.owners = [b \in Blocks |-> df'.owners[b]]
  BY <1>1
<1> HIDE DEF Blocks
<1> QED BY <1>1, <1>2, <1>3, <1>4, <1>5 DEF MoveOK

LEMMA MoveStep ==
  ASSUME DInv, NEW p \in Blocks, KeepBlock(p) \/ CopyBlock(p) \/ ShiftBlocks(p)
  PROVE  DInv'
<1> DEFINE q == df.curr_file_block
<1>1. /\ NextOwned(p) /\ MoveOK /\ q \in Blocks /\ q <= p
      /\ df.owners[p] = df.curr_file /\ df.curr_file # NULL
      /\ \A b \in Blocks : q <= b /\ b < p => df.owners[b] # df.curr_file
      /\ df.owners = [b \in Blocks |-> df.owners[b]]
  BY NextIsAhead DEF KeepBlock, CopyBlock, ShiftBlocks, DInv, MoveOK
<1>2. CASE KeepBlock(p)
  <2>1. df.owners[q] = df.curr_file
    BY <1>2 DEF KeepBlock, Target
  <2>2. p = q
    BY <1>1, <2>1
  <2>3. \A b \in Blocks : q < b /\ b <= p => df.owners[b] # df.curr_file
    BY <2>2
  <2>4. df' = Placed(p, df.owners) /\ data' = data
    BY <1>2 DEF KeepBlock, vars
  <2> QED BY <1>1, <2>3, <2>4, PlacedStep DEF DInv
<1>3. CASE CopyBlock(p)
  <2> DEFINE owners == [df.owners EXCEPT ![q] = df.curr_file, ![p] = NULL]
  <2>1. owners = [b \in Blocks |-> owners[b]]
    BY <1>1
  <2>2. \A b \in Blocks : q < b /\ b <= p => owners[b] # df.curr_file
    BY <1>1
  <2>3. df' = Placed(p, owners) /\ DOMAIN data' = DOMAIN data
    BY <1>3 DEF CopyBlock
  <2> HIDE DEF owners
  <2> QED BY <1>1, <2>1, <2>2, <2>3, PlacedStep DEF DInv
<1>4. CASE ShiftBlocks(p)
  <2> DEFINE owners == Shifted(df.owners, p, q)
  <2>1. owners = [b \in Blocks |-> owners[b]]
    BY DEF Shifted
  <2>2. ASSUME NEW b \in Blocks, q < b, b <= p
        PROVE  owners[b] # df.curr_file
    <3>1. owners[b] = df.owners[b - 1]
      BY <1>1, <2>2 DEF Shifted
    <3>2. b - 1 \in Blocks /\ q <= b - 1 /\ b - 1 < p
      BY <1>1, <2>2, BlockCountAssumption DEF BlockCountAssumption
    <3> QED BY <1>1, <3>1, <3>2
  <2>3. df' = Placed(p, owners) /\ DOMAIN data' = Blocks
    BY <1>4 DEF ShiftBlocks, Shifted
  <2> HIDE DEF owners
  <2> QED BY <1>1, <2>1, <2>2, <2>3, PlacedStep DEF DInv
<1> QED BY <1>2, <1>3, <1>4

LEMMA FreshDefrag ==
  NoDefrag = [phase |-> "idle", owners |-> [b \in Blocks |-> NULL], owner_count |-> 0,
              count |-> 0, curr_file_block |-> 0, curr_file |-> NULL, curr_blocks |-> 0,
              pos |-> 0]
BY DEF NoDefrag, NoOwners

LEMMA StartStep ==
  ASSUME DInv, DefragStart
  PROVE  DInv'
<1> DEFINE owners == Owners
           count == Cardinality(Keyed)
<1>1. df' = [NoDefrag EXCEPT !.phase = "seek", !.owners = owners, !.owner_count = count]
  BY DEF DefragStart
<1>2. owners = [b \in Blocks |-> owners[b]]
  BY DEF Owners
<1>3. data' = data
  BY DEF DefragStart
<1> HIDE DEF owners, count
<1> QED BY <1>1, <1>2, <1>3, FreshDefrag DEF DInv, MoveOK

LEMMA DInvNext ==
  ASSUME DInv, [DNext]_dvars
  PROVE  DInv'
<1>0. ASSUME df' = df, data' = data PROVE DInv'
  BY <1>0 DEF DInv, MoveOK
<1>1. CASE Other
  BY <1>1, DeviceKeepsSize DEF Other, DInv, MoveOK
<1>2. CASE DefragUnready \/ DefragAborts \/ UNCHANGED dvars
  BY <1>0, <1>2 DEF DefragUnready, DefragAborts, Refuse, Halt, dvars, vars
<1>3. CASE FileCompacted
  <2>1. df' = [df EXCEPT !.phase = "seek", !.count = df.count + 1] /\ data' = data
    BY <1>3 DEF FileCompacted, vars
  <2> QED BY <2>1 DEF DInv, MoveOK
<1>4. CASE DefragFinish
  <2>1. data' = data /\ (df' = NoDefrag \/ df' = df)
    BY <1>4 DEF DefragFinish, CheckFails, Halt
  <2>2. CASE df' = NoDefrag
    BY <2>1, <2>2, FreshDefrag DEF DInv, MoveOK
  <2> QED BY <1>0, <2>1, <2>2
<1> QED BY <1>1, <1>2, <1>3, <1>4, StartStep, SeekStep, MoveStep DEF DNext, Compact

LEMMA DInvInit == DInit => DInv
BY FreshDefrag DEF DInit, Init, DInv, MoveOK

\* Every step of the moves rearranges whole blocks.
LEMMA MovesWholeNext ==
  ASSUME DInv, [DNext]_dvars
  PROVE  [InDefrag /\ df'.phase # "idle" => MovesWhole]_dvars
<1> SUFFICES ASSUME DNext, InDefrag, df'.phase # "idle"
             PROVE  MovesWhole
  OBVIOUS
<1>1. ~Other /\ ~DefragStart /\ ~DefragUnready
  BY DEF Other, DefragStart, DefragUnready, InDefrag
<1>2. CASE DefragSeek
  <2>1. df'.owners = df.owners /\ data' = data
    BY <1>2 DEF DefragSeek, Halt, vars, DInv, MoveOK
  <2> QED BY <2>1, Stays
<1>3. CASE FileCompacted
  <2>1. df'.owners = df.owners /\ data' = data
    BY <1>3 DEF FileCompacted, vars, DInv, MoveOK
  <2> QED BY <2>1, Stays
<1>4. CASE DefragFinish \/ DefragAborts
  <2>1. df' = df /\ data' = data
    BY <1>4, FreshDefrag DEF DefragFinish, DefragAborts, CheckFails, Halt
  <2> QED BY <2>1, Stays
<1> QED BY <1>1, <1>2, <1>3, <1>4, CopyMoves, ShiftMoves, KeepMoves DEF DNext, Compact

\* For every device and whatever a defragmentation starts from, its moves (lines
\* 783 to 826) carry each block of a file to one place, with its owner, and keep
\* the order of the blocks of each file.
THEOREM DefragMovesWhole == DSpec => BlocksMoveWhole
<1>1. DInit => DInv
  BY DInvInit
<1>2. DInv /\ [DNext]_dvars => DInv'
  BY DInvNext
<1>3. DInv /\ [DNext]_dvars => [InDefrag /\ df'.phase # "idle" => MovesWhole]_dvars
  BY MovesWholeNext
<1> QED BY <1>1, <1>2, <1>3, PTL DEF DSpec, BlocksMoveWhole

-----------------------------------------------------------------------------
(* The blocks of a set from the front of the device *)

Before(S, b) == Cardinality({c \in S : c < b})

LEMMA BeforeGrows ==
  ASSUME NEW S \in SUBSET Nat, IsFiniteSet(S)
  PROVE  /\ Cardinality(S) \in Nat
         /\ \A b \in S : Before(S, b) \in 0 .. Cardinality(S) - 1
         /\ \A b, c \in S : b < c => Before(S, b) < Before(S, c)
<1>1. \A T \in SUBSET S : IsFiniteSet(T) /\ Cardinality(T) \in Nat
  BY FS_Subset, FS_CardinalityType
<1>2. ASSUME NEW b \in S, NEW T \in SUBSET S, {c \in S : c < b} \subseteq T, b \in T
      PROVE  Before(S, b) < Cardinality(T) /\ Before(S, b) \in Nat
  <2> DEFINE low == {c \in S : c < b}
  <2>1. low \in SUBSET S /\ b \notin low /\ low \cup {b} \subseteq T
    BY <1>2
  <2> HIDE DEF low
  <2>2. IsFiniteSet(low) /\ Cardinality(low) \in Nat /\ IsFiniteSet(T) /\ Cardinality(T) \in Nat
    BY <1>1, <2>1
  <2>3. Cardinality(low \cup {b}) = Cardinality(low) + 1
    BY <2>1, <2>2, FS_AddElement
  <2>4. Cardinality(low \cup {b}) <= Cardinality(T)
    BY <2>1, <2>2, FS_Subset
  <2> QED BY <2>2, <2>3, <2>4 DEF Before, low
<1>3. \A b \in S : Before(S, b) < Cardinality(S) /\ Before(S, b) \in Nat
  BY <1>2
<1>4. ASSUME NEW b \in S, NEW c \in S, b < c PROVE Before(S, b) < Before(S, c)
  <2>1. \A a \in S : a < b => a < c
    <3>1. \A a \in S : a \in Nat
      OBVIOUS
    <3> QED BY <1>4, <3>1
  <2> DEFINE low == {a \in S : a < c}
  <2>2. {a \in S : a < b} \subseteq low /\ low \in SUBSET S /\ b \in low
    BY <1>4, <2>1
  <2>3. Before(S, c) = Cardinality(low)
    BY DEF Before
  <2> HIDE DEF low
  <2> QED BY <1>2, <2>2, <2>3
<1> QED BY <1>1, <1>3, <1>4

LEMMA InOrderAscends ==
  ASSUME NEW S \in SUBSET Nat, IsFiniteSet(S)
  PROVE  /\ InOrder(S) \in Seq(S)
         /\ Len(InOrder(S)) = Cardinality(S) /\ Cardinality(S) \in Nat
         /\ DOMAIN InOrder(S) = 1 .. Cardinality(S)
         /\ \A i \in 1 .. Cardinality(S) : InOrder(S)[i] \in S
         /\ \A i, j \in 1 .. Cardinality(S) : i < j => InOrder(S)[i] < InOrder(S)[j]
         /\ \A b \in S : \E i \in 1 .. Cardinality(S) : InOrder(S)[i] = b
<1> DEFINE n == Cardinality(S)
           s == InOrder(S)
           rank == [b \in S |-> Before(S, b)]
<1>1. n \in Nat /\ rank \in [S -> 0 .. n - 1]
  BY BeforeGrows
<1>2. \A b, c \in S : rank[b] = rank[c] => b = c
  <2> SUFFICES ASSUME NEW b \in S, NEW c \in S, rank[b] = rank[c] PROVE b = c
    OBVIOUS
  <2>1. ~(b < c) /\ ~(c < b)
    BY <1>1, BeforeGrows
  <2> QED BY <2>1
<1>3. ASSUME NEW k \in 0 .. n - 1 PROVE \E b \in S : rank[b] = k
  <2> DEFINE T == (0 .. n - 1) \ {k}
  <2>1. IsFiniteSet(0 .. n - 1) /\ Cardinality(0 .. n - 1) = n
    BY <1>1, FS_Interval
  <2>2. IsFiniteSet(T) /\ Cardinality(T) < n
    <3> DEFINE places == 0 .. n - 1
    <3>1. IsFiniteSet(places) /\ Cardinality(places) = n /\ k \in places /\ T = places \ {k}
      BY <2>1
    <3> HIDE DEF places, n, T
    <3>2. IsFiniteSet(T) /\ Cardinality(T) = n - 1
      BY <3>1, FS_RemoveElement
    <3> QED BY <1>1, <3>2 DEF n
  <2> SUFFICES ASSUME \A b \in S : rank[b] # k PROVE FALSE
    OBVIOUS
  <2>3. rank \in [S -> T]
    BY <1>1
  <2> HIDE DEF rank, T
  <2>4. \E b, c \in S : b # c /\ rank[b] = rank[c]
    BY <2>2, <2>3, FS_PigeonHole
  <2> QED BY <1>2, <2>4
<1>4. s = [i \in 1 .. n |-> CHOOSE b \in S : Before(S, b) = i - 1]
  BY DEF InOrder, Before
<1>5. ASSUME NEW i \in 1 .. n PROVE s[i] \in S /\ rank[s[i]] = i - 1
  <2>1. i - 1 \in 0 .. n - 1
    BY <1>1
  <2>2. \E b \in S : Before(S, b) = i - 1
    BY <1>3, <2>1
  <2> HIDE DEF s, n
  <2> QED BY <1>4, <2>2
<1>6. DOMAIN s = 1 .. n
  BY <1>4
<1> HIDE DEF s, n
<1>7. s \in Seq(S) /\ Len(s) = n
  <2>1. s = [i \in 1 .. n |-> s[i]]
    BY <1>4
  <2>2. s \in [1 .. n -> S]
    BY <1>5, <2>1
  <2> QED BY <1>1, <2>2
<1>8. ASSUME NEW i \in 1 .. n, NEW j \in 1 .. n, i < j PROVE s[i] < s[j]
  <2>1. s[i] \in S /\ s[j] \in S /\ s[i] \in Nat /\ s[j] \in Nat
        /\ Before(S, s[i]) = i - 1 /\ Before(S, s[j]) = j - 1
    BY <1>5
  <2>2. s[j] < s[i] => Before(S, s[j]) < Before(S, s[i])
    BY <2>1, BeforeGrows
  <2>3. s[i] # s[j] /\ ~(s[j] < s[i])
    BY <1>1, <1>8, <2>1, <2>2
  <2> QED BY <2>1, <2>3
<1>9. ASSUME NEW b \in S PROVE \E i \in 1 .. n : s[i] = b
  <2>1. rank[b] + 1 \in 1 .. n /\ rank[b] \in Nat
    BY <1>1
  <2>2. rank[s[rank[b] + 1]] = rank[b] /\ s[rank[b] + 1] \in S
    BY <1>5, <2>1
  <2> HIDE DEF rank
  <2> QED BY <1>2, <2>1, <2>2
<1> QED BY <1>1, <1>5, <1>6, <1>7, <1>8, <1>9 DEF s, n

\* A rising sequence of all the elements of a set is that set in order.
LEMMA InOrderUnique ==
  ASSUME NEW S \in SUBSET Nat, IsFiniteSet(S), NEW s \in Seq(S), Rising(s),
         \A b \in S : \E i \in 1 .. Len(s) : s[i] = b
  PROVE  s = InOrder(S)
<1> DEFINE n == Len(s)
<1>1. n \in Nat /\ DOMAIN s = 1 .. n /\ s = [i \in 1 .. n |-> s[i]]
      /\ \A i \in 1 .. n : s[i] \in S /\ s[i] \in Nat
  OBVIOUS
<1>2. \A i, j \in 1 .. n : i < j => s[i] < s[j]
  BY DEF Rising
<1> HIDE DEF n
<1>3. \A i, j \in 1 .. n : s[i] = s[j] => i = j
  <2> SUFFICES ASSUME NEW i \in 1 .. n, NEW j \in 1 .. n, s[i] = s[j] PROVE i = j
    OBVIOUS
  <2>1. ~(i < j) /\ ~(j < i)
    BY <1>1, <1>2
  <2> QED BY <1>1, <2>1
<1>4. ASSUME NEW k \in 0 .. n, NEW T, T = {s[j] : j \in 1 .. k}
      PROVE  IsFiniteSet(T) /\ Cardinality(T) = k
  <2> DEFINE part == [j \in 1 .. k |-> s[j]]
  <2>1. part \in Bijection(1 .. k, T)
    <3>1. 1 .. k \subseteq 1 .. n
      BY <1>1
    <3>2. part \in [1 .. k -> T] /\ \A b \in T : \E j \in 1 .. k : part[j] = b
      BY <1>4
    <3>3. \A i, j \in 1 .. k : part[i] = part[j] => i = j
      BY <1>3, <3>1
    <3> HIDE DEF part
    <3> QED BY <3>2, <3>3 DEF Bijection, Injection, Surjection, IsInjective
  <2>2. IsFiniteSet(1 .. k) /\ Cardinality(1 .. k) = k
    <3>1. k \in Nat /\ 1 \in Int
      BY <1>1
    <3>2. IsFiniteSet(1 .. k) /\ Cardinality(1 .. k) = IF 1 > k THEN 0 ELSE k - 1 + 1
      BY <3>1, FS_Interval
    <3> HIDE DEF part
    <3> QED BY <3>1, <3>2
  <2>3. ExistsBijection(1 .. k, T)
    <3> HIDE DEF part
    <3> QED BY <2>1 DEF ExistsBijection
  <2> QED BY <2>2, <2>3, FS_Bijection
<1>5. ASSUME NEW i \in 1 .. n PROVE Before(S, s[i]) = i - 1
  <2>1. i - 1 \in 0 .. n
    BY <1>1
  <2>2. {c \in S : c < s[i]} = {s[j] : j \in 1 .. i - 1}
    <3>1. ASSUME NEW c \in S, c < s[i] PROVE \E j \in 1 .. i - 1 : s[j] = c
      <4>1. PICK j \in 1 .. n : s[j] = c
        BY DEF n
      <4>2. j # i /\ ~(i < j)
        BY <1>1, <1>2, <3>1, <4>1
      <4>3. j \in 1 .. i - 1
        BY <1>1, <4>2
      <4> QED BY <4>1, <4>3
    <3>2. ASSUME NEW j \in 1 .. i - 1 PROVE s[j] \in S /\ s[j] < s[i]
      <4>1. j \in 1 .. n /\ j < i
        BY <1>1
      <4> QED BY <1>1, <1>2, <4>1
    <3> QED BY <3>1, <3>2
  <2> QED BY <1>4, <2>1, <2>2 DEF Before
<1>6. S = {s[j] : j \in 1 .. n}
  <2>1. \A b \in S : \E i \in 1 .. n : s[i] = b
    BY DEF n
  <2>2. \A i \in 1 .. n : s[i] \in S
    BY <1>1
  <2> QED BY <2>1, <2>2
<1>7. n = Cardinality(S)
  <2>1. n \in 0 .. n
    BY <1>1
  <2> QED BY <1>4, <1>6, <2>1
<1>8. ASSUME NEW i \in 1 .. n
      PROVE  s[i] = CHOOSE b \in S : Cardinality({c \in S : c < b}) = i - 1
  <2>1. \A b \in S : Before(S, b) = i - 1 => b = s[i]
    <3> SUFFICES ASSUME NEW b \in S, Before(S, b) = i - 1 PROVE b = s[i]
      OBVIOUS
    <3>1. PICK j \in 1 .. n : s[j] = b
      BY DEF n
    <3>2. j - 1 = i - 1
      BY <1>5, <3>1
    <3>3. j = i
      BY <1>1, <3>2
    <3> QED BY <3>1, <3>3
  <2>2. s[i] \in S /\ Before(S, s[i]) = i - 1
    BY <1>1, <1>5
  <2> QED BY <2>1, <2>2 DEF Before
<1>9. InOrder(S) = [i \in 1 .. n |-> CHOOSE b \in S : Cardinality({c \in S : c < b}) = i - 1]
  BY <1>7 DEF InOrder
<1> QED BY <1>1, <1>8, <1>9

-----------------------------------------------------------------------------
(* What the other operations leave to a defragmentation *)

\* A process that has stopped does nothing.
LEMMA StoppedStays ==
  ASSUME Next, status # "running"
  PROVE  UNCHANGED vars
<1>1. ~SaveStep
  BY DEF SaveStep, SaveBlock, SaveCluster, SaveReadError, Looping, SaveCommit, SaveRollback,
         SaveRollbackFails, SaveAbandoned, SaveInsertAborts, LoopOver, Saving
<1>2. ~Lookup
  BY DEF Lookup, LoadMissing, LoadFailed, Load, Dir, DirAborts, Ready, Between
<1>3. ~Alter
  BY DEF Alter, SaveUnopened, SaveDuplicate, DeleteMissing, DeleteUnread, Delete, SaveOpen,
         RenameRefused, RenameUnread, RenameAborts, Rename, RenameLosesFile, Ready, Between
<1>4. ~Destroy /\ ~TouchDangling
  BY DEF Destroy, TouchDangling, Ready, Between
<1> QED BY <1>1, <1>2, <1>3, <1>4 DEF Next, Halted

\* Only the file being saved becomes a key.
LEMMA KeysFollow ==
  ASSUME LocalOK, [Next]_vars
  PROVE  Keyed' \subseteq Keyed \cup {sv.file}
<1>0. ASSUME UNCHANGED index PROVE Keyed' \subseteq Keyed \cup {sv.file}
  BY <1>0 DEF Keyed
<1>1. ASSUME \A f \in FileIds : index'[f] = index[f] \/ index'[f] = <<>>
      PROVE  Keyed' \subseteq Keyed \cup {sv.file}
  BY <1>1 DEF Keyed
<1>2. ASSUME index' = Inserted(sv.file, Ended) \/ index' = index
      PROVE  Keyed' \subseteq Keyed \cup {sv.file}
  <2>1. \A f \in FileIds \ {sv.file} : index'[f] = index[f]
    BY <1>2 DEF Inserted, LocalOK, TypeOK
  <2> QED BY <2>1 DEF Keyed
<1>3. ASSUME NEW f \in FileIds, index' = [index EXCEPT ![f] = <<>>]
      PROVE  Keyed' \subseteq Keyed \cup {sv.file}
  BY <1>1, <1>3 DEF LocalOK, TypeOK
<1>4. CASE SaveStep
  <2>1. ASSUME NEW b \in Blocks, SaveBlock(b) \/ SaveCluster(b) \/ SaveReadError(b)
        PROVE  Keyed' \subseteq Keyed \cup {sv.file}
    BY <1>0, <1>2, <2>1 DEF SaveBlock, SaveCluster, SaveReadError
  <2>2. CASE SaveRollback
    BY <1>3, <2>2 DEF SaveRollback, LoopOver, Saving, LocalOK, TypeOK
  <2> QED BY <1>0, <1>2, <1>4, <2>1, <2>2
          DEF SaveStep, SaveCommit, SaveRollbackFails, SaveAbandoned, SaveInsertAborts, Halt
<1>5. CASE Lookup
  BY <1>0, <1>5 DEF Lookup, LoadMissing, LoadFailed, Refuse, Load, Dir, DirAborts, Halt
<1>6. CASE Alter
  <2>1. ASSUME NEW n \in Names, NEW f \in FileIds, Delete(n, f)
        PROVE  Keyed' \subseteq Keyed \cup {sv.file}
    BY <1>0, <1>3, <2>1 DEF Delete, Halt
  <2>2. ASSUME NEW n \in Names,
               \/ SaveUnopened(n) \/ SaveDuplicate(n) \/ DeleteMissing(n) \/ DeleteUnread(n)
               \/ \E f \in FileIds, d \in DiskFiles : SaveOpen(n, d, f)
        PROVE  Keyed' \subseteq Keyed \cup {sv.file}
    BY <1>0, <2>2 DEF SaveUnopened, SaveDuplicate, DeleteMissing, DeleteUnread, SaveOpen, Refuse
  <2>3. ASSUME NEW old \in Names, NEW new \in Names,
               \/ RenameRefused(old, new) \/ RenameUnread(old, new) \/ RenameAborts(old, new)
               \/ \E f \in FileIds : Rename(old, new, f)
        PROVE  Keyed' \subseteq Keyed \cup {sv.file}
    BY <1>0, <2>3 DEF RenameRefused, RenameUnread, RenameAborts, Rename, Refuse, Halt
  <2>4. ASSUME NEW old \in Names, NEW new \in Names, NEW f \in FileIds,
               RenameLosesFile(old, new, f)
        PROVE  Keyed' \subseteq Keyed \cup {sv.file}
    BY <1>3, <2>4 DEF RenameLosesFile
  <2> QED BY <1>6, <2>1, <2>2, <2>3, <2>4 DEF Alter
<1>7. CASE Destroy
  BY <1>1, <1>7 DEF Destroy
<1>8. CASE TouchDangling \/ Halted \/ UNCHANGED vars
  BY <1>0, <1>8 DEF TouchDangling, Halted, Halt, vars
<1> QED BY <1>4, <1>5, <1>6, <1>7, <1>8 DEF Next

\* The owners found in the index are keys: among the finite claims of a block one
\* is the last.
KeysFew == IsFiniteSet(Keyed)

LEMMA LastByRank ==
  ASSUME NEW S, IsFiniteSet(S), NEW rank \in [S -> Nat]
  PROVE  S # {} => \E f \in S : \A g \in S : rank[g] <= rank[f]
<1> DEFINE P == {T \in SUBSET S : T # {} => \E f \in T : \A g \in T : rank[g] <= rank[f]}
<1>1. {} \in P
  OBVIOUS
<1>2. ASSUME NEW T \in SUBSET S, T # {}, \A x \in T : T \ {x} \in P PROVE T \in P
  <2>1. PICK x : x \in T
    BY <1>2
  <2>2. CASE T \ {x} = {}
    <3>1. \A g \in T : g = x
      BY <2>2
    <3> QED BY <2>1, <3>1
  <2>3. CASE T \ {x} # {}
    <3>1. PICK f \in T \ {x} : \A g \in T \ {x} : rank[g] <= rank[f]
      BY <1>2, <2>1, <2>3
    <3>2. CASE rank[x] <= rank[f]
      <4>1. \A g \in T : rank[g] <= rank[f]
        BY <3>1, <3>2
      <4> QED BY <3>1, <4>1
    <3>3. CASE rank[f] <= rank[x]
      <4>1. \A g \in T : rank[g] <= rank[x]
        BY <2>1, <3>1, <3>3
      <4> QED BY <2>1, <4>1
    <3>4. rank[x] \in Nat /\ rank[f] \in Nat
      BY <2>1, <3>1
    <3> QED BY <3>2, <3>3, <3>4
  <2> QED BY <2>2, <2>3
<1>3. P = SUBSET S
  <2>1. P \in SUBSET SUBSET S
    OBVIOUS
  <2> HIDE DEF P
  <2> QED BY <1>1, <1>2, <2>1, EverySubset
<1>4. S \in P
  BY <1>3
<1> QED BY <1>4

LEMMA OwnersAreKeys ==
  ASSUME LocalOK, KeysFew, Clean
  PROVE  /\ Owners = [b \in Blocks |-> Owners[b]]
         /\ \A b \in Blocks :
              /\ Claimants(b) = {} => Owners[b] = NULL
              /\ Claimants(b) # {} => Owners[b] \in Claimants(b)
         /\ \A b \in Blocks : Owners[b] \in (Keyed \cap FileIds) \cup {NULL}
<1>1. Owners = [b \in Blocks |-> IF Claimants(b) = {} THEN NULL ELSE LastClaimant(b)]
  BY DEF Owners
<1>2. ASSUME NEW b \in Blocks, Claimants(b) # {} PROVE LastClaimant(b) \in Claimants(b)
  <2> DEFINE S == Claimants(b)
             rank == [f \in S |-> Rank[heap[f].name]]
  <2>1. S \in SUBSET Keyed /\ IsFiniteSet(S)
    BY FS_Subset DEF Claimants, KeysFew
  <2>2. \A f \in S : heap[f] \in FileRecord
    BY <2>1 DEF Clean, Keyed, LocalOK, TypeOK
  <2>3. \A f \in S : Rank[heap[f].name] \in Nat
    BY <2>2, RankAssumption DEF RankAssumption, FileRecord
  <2>4. rank \in [S -> Nat]
    BY <2>3
  <2>5. \E f \in S : \A g \in S : rank[g] <= rank[f]
    <3> HIDE DEF rank, S
    <3>1. S # {}
      BY <1>2 DEF S
    <3> QED BY <2>1, <2>4, <3>1, LastByRank
  <2>6. \E f \in S : \A g \in S : Rank[heap[g].name] <= Rank[heap[f].name]
    BY <2>5
  <2> HIDE DEF S, rank
  <2> QED BY <2>6 DEF LastClaimant, S
<1>3. \A b \in Blocks :
        /\ Claimants(b) = {} => Owners[b] = NULL
        /\ Claimants(b) # {} => Owners[b] \in Claimants(b)
  <2> HIDE DEF Blocks
  <2> QED BY <1>1, <1>2
<1>4. \A b \in Blocks : Claimants(b) \subseteq Keyed \cap FileIds
  BY DEF Claimants, Keyed
<1>5. Owners = [b \in Blocks |-> Owners[b]]
  <2> HIDE DEF Blocks
  <2> QED BY <1>1
<1> QED BY <1>3, <1>4, <1>5

-----------------------------------------------------------------------------
(* The new index *)

LEMMA EndIsFirstGap ==
  /\ End \in 0 .. BlockCount
  /\ \A b \in Blocks : b < End => df.owners[b] # NULL
  /\ End < BlockCount => df.owners[End] = NULL
<1> DEFINE gaps == {b \in Blocks : df.owners[b] = NULL}
<1>1. End = IF gaps = {} THEN BlockCount ELSE Min(gaps)
  BY DEF End
<1>2. CASE gaps = {}
  BY <1>1, <1>2, BlockCountAssumption DEF BlockCountAssumption
<1>3. CASE gaps # {}
  <2>1. gaps \in SUBSET Nat
    BY BlockCountAssumption DEF BlockCountAssumption
  <2>2. Min(gaps) \in gaps /\ \A b \in gaps : Min(gaps) <= b
    <3> HIDE DEF gaps
    <3> QED BY <1>3, <2>1, LeastNumber
  <2>3. End \in gaps /\ \A b \in gaps : End <= b
    BY <1>1, <1>3, <2>2
  <2> QED BY <2>3, BlockCountAssumption DEF BlockCountAssumption
<1> QED BY <1>2, <1>3

\* A run is as long as its owner stays the same.
LEMMA RunIsMaximal ==
  ASSUME NEW b \in 0 .. End - 1
  PROVE  /\ RunOf(b) \in Cluster /\ RunOf(b).start = b
         /\ RunOf(b).num > 0 /\ b + RunOf(b).num <= End
         /\ \A c \in b .. b + RunOf(b).num - 1 : df.owners[c] = df.owners[b]
         /\ b + RunOf(b).num < End => df.owners[b + RunOf(b).num] # df.owners[b]
<1> DEFINE others == {c \in b .. End - 1 : df.owners[c] # df.owners[b]} \cup {End}
           last == Min(others)
<1>1. End \in Nat /\ b \in Nat /\ b < End
  BY EndIsFirstGap, BlockCountAssumption DEF BlockCountAssumption
<1>2. others \in SUBSET Nat /\ others # {}
  BY <1>1
<1>3. last \in others /\ \A c \in others : last <= c
  <2> HIDE DEF others
  <2> QED BY <1>2, LeastNumber
<1>4. RunOf(b) = [start |-> b, num |-> last - b]
  BY DEF RunOf
<1> HIDE DEF last
<1>5. last \in Nat /\ b < last /\ last <= End
  BY <1>1, <1>3
<1>6. \A c \in b .. last - 1 : df.owners[c] = df.owners[b]
  BY <1>1, <1>3, <1>5
<1>7. last < End => df.owners[last] # df.owners[b]
  BY <1>1, <1>3, <1>5
<1>8. RunOf(b).num = last - b /\ RunOf(b).start = b /\ RunOf(b) \in Cluster /\ b + (last - b) = last
  <2>1. last - b \in Nat /\ b + (last - b) = last
    BY <1>1, <1>5
  <2> QED BY <1>1, <1>4, <2>1 DEF Cluster
<1> HIDE DEF others
<1> QED BY <1>1, <1>5, <1>6, <1>7, <1>8

LEMMA RunStartsOrdered ==
  ASSUME NEW f
  PROVE  /\ RunStarts(f) \in SUBSET Nat /\ IsFiniteSet(RunStarts(f))
         /\ RunStarts(f) \subseteq 0 .. End - 1
<1>1. End \in Nat
  BY EndIsFirstGap, BlockCountAssumption DEF BlockCountAssumption
<1>2. RunStarts(f) \subseteq 0 .. End - 1
  BY DEF RunStarts
<1>3. IsFiniteSet(0 .. End - 1)
  BY <1>1, FS_Interval
<1> QED BY <1>1, <1>2, <1>3, FS_Subset

\* The clusters of a file in the new index: the runs of its blocks, in order and
\* apart, on the device.
LEMMA NewClusters ==
  ASSUME NEW f \in FileIds
  PROVE  /\ NewIndex[f] \in Seq(Cluster)
         /\ Len(NewIndex[f]) = Cardinality(RunStarts(f))
         /\ \A i \in DOMAIN NewIndex[f] :
              /\ NewIndex[f][i].start \in RunStarts(f)
              /\ NewIndex[f][i] = RunOf(NewIndex[f][i].start)
              /\ NewIndex[f][i].num > 0
              /\ NewIndex[f][i].start + NewIndex[f][i].num <= End
         /\ \A i \in 1 .. Len(NewIndex[f]) - 1 :
              NewIndex[f][i].start + NewIndex[f][i].num < NewIndex[f][i + 1].start
         /\ \A b \in RunStarts(f) : \E i \in DOMAIN NewIndex[f] : NewIndex[f][i].start = b
<1> DEFINE S == RunStarts(f)
           starts == InOrder(S)
           n == Cardinality(S)
           new == NewIndex[f]
<1>1. S \in SUBSET Nat /\ IsFiniteSet(S) /\ S \subseteq 0 .. End - 1
  BY RunStartsOrdered
<1> HIDE DEF S
<1>2. /\ n \in Nat /\ DOMAIN starts = 1 .. n
      /\ \A i \in 1 .. n : starts[i] \in S
      /\ \A i, j \in 1 .. n : i < j => starts[i] < starts[j]
      /\ \A b \in S : \E i \in 1 .. n : starts[i] = b
  BY <1>1, InOrderAscends
<1>3. new = [i \in DOMAIN starts |-> RunOf(starts[i])]
  BY DEF NewIndex, S
<1>4. new = [i \in 1 .. n |-> RunOf(starts[i])]
  BY <1>2, <1>3
<1> HIDE DEF new, starts, n
<1>5. ASSUME NEW i \in 1 .. n
      PROVE  /\ starts[i] \in S /\ starts[i] \in 0 .. End - 1
             /\ new[i] = RunOf(starts[i]) /\ new[i] \in Cluster /\ new[i].start = starts[i]
             /\ new[i].num > 0 /\ starts[i] + new[i].num <= End
             /\ \A c \in starts[i] .. starts[i] + new[i].num - 1 : df.owners[c] = f
  <2>1. starts[i] \in S /\ starts[i] \in 0 .. End - 1
    BY <1>1, <1>2
  <2>2. df.owners[starts[i]] = f
    BY <2>1 DEF S, RunStarts
  <2> QED BY <1>4, <2>1, <2>2, RunIsMaximal
<1>6. new \in Seq(Cluster) /\ Len(new) = n /\ DOMAIN new = 1 .. n
  <2>1. new \in [1 .. n -> Cluster]
    <3> HIDE DEF Cluster
    <3>1. \A i \in 1 .. n : new[i] \in Cluster
      BY <1>5
    <3> QED BY <1>4, <3>1
  <2> HIDE DEF Cluster
  <2> QED BY <1>2, <2>1
<1>7. ASSUME NEW i \in 1 .. n - 1
      PROVE  new[i].start + new[i].num < new[i + 1].start
  <2> DEFINE a == starts[i]
             z == starts[i + 1]
             k == new[i].num
  <2>1. i \in 1 .. n /\ i + 1 \in 1 .. n
    BY <1>2
  <2>2. /\ a \in Nat /\ z \in Nat /\ a < z /\ k \in Nat /\ z \in S
        /\ \A c \in a .. a + k - 1 : df.owners[c] = f
    <3>1. a \in Nat /\ z \in Nat
      BY <1>5, <2>1
    <3>2. k \in Nat
      BY <1>5, <2>1 DEF Cluster
    <3>3. a < z
      <4>1. i < i + 1
        OBVIOUS
      <4> QED BY <1>2, <2>1, <4>1
    <3>4. z \in S /\ \A c \in a .. a + k - 1 : df.owners[c] = f
      BY <1>5, <2>1
    <3> HIDE DEF a, z, k
    <3> QED BY <3>1, <3>2, <3>3, <3>4
  <2>3. z # 0 => df.owners[z - 1] # f
    BY <2>2 DEF S, RunStarts
  <2>4. new[i].start = a /\ new[i + 1].start = z
    BY <1>5, <2>1
  <2> HIDE DEF a, z, k
  <2>5. ~(z <= a + k)
    <3> SUFFICES ASSUME z <= a + k PROVE FALSE
      OBVIOUS
    <3>1. z - 1 \in a .. a + k - 1
      BY <2>2
    <3> QED BY <2>2, <2>3, <3>1
  <2>6. a + k < z
    BY <2>2, <2>5
  <2> QED BY <2>4, <2>6 DEF k
<1>8. \A i \in DOMAIN new :
        /\ new[i].start \in S /\ new[i] = RunOf(new[i].start)
        /\ new[i].num > 0 /\ new[i].start + new[i].num <= End
  <2> SUFFICES ASSUME NEW i \in 1 .. n
               PROVE  /\ new[i].start \in S /\ new[i] = RunOf(new[i].start)
                      /\ new[i].num > 0 /\ new[i].start + new[i].num <= End
    BY <1>6
  <2>1. new[i].start = starts[i]
    BY <1>5
  <2> QED BY <1>5, <2>1
<1>9. \A b \in S : \E i \in DOMAIN new : new[i].start = b
  <2> SUFFICES ASSUME NEW b \in S PROVE \E i \in DOMAIN new : new[i].start = b
    OBVIOUS
  <2>1. PICK i \in 1 .. n : starts[i] = b
    BY <1>2
  <2> QED BY <1>5, <1>6, <2>1
<1> QED BY <1>6, <1>7, <1>8, <1>9 DEF new, S, n

-----------------------------------------------------------------------------
(* What imffs keeps whatever is defragmented and whatever the marks are *)

\* While a defragmentation runs no save does, and its owners are live keys.
DfOK ==
  /\ df \in [phase : {"idle", "seek", "move"},
             owners : [Blocks -> FileIds \cup {NULL}],
             owner_count : Nat, count : Nat, curr_file_block : 0 .. BlockCount,
             curr_file : FileIds \cup {NULL}, curr_blocks : Nat,
             pos : 0 .. BlockCount]
  /\ df.phase # "idle" =>
       /\ sv.file = NULL
       /\ \A b \in Blocks :
            df.owners[b] # NULL => df.owners[b] \in Keyed /\ heap[df.owners[b]] # NULL

DLocal == LocalOK /\ DInv /\ DfOK /\ KeysFew

\* What the steps of a defragmentation leave alone.
LEMMA DeviceFrame ==
  ASSUME LocalOK, UNCHANGED <<used, index, heap, sv>>,
         status' \in {"running", "aborted", "undefined", "destroyed"},
         data' \in [Blocks -> Chunks \cup {Garbage}]
  PROVE  LocalOK'
BY DEF LocalOK, TypeOK, SaveOK, OnDevice

LEMMA FreshDf ==
  /\ NoDefrag \in [phase : {"idle", "seek", "move"},
                   owners : [Blocks -> FileIds \cup {NULL}],
                   owner_count : Nat, count : Nat, curr_file_block : 0 .. BlockCount,
                   curr_file : FileIds \cup {NULL}, curr_blocks : Nat,
                   pos : 0 .. BlockCount]
  /\ NoDefrag.phase = "idle"
<1>1. 0 \in 0 .. BlockCount
  BY BlockCountAssumption DEF BlockCountAssumption
<1>2. [b \in Blocks |-> NULL] \in [Blocks -> FileIds \cup {NULL}]
  OBVIOUS
<1> HIDE DEF Blocks
<1> QED BY <1>1, <1>2, FreshDefrag

LEMMA LocalStart ==
  ASSUME DLocal, DefragStart
  PROVE  DLocal'
<1>1. UNCHANGED <<data, used, index, heap, sv, status>> /\ sv.file = NULL /\ Clean
  BY DEF DefragStart, Ready, Between
<1>2. LocalOK'
  BY <1>1, LocalFrame DEF DLocal, LocalOK, TypeOK
<1>3. DInv'
  BY StartStep DEF DLocal
<1> DEFINE owners == Owners
           count == Cardinality(Keyed)
<1>4. /\ owners = [b \in Blocks |-> owners[b]]
      /\ \A b \in Blocks : owners[b] \in (Keyed \cap FileIds) \cup {NULL}
  BY <1>1, OwnersAreKeys DEF DLocal
<1>5. owners \in [Blocks -> FileIds \cup {NULL}]
  <2> HIDE DEF owners
  <2> QED BY <1>4
<1>6. count \in Nat
  BY FS_CardinalityType DEF DLocal, KeysFew
<1>7. df' = [NoDefrag EXCEPT !.phase = "seek", !.owners = owners, !.owner_count = count]
  BY DEF DefragStart
<1>8. DfOK'
  <2> HIDE DEF owners, count, Blocks
  <2>1. /\ df' \in [phase : {"idle", "seek", "move"},
                    owners : [Blocks -> FileIds \cup {NULL}],
                    owner_count : Nat, count : Nat, curr_file_block : 0 .. BlockCount,
                    curr_file : FileIds \cup {NULL}, curr_blocks : Nat,
                    pos : 0 .. BlockCount]
        /\ df'.owners = owners
    BY <1>5, <1>6, <1>7, FreshDf
  <2>2. \A b \in Blocks : owners[b] # NULL => owners[b] \in Keyed /\ heap[owners[b]] # NULL
    BY <1>1, <1>4 DEF Clean
  <2>3. Keyed' = Keyed
    BY <1>1 DEF Keyed
  <2> QED BY <1>1, <2>1, <2>2, <2>3 DEF DfOK
<1>9. KeysFew'
  BY <1>1 DEF DLocal, KeysFew, Keyed
<1> QED BY <1>2, <1>3, <1>8, <1>9 DEF DLocal

LEMMA LocalSeek ==
  ASSUME DLocal, DefragSeek
  PROVE  DLocal'
<1>1. UNCHANGED <<data, used, index, heap, sv>> /\ status' \in {status, "undefined"}
  BY DEF DefragSeek, Halt, vars
<1>2. LocalOK' /\ KeysFew' /\ Keyed' = Keyed
  BY <1>1, LocalFrame DEF DLocal, LocalOK, TypeOK, KeysFew, Keyed
<1>3. DInv'
  BY SeekStep DEF DLocal
<1>4. DfOK'
  <2>1. CASE Rest = {}
    BY <1>1, <1>2, <2>1 DEF DefragSeek, DLocal, DfOK
  <2>2. CASE Rest # {}
    <3> DEFINE file == NextFile
               blocks == BlocksFor(heap[NextFile].byte_len)
    <3>1. df' = [df EXCEPT !.phase = "move", !.curr_file = file, !.curr_blocks = blocks,
                           !.pos = df.curr_file_block]
      BY <2>2 DEF DefragSeek
    <3>2. Rest \in SUBSET Blocks /\ Rest \in SUBSET Nat
          /\ \A b \in Rest : df.owners[b] # NULL
      BY BlockCountAssumption DEF Rest, DLocal, DfOK, BlockCountAssumption
    <3>3. file \in Keyed /\ heap[file] # NULL
      <4>1. Min(Rest) \in Rest
        BY <2>2, <3>2, LeastNumber
      <4> QED BY <3>2, <4>1 DEF NextFile, DLocal, DfOK, DefragSeek, InDefrag
    <3>4. file \in FileIds /\ blocks \in Nat
      <4>1. file \in FileIds
        BY <3>3 DEF Keyed
      <4>2. heap[file] \in FileRecord
        BY <3>3, <4>1 DEF DLocal, LocalOK, TypeOK
      <4>3. heap[file].byte_len \in Nat
        BY <4>2 DEF FileRecord
      <4> QED BY <4>1, <4>3, BytesPerBlockAssumption DEF BlocksFor, BytesPerBlockAssumption
    <3> HIDE DEF file, blocks
    <3>5. /\ df' \in [phase : {"idle", "seek", "move"},
                      owners : [Blocks -> FileIds \cup {NULL}],
                      owner_count : Nat, count : Nat, curr_file_block : 0 .. BlockCount,
                      curr_file : FileIds \cup {NULL}, curr_blocks : Nat,
                      pos : 0 .. BlockCount]
          /\ df'.owners = df.owners
      <4> HIDE DEF Blocks
      <4> QED BY <3>1, <3>4 DEF DLocal, DfOK
    <3> QED BY <1>1, <1>2, <3>5 DEF DLocal, DfOK, DefragSeek, InDefrag
  <2> QED BY <2>1, <2>2
<1> QED BY <1>2, <1>3, <1>4 DEF DLocal

\* A move gives no block to anything but an owner.
LEMMA LocalPlaced ==
  ASSUME DLocal, NEW p \in Blocks, NextOwned(p), NEW owners, df' = Placed(p, owners),
         owners = [b \in Blocks |-> owners[b]],
         \A b \in Blocks : owners[b] \in {df.owners[c] : c \in Blocks} \cup {NULL},
         UNCHANGED <<used, index, heap, sv, status>>,
         data' \in [Blocks -> Chunks \cup {Garbage}],
         DInv'
  PROVE  DLocal'
<1>1. LocalOK' /\ KeysFew' /\ Keyed' = Keyed
  BY DeviceFrame DEF DLocal, LocalOK, TypeOK, KeysFew, Keyed
<1>2. /\ df.curr_file_block \in Blocks /\ df.curr_file_block <= p
      /\ df.curr_blocks \in Nat /\ df.curr_blocks > 0
  BY NextIsAhead DEF DLocal, DInv, DfOK, NextOwned
<1>3. /\ p + 1 \in 0 .. BlockCount /\ df.curr_file_block + 1 \in 0 .. BlockCount
      /\ df.curr_blocks - 1 \in Nat
  BY <1>2, BlockCountAssumption DEF BlockCountAssumption
<1>4. \A b \in Blocks :
        owners[b] # NULL => owners[b] \in Keyed /\ heap[owners[b]] # NULL
  BY DEF DLocal, DfOK, NextOwned, InDefrag
<1>5. owners \in [Blocks -> FileIds \cup {NULL}]
  BY <1>4 DEF Keyed
<1>6. /\ df' \in [phase : {"idle", "seek", "move"},
                  owners : [Blocks -> FileIds \cup {NULL}],
                  owner_count : Nat, count : Nat, curr_file_block : 0 .. BlockCount,
                  curr_file : FileIds \cup {NULL}, curr_blocks : Nat,
                  pos : 0 .. BlockCount]
      /\ df'.owners = owners
  <2> HIDE DEF Blocks
  <2> QED BY <1>3, <1>5 DEF Placed, DLocal, DfOK
<1>7. sv'.file = NULL
  BY DEF DLocal, DfOK, NextOwned, InDefrag
<1>8. DfOK'
  BY <1>1, <1>4, <1>6, <1>7 DEF DfOK
<1> QED BY <1>1, <1>8 DEF DLocal

LEMMA LocalMove ==
  ASSUME DLocal, NEW p \in Blocks, KeepBlock(p) \/ CopyBlock(p) \/ ShiftBlocks(p)
  PROVE  DLocal'
<1> DEFINE q == df.curr_file_block
<1>1. DInv'
  BY MoveStep DEF DLocal
<1>2. NextOwned(p) /\ q \in Blocks /\ q <= p /\ df.owners[p] = df.curr_file
  BY NextIsAhead DEF KeepBlock, CopyBlock, ShiftBlocks, DLocal, DInv
<1>3. /\ data \in [Blocks -> Chunks \cup {Garbage}]
      /\ df.owners = [b \in Blocks |-> df.owners[b]]
      /\ UNCHANGED <<used, index, heap, sv, status>>
  BY DEF DLocal, LocalOK, TypeOK, DInv, MoveOK, KeepBlock, CopyBlock, ShiftBlocks, vars
<1>4. CASE KeepBlock(p)
  <2>1. df' = Placed(p, df.owners) /\ data' = data
    BY <1>4 DEF KeepBlock, vars
  <2> QED BY <1>1, <1>2, <1>3, <2>1, LocalPlaced
<1>5. CASE CopyBlock(p)
  <2> DEFINE owners == [df.owners EXCEPT ![q] = df.curr_file, ![p] = NULL]
  <2>1. df' = Placed(p, owners) /\ data' = [data EXCEPT ![q] = data[p]]
    BY <1>5 DEF CopyBlock
  <2>2. data' \in [Blocks -> Chunks \cup {Garbage}]
    BY <1>2, <1>3, <2>1
  <2>3. /\ owners = [b \in Blocks |-> owners[b]]
        /\ \A b \in Blocks : owners[b] \in {df.owners[c] : c \in Blocks} \cup {NULL}
    BY <1>2, <1>3
  <2> HIDE DEF owners
  <2> QED BY <1>1, <1>2, <1>3, <2>1, <2>2, <2>3, LocalPlaced
<1>6. CASE ShiftBlocks(p)
  <2> DEFINE owners == Shifted(df.owners, p, q)
  <2>1. df' = Placed(p, owners) /\ data' = Shifted(data, p, q)
    BY <1>6 DEF ShiftBlocks
  <2>2. \A b \in Blocks : q < b => b - 1 \in Blocks
    BY <1>2, BlockCountAssumption DEF BlockCountAssumption
  <2>3. data' \in [Blocks -> Chunks \cup {Garbage}]
    BY <1>2, <1>3, <2>1, <2>2 DEF Shifted
  <2>4. /\ owners = [b \in Blocks |-> owners[b]]
        /\ \A b \in Blocks : owners[b] \in {df.owners[c] : c \in Blocks} \cup {NULL}
    BY <1>2, <2>2 DEF Shifted
  <2> HIDE DEF owners
  <2> QED BY <1>1, <1>2, <1>3, <2>1, <2>3, <2>4, LocalPlaced
<1> QED BY <1>4, <1>5, <1>6

\* A defragmentation that succeeds.
Finished ==
  /\ DefragFinish
  /\ Checked /\ NothingBeyondEnd
  /\ df' = NoDefrag /\ index' = NewIndex /\ used' = used \ Unmarked
  /\ reply' = Reply("defrag", NULL, "OK")
  /\ UNCHANGED <<data, heap, sv, status>>

LEMMA FinishedOrNot ==
  ASSUME DefragFinish
  PROVE  Finished \/ CheckFails
BY DEF DefragFinish, Finished

\* Every key of the new index owns a block, so it was a key of the old one.
LEMMA KeysRebuilt ==
  ASSUME DLocal, Finished
  PROVE  /\ Keyed' \subseteq Keyed
         /\ \A f \in Keyed' : \E b \in Blocks : df.owners[b] = f /\ f # NULL
<1>1. index' = NewIndex /\ NewIndex = [f \in FileIds |-> NewIndex[f]]
  BY DEF Finished, NewIndex
<1>2. ASSUME NEW f \in Keyed' PROVE \E b \in Blocks : df.owners[b] = f /\ f \in Keyed /\ f # NULL
  <2>1. f \in FileIds /\ NewIndex[f] # <<>>
    BY <1>1 DEF Keyed
  <2>2. Len(NewIndex[f]) = Cardinality(RunStarts(f)) /\ NewIndex[f] \in Seq(Cluster)
    BY <2>1, NewClusters
  <2>3. RunStarts(f) # {}
    <3> HIDE DEF Cluster
    <3> SUFFICES ASSUME RunStarts(f) = {} PROVE FALSE
      OBVIOUS
    <3>1. Len(NewIndex[f]) = 0
      BY <2>2, FS_EmptySet
    <3> QED BY <2>1, <2>2, <3>1
  <2>4. PICK b \in RunStarts(f) : TRUE
    BY <2>3
  <2>5. b \in Blocks /\ df.owners[b] = f /\ f # NULL
    <3>1. b \in 0 .. End - 1 /\ df.owners[b] = f
      BY <2>4 DEF RunStarts
    <3>2. End \in 0 .. BlockCount
      BY EndIsFirstGap
    <3> QED BY <2>1, <3>1, <3>2, BlockCountAssumption, NullAssumption
            DEF BlockCountAssumption, NullAssumption
  <2> QED BY <2>5 DEF DLocal, DfOK, Finished, DefragFinish, InDefrag
<1> QED BY <1>2

LEMMA LocalFinish ==
  ASSUME DLocal, Finished
  PROVE  DLocal'
<1>1. /\ index' = NewIndex /\ used' = used \ Unmarked /\ df' = NoDefrag
      /\ UNCHANGED <<data, heap, sv, status>>
      /\ sv.file = NULL
  BY DEF Finished, DefragFinish, InDefrag, DLocal, DfOK
<1>2. index' \in [FileIds -> Seq(Cluster)]
  <2>1. \A f \in FileIds : NewIndex[f] \in Seq(Cluster)
    BY NewClusters
  <2>2. NewIndex = [f \in FileIds |-> NewIndex[f]]
    BY DEF NewIndex
  <2> HIDE DEF Cluster
  <2> QED BY <1>1, <2>1, <2>2
<1>3. TypeOK'
  BY <1>1, <1>2 DEF DLocal, LocalOK, TypeOK
<1>4. OnDevice'
  <2> SUFFICES ASSUME NEW f \in FileIds, NEW i \in DOMAIN NewIndex[f]
               PROVE  /\ NewIndex[f][i].num > 0
                      /\ NewIndex[f][i].start + NewIndex[f][i].num <= BlockCount
    BY <1>1 DEF OnDevice
  <2>1. NewIndex[f][i].num > 0 /\ NewIndex[f][i].start + NewIndex[f][i].num <= End
    BY NewClusters
  <2>2. End \in 0 .. BlockCount
    BY EndIsFirstGap
  <2>3. NewIndex[f][i] \in Cluster
    <3>1. NewIndex[f] \in Seq(Cluster)
      BY NewClusters
    <3> HIDE DEF Cluster
    <3> QED BY <3>1
  <2> QED BY <2>1, <2>2, <2>3, BlockCountAssumption DEF Cluster, BlockCountAssumption
<1>5. SaveOK'
  <2>1. sv.num = 0 /\ ~sv.eof
    BY <1>1 DEF DLocal, LocalOK, SaveOK, TypeOK
  <2> QED BY <1>1, <2>1 DEF SaveOK
<1>6. DInv'
  BY DInvNext DEF DLocal, DNext, Compact, Finished
<1>7. DfOK'
  <2>1. df'.phase = "idle"
    BY <1>1, FreshDf
  <2> HIDE DEF Blocks
  <2> QED BY <1>1, <2>1, FreshDf DEF DfOK
<1>8. KeysFew'
  <2>1. Keyed' \in SUBSET Keyed
    BY KeysRebuilt
  <2> QED BY <2>1, FS_Subset DEF DLocal, KeysFew
<1> QED BY <1>3, <1>4, <1>5, <1>6, <1>7, <1>8 DEF DLocal, LocalOK

\* Steps that leave the device as it is.
LEMMA LocalUnchanged ==
  ASSUME DLocal, UNCHANGED <<data, used, index, heap, sv>>,
         status' \in {"running", "aborted", "undefined", "destroyed"},
         DInv', df' = df
  PROVE  DLocal'
<1>1. LocalOK' /\ Keyed' = Keyed
  BY LocalFrame DEF DLocal, Keyed
<1>2. DfOK'
  BY <1>1 DEF DLocal, DfOK
<1> QED BY <1>1, <1>2 DEF DLocal, KeysFew

LEMMA LocalCompacted ==
  ASSUME DLocal, FileCompacted
  PROVE  DLocal'
<1>1. df' = [df EXCEPT !.phase = "seek", !.count = df.count + 1] /\ UNCHANGED vars
  BY DEF FileCompacted
<1>2. LocalOK' /\ Keyed' = Keyed
  BY <1>1, LocalNext DEF DLocal, Keyed, vars
<1>3. DInv'
  BY DInvNext DEF DLocal, DNext, Compact
<1>4. /\ df' \in [phase : {"idle", "seek", "move"},
                  owners : [Blocks -> FileIds \cup {NULL}],
                  owner_count : Nat, count : Nat, curr_file_block : 0 .. BlockCount,
                  curr_file : FileIds \cup {NULL}, curr_blocks : Nat,
                  pos : 0 .. BlockCount]
      /\ df'.owners = df.owners
  <2>1. df.count + 1 \in Nat
    BY DEF DLocal, DfOK
  <2> HIDE DEF Blocks
  <2> QED BY <1>1, <2>1 DEF DLocal, DfOK
<1>5. DfOK'
  BY <1>1, <1>2, <1>4 DEF DLocal, DfOK, FileCompacted, InDefrag, vars
<1> QED BY <1>2, <1>3, <1>5 DEF DLocal, KeysFew

LEMMA LocalOther ==
  ASSUME DLocal, Other
  PROVE  DLocal'
<1>1. LocalOK' /\ DInv' /\ df' = df
  BY LocalNext, DInvNext DEF DLocal, DNext, Other
<1>2. CASE df.phase = "idle"
  <2>1. DfOK'
    BY <1>1, <1>2 DEF DLocal, DfOK
  <2>2. Keyed' \in SUBSET (Keyed \cup {sv.file})
    BY KeysFollow DEF DLocal, Other
  <2>3. IsFiniteSet(Keyed \cup {sv.file})
    BY FS_AddElement DEF DLocal, KeysFew
  <2> QED BY <1>1, <2>1, <2>2, <2>3, FS_Subset DEF DLocal, KeysFew
<1>3. CASE status # "running"
  <2>1. UNCHANGED vars
    BY <1>3, StoppedStays DEF Other
  <2> QED BY <1>1, <2>1, LocalUnchanged DEF vars, DLocal, LocalOK, TypeOK
<1> QED BY <1>2, <1>3 DEF Other

LEMMA DLocalNext ==
  ASSUME DLocal, [DNext]_dvars
  PROVE  DLocal'
<1>1. DInv'
  BY DInvNext DEF DLocal
<1>2. CASE DefragUnready \/ DefragAborts \/ UNCHANGED dvars
  BY <1>1, <1>2, LocalUnchanged
  DEF DefragUnready, DefragAborts, Refuse, Halt, dvars, vars, DLocal, LocalOK, TypeOK
<1>3. CASE DefragFinish
  <2>1. CASE CheckFails
    BY <1>1, <2>1, LocalUnchanged DEF CheckFails, Halt
  <2> QED BY <1>3, <2>1, FinishedOrNot, LocalFinish
<1> QED BY <1>2, <1>3, LocalOther, LocalStart, LocalSeek, LocalMove, LocalCompacted
        DEF DNext, Compact

LEMMA DLocalInit == DInit => DLocal
<1> SUFFICES ASSUME DInit PROVE DLocal
  OBVIOUS
<1>1. LocalOK
  BY LocalInit, BlockCountAssumption DEF DInit
<1>2. DfOK
  <2> HIDE DEF Blocks
  <2> QED BY FreshDf DEF DInit, DfOK
<1>3. Keyed = {}
  BY DEF DInit, Init, Keyed
<1> QED BY <1>1, <1>2, <1>3, DInvInit, FS_EmptySet DEF DLocal, KeysFew

\* Beside the other operations, only the end of a defragmentation touches the index.
LEMMA IndexSteps ==
  ASSUME DLocal, [DNext]_dvars
  PROVE  \/ [Next]_vars
         \/ Finished
         \/ UNCHANGED <<used, index, heap, sv>>
<1>1. CASE DefragFinish
  BY <1>1, FinishedOrNot DEF CheckFails, Halt
<1>2. CASE \E p \in Blocks : KeepBlock(p) \/ CopyBlock(p) \/ ShiftBlocks(p)
  BY <1>2 DEF KeepBlock, CopyBlock, ShiftBlocks, vars
<1> QED BY <1>1, <1>2
        DEF DNext, Other, DefragStart, DefragUnready, Refuse, Compact, DefragSeek, FileCompacted,
            DefragAborts, Halt, dvars, vars

LEMMA AscendStep ==
  ASSUME DLocal, ClustersAscend, EndedBefore, [DNext]_dvars
  PROVE  ClustersAscend' /\ EndedBefore'
<1>1. CASE [Next]_vars
  BY <1>1, AscendNext DEF DLocal
<1>2. CASE Finished
  <2>1. index' = NewIndex /\ sv' = sv /\ sv.file = NULL
    BY <1>2 DEF Finished, DefragFinish, InDefrag, DLocal, DfOK
  <2>2. ClustersAscend'
    BY <2>1, NewClusters DEF ClustersAscend
  <2> QED BY <2>1, <2>2 DEF EndedBefore
<1>3. CASE UNCHANGED <<used, index, heap, sv>>
  BY <1>3 DEF ClustersAscend, EndedBefore
<1> QED BY <1>1, <1>2, <1>3, IndexSteps

LEMMA NamesStep ==
  ASSUME DLocal, NamesUnique, [DNext]_dvars
  PROVE  NamesUnique'
<1>1. CASE [Next]_vars
  BY <1>1, NamesUniqueNext DEF DLocal
<1>2. CASE Finished
  <2>1. UNCHANGED <<heap, sv>> /\ Keyed' \subseteq Keyed
    BY <1>2, KeysRebuilt DEF Finished
  <2>2. Live' \subseteq Live /\ \A f \in Live' : heap'[f].name = heap[f].name
    BY <2>1 DEF Live
  <2> QED BY <2>2, NamesKept
<1>3. CASE UNCHANGED <<used, index, heap, sv>>
  BY <1>3 DEF NamesUnique, Live, Keyed
<1> QED BY <1>1, <1>2, <1>3, IndexSteps

LEMMA LocalTypes == DLocal => DTypeOK
BY DEF DLocal, LocalOK, DfOK, DTypeOK

\* Whatever is defragmented at any time, and whatever follows from its wrong marks,
\* the locals of imffs_defrag stay in their ranges (a5_imffs.c, 726 to 876), ...
THEOREM DefragTypes == DSpec => []DTypeOK
<1>1. DInit => DLocal
  BY DLocalInit
<1>2. DLocal /\ [DNext]_dvars => DLocal'
  BY DLocalNext
<1> QED BY <1>1, <1>2, LocalTypes, PTL DEF DSpec

\* ... every cluster that imffs_save or imffs_defrag enters lies on the device, ...
THEOREM ClustersOnDevice == DSpec => []OnDevice
<1>1. DInit => DLocal
  BY DLocalInit
<1>2. DLocal /\ [DNext]_dvars => DLocal'
  BY DLocalNext
<1>3. DLocal => OnDevice
  BY DEF DLocal, LocalOK
<1> QED BY <1>1, <1>2, <1>3, PTL DEF DSpec

\* ... the clusters of a file ascend and no two touch, ...
THEOREM ClustersStillApart == DSpec => []ClustersAscend
<1>1. DInit => DLocal
  BY DLocalInit
<1>2. DLocal /\ [DNext]_dvars => DLocal'
  BY DLocalNext
<1>3. DInit => ClustersAscend /\ EndedBefore
  BY DEF DInit, Init, ClustersAscend, EndedBefore, Idle
<1>4. DLocal /\ ClustersAscend /\ EndedBefore /\ [DNext]_dvars => ClustersAscend' /\ EndedBefore'
  BY AscendStep
<1> QED BY <1>1, <1>2, <1>3, <1>4, PTL DEF DSpec

\* ... no two files, nor a file and one that is being saved, go by one name, ...
THEOREM NamesStillUnique == DSpec => []NamesUnique
<1>1. DInit => DLocal
  BY DLocalInit
<1>2. DLocal /\ [DNext]_dvars => DLocal'
  BY DLocalNext
<1>3. DInit => NamesUnique
  BY DEF DInit, Init, NamesUnique, Live, Keyed, Idle
<1>4. DLocal /\ NamesUnique /\ [DNext]_dvars => NamesUnique'
  BY NamesStep
<1> QED BY <1>1, <1>2, <1>3, <1>4, PTL DEF DSpec

-----------------------------------------------------------------------------
(* A file has no more blocks than its length needs, however wrong the marks are *)

\* The blocks of the file that is being saved.
Stowed == Owned(sv.file) \cup Pending

FewStowed ==
  sv.file # NULL /\ sv.ok =>
    IF sv.eof THEN Cardinality(Stowed) <= BlocksFor(heap[sv.file].byte_len)
    ELSE Cardinality(Stowed) * BytesPerBlock <= heap[sv.file].byte_len

FewOwned ==
  \A f \in Keyed \ {sv.file} :
    heap[f] # NULL => Cardinality(Owned(f)) <= BlocksFor(heap[f].byte_len)

LEMMA FullBlocks ==
  ASSUME NEW B \in Nat \ {0}, NEW n \in Nat, NEW bytes \in Nat, n * B <= bytes
  PROVE  n <= bytes \div B
<1> DEFINE q == bytes \div B
<1>1. q \in Nat /\ bytes < q * B + B
  OBVIOUS
<1> HIDE DEF q
<1>2. (q + 1) * B = q * B + B /\ q * B \in Nat
  BY <1>1
<1>3. q + 1 <= n => (q + 1) * B <= n * B
  BY <1>1
<1>4. n * B \in Nat /\ (q + 1) * B \in Nat
  BY <1>1
<1>5. ~(q + 1 <= n)
  BY <1>1, <1>2, <1>3, <1>4
<1> QED BY <1>1, <1>5 DEF q

LEMMA BlocksFinite ==
  ASSUME NEW S \in SUBSET Blocks
  PROVE  IsFiniteSet(S) /\ Cardinality(S) \in Nat
<1>1. IsFiniteSet(0 .. BlockCount - 1)
  BY BlockCountAssumption, FS_Interval DEF BlockCountAssumption
<1> QED BY <1>1, FS_Subset, FS_CardinalityType

LEMMA SubsetCount ==
  ASSUME NEW T \in SUBSET Blocks, NEW S \in SUBSET T
  PROVE  Cardinality(S) <= Cardinality(T) /\ Cardinality(S) \in Nat /\ Cardinality(T) \in Nat
<1>1. S \in SUBSET Blocks /\ T \in SUBSET Blocks
  OBVIOUS
<1> QED BY <1>1, BlocksFinite, FS_Subset

\* One block more, and what is read into it.
LEMMA OneBlockMore ==
  ASSUME NEW S \in SUBSET Blocks, NEW T \in SUBSET Blocks, NEW b \in Blocks,
         T \subseteq S \cup {b},
         NEW bytes \in Nat, NEW got \in Nat, got <= BytesPerBlock,
         Cardinality(S) * BytesPerBlock <= bytes
  PROVE  IF got < BytesPerBlock THEN Cardinality(T) <= BlocksFor(bytes + got)
         ELSE Cardinality(T) * BytesPerBlock <= bytes + got
<1> DEFINE n == Cardinality(S)
           m == Cardinality(T)
           B == BytesPerBlock
<1>1. B \in Nat \ {0}
  BY BytesPerBlockAssumption DEF BytesPerBlockAssumption
<1>2. n \in Nat /\ m \in Nat /\ m <= n + 1
  <2>1. IsFiniteSet(S) /\ IsFiniteSet(T) /\ n \in Nat /\ m \in Nat
    BY BlocksFinite
  <2>2. IsFiniteSet(S \cup {b}) /\ Cardinality(S \cup {b}) <= n + 1
    <3>1. IsFiniteSet(S \cup {b}) /\ Cardinality(S \cup {b}) = IF b \in S THEN n ELSE n + 1
      BY <2>1, FS_AddElement
    <3> HIDE DEF n, m
    <3> QED BY <2>1, <3>1
  <2>3. m <= Cardinality(S \cup {b}) /\ Cardinality(S \cup {b}) \in Nat
    BY <2>2, FS_Subset, FS_CardinalityType
  <2> HIDE DEF n, m
  <2> QED BY <2>1, <2>2, <2>3
<1>3. n * B <= bytes
  OBVIOUS
<1> HIDE DEF n, m, B
<1>4. n * B <= bytes + got /\ n * B \in Nat
  BY <1>1, <1>2, <1>3
<1>5. n <= (bytes + got) \div B
  BY <1>1, <1>2, <1>4, FullBlocks
<1>6. (bytes + got) \div B \in Nat
  BY <1>1
<1>7. CASE got < B
  <2>1. m <= (bytes + got) \div B + 1
    BY <1>2, <1>5, <1>6
  <2> QED BY <1>7, <2>1 DEF BlocksFor, m, B
<1>8. CASE got = B
  <2>1. (n + 1) * B = n * B + B
    BY <1>1, <1>2
  <2>2. m * B <= (n + 1) * B
    BY <1>1, <1>2
  <2>3. m * B <= bytes + got
    <3>1. m * B \in Nat /\ (n + 1) * B \in Nat
      BY <1>1, <1>2
    <3> QED BY <1>1, <1>3, <1>4, <1>8, <2>1, <2>2, <3>1
  <2>4. ~(got < B)
    BY <1>1, <1>8
  <2> QED BY <2>3, <2>4 DEF m, B
<1> QED BY <1>1, <1>7, <1>8 DEF B

\* A cluster entered in the index holds the pending blocks and no other.
LEMMA InsertedOwns ==
  ASSUME LocalOK, sv.file \in FileIds, sv.num > 0, index' = Inserted(sv.file, Ended)
  PROVE  \A f \in FileIds : f = sv.file => Owned(f)' \subseteq Stowed
<1>1. \A g \in FileIds : \A i \in DOMAIN index'[g] :
        \/ i \in DOMAIN index[g] /\ index'[g][i] = index[g][i]
        \/ g = sv.file /\ i = Len(index[sv.file]) + 1 /\ index'[g][i] = Ended
  BY InsertedOnDevice, BlockCountAssumption
<1>2. \A b \in Blocks : Covers(Ended, b) => b \in Pending
  BY DEF Ended, Pending, Covers
<1> QED BY <1>1, <1>2 DEF Stowed, Owned, Covers

\* The files other than the one in hand stay as they are, or go.
LEMMA FewOwnedKept ==
  ASSUME FewOwned,
         \A f \in FileIds : f \in Keyed' /\ f # sv'.file /\ heap'[f] # NULL =>
           /\ f \in Keyed /\ f # sv.file /\ heap[f] # NULL
           /\ index'[f] = index[f] /\ heap'[f].byte_len = heap[f].byte_len
  PROVE  FewOwned'
<1> SUFFICES ASSUME NEW f \in Keyed', f # sv'.file, heap'[f] # NULL
             PROVE  (Cardinality(Owned(f)) <= BlocksFor(heap[f].byte_len))'
  BY DEF FewOwned
<1>1. f \in FileIds
  BY DEF Keyed
<1>2. /\ f \in Keyed \ {sv.file} /\ heap[f] # NULL
      /\ index'[f] = index[f] /\ heap'[f].byte_len = heap[f].byte_len
  BY <1>1
<1>3. Owned(f)' = Owned(f)
  BY <1>2 DEF Owned, Covers
<1> QED BY <1>2, <1>3 DEF FewOwned, BlocksFor

LEMMA StowedInBlocks ==
  /\ Stowed \in SUBSET Blocks
  /\ Stowed' \in SUBSET Blocks
BY DEF Stowed, Owned, Pending

\* A save that goes on takes one block for what it reads.
LEMMA StowedMore ==
  ASSUME LocalOK, FewStowed, NEW b \in Blocks, StoreChunk(b), Looping,
         sv'.file = sv.file, sv'.eof = AtEof, Stowed' \subseteq Stowed \cup {b}
  PROVE  FewStowed'
<1>1. sv.file # NULL /\ sv.file \in FileIds /\ sv.ok /\ ~sv.eof
  BY DEF Looping, Saving, LocalOK, TypeOK
<1>2. heap'[sv.file].byte_len = heap[sv.file].byte_len + Got
  BY <1>1, StoreChunkTypes, BytesPerBlockAssumption, SizeAssumption, NullAssumption
<1>3. Got \in Nat
  BY <1>1, GotBounds, BytesPerBlockAssumption, SizeAssumption DEF LocalOK
<1> DEFINE S == Stowed
           T == Stowed'
           bytes == heap[sv.file].byte_len
           got == Got
<1>4. got \in Nat /\ got <= BytesPerBlock
  BY <1>3, BytesPerBlockAssumption DEF Got, Lesser, BytesPerBlockAssumption
<1>5. bytes \in Nat
  BY <1>1 DEF LocalOK, TypeOK, FileRecord
<1>6. Cardinality(S) * BytesPerBlock <= bytes
  BY <1>1 DEF FewStowed
<1>7. S \in SUBSET Blocks /\ T \in SUBSET Blocks /\ T \subseteq S \cup {b}
  BY StowedInBlocks
<1>8. IF got < BytesPerBlock THEN Cardinality(T) <= BlocksFor(bytes + got)
      ELSE Cardinality(T) * BytesPerBlock <= bytes + got
  <2> HIDE DEF S, T, bytes, got
  <2> QED BY <1>4, <1>5, <1>6, <1>7, OneBlockMore
<1>9. heap'[sv'.file].byte_len = bytes + got /\ sv'.eof = (got < BytesPerBlock)
  BY <1>2 DEF AtEof
<1>10. IF sv'.eof THEN Cardinality(T) <= BlocksFor(heap'[sv'.file].byte_len)
       ELSE Cardinality(T) * BytesPerBlock <= heap'[sv'.file].byte_len
  <2> HIDE DEF T, bytes, got
  <2> QED BY <1>8, <1>9
<1> QED BY <1>10 DEF FewStowed, BlocksFor

\* What a step of a save does to other files.
LEMMA OthersKept ==
  ASSUME FewOwned, sv'.file = sv.file,
         \A f \in FileIds \ {sv.file} :
           index'[f] = index[f] /\ heap'[f] = heap[f]
  PROVE  FewOwned'
<1>1. \A f \in FileIds : f \in Keyed' /\ f # sv'.file /\ heap'[f] # NULL =>
        /\ f \in Keyed /\ f # sv.file /\ heap[f] # NULL
        /\ index'[f] = index[f] /\ heap'[f].byte_len = heap[f].byte_len
  BY DEF Keyed
<1> QED BY <1>1, FewOwnedKept

\* A save that returns without having stored its file leaves no live key.
LEMMA GivenUp ==
  ASSUME LocalOK, FewOwned, sv.file # NULL, sv' = Idle,
         heap' = [heap EXCEPT ![sv.file] = NULL],
         \A f \in FileIds \ {sv.file} : index'[f] = index[f]
  PROVE  FewOwned' /\ FewStowed'
<1>1. heap'[sv.file] = NULL /\ \A f \in FileIds \ {sv.file} : heap'[f] = heap[f]
  BY DEF LocalOK, TypeOK
<1>2. \A f \in FileIds : f \in Keyed' /\ f # sv'.file /\ heap'[f] # NULL =>
        /\ f \in Keyed /\ f # sv.file /\ heap[f] # NULL
        /\ index'[f] = index[f] /\ heap'[f].byte_len = heap[f].byte_len
  BY <1>1 DEF Keyed
<1> QED BY <1>2, FewOwnedKept DEF FewStowed, Idle

LEMMA FewSaveBlock ==
  ASSUME LocalOK, FewOwned, FewStowed, NEW b \in Blocks, SaveBlock(b)
  PROVE  FewOwned' /\ FewStowed'
<1>1. /\ Looping /\ StoreChunk(b) /\ index' = index /\ NextFree(b) /\ Adjoins(b)
      /\ sv.file # NULL /\ sv.file \in FileIds
      /\ sv'.file = sv.file /\ sv'.eof = AtEof
      /\ sv'.num = sv.num + 1 /\ sv'.start = (IF sv.num = 0 THEN b ELSE sv.start)
  BY DEF SaveBlock, Looping, Saving, LocalOK, TypeOK
<1>2. \A f \in FileIds \ {sv.file} : index'[f] = index[f] /\ heap'[f] = heap[f]
  BY <1>1 DEF StoreChunk, LocalOK, TypeOK
<1>3. Pending' \subseteq Pending \cup {b}
  <2>1. \A c \in Blocks : Covers(sv', c) <=> c \in Pending \cup {b}
    BY <1>1, PendingGrows, BlockCountAssumption DEF Covers
  <2> QED BY <2>1 DEF Pending, Covers
<1>4. Stowed' \subseteq Stowed \cup {b}
  <2>1. Owned(sv.file)' = Owned(sv.file)
    BY <1>1 DEF Owned, Covers
  <2> QED BY <1>3, <2>1 DEF Stowed
<1> QED BY <1>1, <1>2, <1>4, OthersKept, StowedMore

LEMMA FewSaveCluster ==
  ASSUME LocalOK, FewOwned, FewStowed, NEW b \in Blocks, SaveCluster(b)
  PROVE  FewOwned' /\ FewStowed'
<1>1. /\ Looping /\ StoreChunk(b) /\ sv.num > 0
      /\ sv.file # NULL /\ sv.file \in FileIds
      /\ sv'.file = sv.file /\ sv'.eof = AtEof /\ sv'.ok = CanInsert(sv.file)
      /\ sv'.num = 1 /\ sv'.start = b
      /\ index' = IF CanInsert(sv.file) THEN Inserted(sv.file, Ended) ELSE index
  BY DEF SaveCluster, Adjoins, Looping, Saving, LocalOK, TypeOK
<1>2. \A f \in FileIds \ {sv.file} : index'[f] = index[f] /\ heap'[f] = heap[f]
  BY <1>1 DEF StoreChunk, Inserted, LocalOK, TypeOK
<1>3. FewOwned'
  BY <1>1, <1>2, OthersKept
<1>4. CASE ~CanInsert(sv.file)
  BY <1>1, <1>3, <1>4 DEF FewStowed
<1>5. CASE CanInsert(sv.file)
  <2>1. index' = Inserted(sv.file, Ended)
    BY <1>1, <1>5
  <2>2. PICK f \in FileIds : f = sv.file
    BY <1>1
  <2>3. Owned(f)' \subseteq Stowed
    BY <1>1, <2>1, <2>2, InsertedOwns
  <2>4. Owned(sv.file)' = Owned(f)'
    BY <1>1, <2>2 DEF Owned
  <2>5. Pending' \subseteq {b}
    BY <1>1, BlockCountAssumption DEF Pending, Covers, BlockCountAssumption
  <2>6. Stowed' \subseteq Stowed \cup {b}
    BY <2>3, <2>4, <2>5 DEF Stowed
  <2> QED BY <1>1, <1>3, <2>6, StowedMore
<1> QED BY <1>4, <1>5

LEMMA FewSaveCommit ==
  ASSUME LocalOK, FewOwned, FewStowed, SaveCommit
  PROVE  FewOwned' /\ FewStowed'
<1>1. /\ sv.file # NULL /\ sv.file \in FileIds /\ sv.eof /\ sv.ok /\ sv.num > 0
      /\ sv'.file = NULL /\ heap' = heap
      /\ index' = Inserted(sv.file, Ended)
  BY DEF SaveCommit, Stored, LoopOver, Saving, SaveReturns, Idle, LocalOK, TypeOK, SaveOK
<1>2. PICK f \in FileIds : f = sv.file
  BY <1>1
<1>3. Owned(f)' \subseteq Stowed
  BY <1>1, <1>2, InsertedOwns
<1>4. Cardinality(Owned(f)') <= Cardinality(Stowed)
      /\ Cardinality(Owned(f)') \in Nat /\ Cardinality(Stowed) \in Nat
  BY <1>3, StowedInBlocks, SubsetCount
<1>5. Cardinality(Stowed) <= BlocksFor(heap[f].byte_len) /\ BlocksFor(heap[f].byte_len) \in Nat
  <2>1. heap[f].byte_len \in Nat
    BY <1>1, <1>2 DEF LocalOK, TypeOK, FileRecord
  <2> QED BY <1>1, <1>2, <2>1, BytesPerBlockAssumption
          DEF FewStowed, BlocksFor, BytesPerBlockAssumption
<1>6. Cardinality(Owned(f)') <= BlocksFor(heap[f].byte_len)
  BY <1>4, <1>5
<1>7. ASSUME NEW g \in Keyed', heap'[g] # NULL
      PROVE  (Cardinality(Owned(g)) <= BlocksFor(heap[g].byte_len))'
  <2>1. CASE g = f
    BY <1>1, <1>6, <2>1 DEF BlocksFor
  <2>2. CASE g # f
    <3>1. g \in FileIds /\ index'[g] = index[g]
      BY <1>1, <1>2, <2>2 DEF Inserted, Keyed, LocalOK, TypeOK
    <3>2. g \in Keyed \ {sv.file} /\ heap[g] # NULL
      BY <1>1, <1>2, <1>7, <2>2, <3>1 DEF Keyed
    <3>3. Owned(g)' = Owned(g)
      BY <3>1 DEF Owned, Covers
    <3> QED BY <1>1, <3>2, <3>3 DEF FewOwned, BlocksFor
  <2> QED BY <2>1, <2>2
<1>8. FewOwned'
  BY <1>7 DEF FewOwned
<1> QED BY <1>1, <1>8 DEF FewStowed

LEMMA FewSaveOpen ==
  ASSUME LocalOK, FewOwned, NEW n \in Names, NEW d \in DiskFiles, NEW f \in FileIds,
         SaveOpen(n, d, f)
  PROVE  FewOwned' /\ FewStowed'
<1>1. /\ sv.file = NULL /\ Clean /\ heap[f] = NULL /\ index' = index
      /\ sv'.file = f /\ ~sv'.eof /\ sv'.num = 0
      /\ heap' = [heap EXCEPT ![f] = [name |-> n, byte_len |-> 0]]
  BY DEF SaveOpen, Ready, Between, Idle
<1>2. f # NULL /\ f \notin Keyed
  BY <1>1, NullAssumption DEF Clean, NullAssumption
<1>3. heap'[f].byte_len = 0 /\ \A g \in FileIds \ {f} : heap'[g] = heap[g]
  BY <1>1 DEF LocalOK, TypeOK
<1>4. FewOwned'
  <2>1. \A g \in FileIds : g \in Keyed' /\ g # sv'.file /\ heap'[g] # NULL =>
          /\ g \in Keyed /\ g # sv.file /\ heap[g] # NULL
          /\ index'[g] = index[g] /\ heap'[g].byte_len = heap[g].byte_len
    BY <1>1, <1>3, NullAssumption DEF Keyed, NullAssumption
  <2> QED BY <2>1, FewOwnedKept
<1>5. Stowed' = {}
  <2>1. Pending' = {}
    BY <1>1 DEF Pending, Covers, SaveOpen, Idle
  <2>2. index'[f] = <<>>
    BY <1>1, <1>2 DEF Keyed
  <2>3. Owned(sv.file)' = {}
    BY <1>1, <2>2 DEF Owned
  <2> QED BY <2>1, <2>3 DEF Stowed
<1>6. Cardinality(Stowed') * BytesPerBlock <= heap'[sv'.file].byte_len
  <2>1. Cardinality(Stowed') = 0
    BY <1>5, FS_EmptySet
  <2> QED BY <1>1, <1>3, <2>1, BytesPerBlockAssumption DEF BytesPerBlockAssumption
<1>7. FewStowed'
  BY <1>1, <1>6 DEF FewStowed
<1> QED BY <1>4, <1>7

LEMMA FewNext ==
  ASSUME LocalOK, FewOwned, FewStowed, [Next]_vars
  PROVE  FewOwned' /\ FewStowed'
<1>0. ASSUME UNCHANGED <<index, heap, sv>> PROVE FewOwned' /\ FewStowed'
  <2>1. FewOwned'
    BY <1>0 DEF FewOwned, Keyed, Owned, Covers, BlocksFor
  <2>2. Stowed' = Stowed
    BY <1>0 DEF Stowed, Owned, Pending, Covers
  <2>3. FewStowed'
    BY <1>0, <2>2 DEF FewStowed, BlocksFor
  <2> QED BY <2>1, <2>3
\* Between saves, keys go or stay with their lengths.
<1>1. ASSUME sv.file = NULL, sv' = sv,
             \A f \in FileIds :
               \/ index'[f] = <<>>
               \/ /\ index'[f] = index[f] /\ (heap'[f] = NULL <=> heap[f] = NULL)
                  /\ heap[f] # NULL => heap'[f].byte_len = heap[f].byte_len
      PROVE  FewOwned' /\ FewStowed'
  <2>1. \A f \in FileIds : f \in Keyed' /\ f # sv'.file /\ heap'[f] # NULL =>
          /\ f \in Keyed /\ f # sv.file /\ heap[f] # NULL
          /\ index'[f] = index[f] /\ heap'[f].byte_len = heap[f].byte_len
    BY <1>1, NullAssumption DEF Keyed, NullAssumption
  <2> QED BY <1>1, <2>1, FewOwnedKept DEF FewStowed
<1>2. ASSUME NEW b \in Blocks, SaveReadError(b) PROVE FewOwned' /\ FewStowed'
  <2>1. /\ sv'.file = sv.file /\ ~sv'.ok /\ index' = index
        /\ \A f \in FileIds \ {sv.file} : heap'[f] = heap[f]
    BY <1>2 DEF SaveReadError, Looping, Saving, LocalOK, TypeOK
  <2> QED BY <2>1, OthersKept DEF FewStowed
<1>3. CASE SaveRollback \/ SaveRollbackFails \/ SaveAbandoned
  <2>1. /\ sv.file # NULL /\ sv' = Idle /\ heap' = [heap EXCEPT ![sv.file] = NULL]
        /\ \A f \in FileIds \ {sv.file} : index'[f] = index[f]
    BY <1>3 DEF SaveRollback, SaveRollbackFails, SaveAbandoned, LoopOver, Saving, SaveReturns,
                Inserted, LocalOK, TypeOK
  <2> QED BY <2>1, GivenUp
<1>4. CASE SaveStep
  BY <1>0, <1>2, <1>3, <1>4, FewSaveBlock, FewSaveCluster, FewSaveCommit
  DEF SaveStep, SaveInsertAborts, Halt
<1>5. CASE Lookup
  BY <1>0, <1>5 DEF Lookup, LoadMissing, LoadFailed, Refuse, Load, Dir, DirAborts, Halt
<1>6. CASE Alter
  <2>1. ASSUME NEW n \in Names,
               SaveUnopened(n) \/ SaveDuplicate(n) \/ DeleteMissing(n) \/ DeleteUnread(n)
        PROVE  FewOwned' /\ FewStowed'
    BY <1>0, <2>1 DEF SaveUnopened, SaveDuplicate, DeleteMissing, DeleteUnread, Refuse
  <2>2. ASSUME NEW n \in Names, NEW f \in FileIds, Delete(n, f)
        PROVE  FewOwned' /\ FewStowed'
    <3>1. CASE ~Restorable(f)
      BY <1>0, <2>2, <3>1 DEF Delete, Halt
    <3>2. CASE Restorable(f)
      <4>1. /\ sv.file = NULL /\ sv' = sv /\ index' = [index EXCEPT ![f] = <<>>]
            /\ heap' = [heap EXCEPT ![f] = NULL]
        BY <2>2, <3>2 DEF Delete, Ready, Between
      <4>2. index'[f] = <<>>
            /\ \A g \in FileIds \ {f} : index'[g] = index[g] /\ heap'[g] = heap[g]
        BY <4>1 DEF LocalOK, TypeOK
      <4> QED BY <1>1, <4>1, <4>2
    <3> QED BY <3>1, <3>2
  <2>3. ASSUME NEW old \in Names, NEW new \in Names,
               RenameRefused(old, new) \/ RenameUnread(old, new) \/ RenameAborts(old, new)
        PROVE  FewOwned' /\ FewStowed'
    BY <1>0, <2>3 DEF RenameRefused, RenameUnread, RenameAborts, Refuse, Halt
  <2>4. ASSUME NEW old \in Names, NEW new \in Names, NEW f \in FileIds, Rename(old, new, f)
        PROVE  FewOwned' /\ FewStowed'
    <3>1. /\ sv.file = NULL /\ sv' = sv /\ index' = index /\ heap[f] # NULL
          /\ heap' = [heap EXCEPT ![f].name = new]
      BY <2>4 DEF Rename, Ready, Between, Found
    <3>2. heap[f] \in FileRecord
      BY <3>1 DEF LocalOK, TypeOK
    <3> DEFINE file == [heap[f] EXCEPT !.name = new]
    <3>3. file \in FileRecord /\ file.byte_len = heap[f].byte_len
      BY <3>2 DEF FileRecord
    <3>4. file # NULL
      BY <3>3, NullAssumption DEF NullAssumption
    <3>5. heap' = [heap EXCEPT ![f] = file]
      BY <3>1
    <3> HIDE DEF file
    <3>6. heap'[f] = file /\ \A g \in FileIds \ {f} : heap'[g] = heap[g]
      BY <3>5 DEF LocalOK, TypeOK
    <3> QED BY <1>1, <3>1, <3>3, <3>4, <3>6
  <2>5. ASSUME NEW old \in Names, NEW new \in Names, NEW f \in FileIds,
               RenameLosesFile(old, new, f)
        PROVE  FewOwned' /\ FewStowed'
    <3>1. /\ sv.file = NULL /\ sv' = sv /\ heap' = heap /\ index' = [index EXCEPT ![f] = <<>>]
      BY <2>5 DEF RenameLosesFile, Ready, Between
    <3>2. \A g \in FileIds : index'[g] = <<>> \/ index'[g] = index[g]
      BY <3>1 DEF LocalOK, TypeOK
    <3> QED BY <1>1, <3>1, <3>2
  <2> QED BY <1>6, <2>1, <2>2, <2>3, <2>4, <2>5, FewSaveOpen DEF Alter
<1>7. CASE Destroy
  <2>1. /\ sv.file = NULL /\ sv' = sv /\ \A f \in FileIds : index'[f] = <<>>
    BY <1>7 DEF Destroy, Ready, Between
  <2> QED BY <1>1, <2>1
<1>8. CASE TouchDangling \/ Halted \/ UNCHANGED vars
  BY <1>0, <1>8 DEF TouchDangling, Halted, Halt, vars
<1> QED BY <1>4, <1>5, <1>6, <1>7, <1>8 DEF Next

Places(f) == {b \in Blocks : df.owners[b] = f}

FewPlaces ==
  df.phase # "idle" =>
    \A f \in Keyed : heap[f] # NULL => Cardinality(Places(f)) <= BlocksFor(heap[f].byte_len)

LEMMA ClustersFurther ==
  ASSUME LocalOK, ClustersAscend, NEW f \in FileIds
  PROVE  \A i, j \in DOMAIN index[f] :
           i < j => index[f][i].start + index[f][i].num < index[f][j].start
<1> DEFINE s == index[f]
           n == Len(s)
           end(i) == s[i].start + s[i].num
           S == {k \in Nat : \A i, j \in 1 .. n : i < j /\ j <= k => end(i) < s[j].start}
<1>1. /\ n \in Nat /\ DOMAIN s = 1 .. n
      /\ \A i \in 1 .. n : s[i].start \in Nat /\ s[i].num \in Nat
  BY ClusterTypes
<1>2. \A i \in 1 .. n - 1 : end(i) < s[i + 1].start
  BY DEF ClustersAscend
<1> HIDE DEF s, n
<1>3. 0 \in S
  OBVIOUS
<1>4. ASSUME NEW k \in S PROVE k + 1 \in S
  <2> SUFFICES ASSUME NEW i \in 1 .. n, NEW j \in 1 .. n, i < j, j <= k + 1
               PROVE  end(i) < s[j].start
    OBVIOUS
  <2>1. CASE j <= k
    BY <2>1
  <2>2. CASE j = k + 1 /\ i = k
    BY <1>1, <1>2, <2>2
  <2>3. CASE j = k + 1 /\ i < k
    <3>1. k \in 1 .. n /\ k \in 1 .. n - 1
      BY <1>1, <2>3
    <3>2. end(i) < s[k].start
      BY <2>3, <3>1
    <3>3. s[k].start + s[k].num < s[j].start
      BY <1>2, <2>3, <3>1
    <3> QED BY <1>1, <3>1, <3>2, <3>3
  <2>4. k \in Nat
    OBVIOUS
  <2> QED BY <2>1, <2>2, <2>3, <2>4
<1>5. S = Nat
  <2>1. S \in SUBSET Nat
    OBVIOUS
  <2> HIDE DEF S
  <2> QED BY <1>3, <1>4, <2>1, Inductive
<1>6. n \in S
  <2> HIDE DEF S
  <2> QED BY <1>1, <1>5
<1> QED BY <1>1, <1>6 DEF s

\* However positions are cut to a uint8_t, a file claims no more blocks than its
\* clusters have.
LEMMA ClaimsFew ==
  ASSUME LocalOK, ClustersAscend, NEW f \in FileIds,
         NEW S \in SUBSET Blocks,
         \A b \in S : \E i \in DOMAIN index[f] : Covers(Narrow(index[f][i]), b)
  PROVE  Cardinality(S) <= Cardinality(Owned(f))
<1> DEFINE s == index[f]
           which == [b \in S |-> CHOOSE i \in DOMAIN s : Covers(Narrow(s[i]), b)]
           shift(i) == s[i].start - (s[i].start % PosRange)
           true == [b \in S |-> b + shift(which[b])]
<1>1. ASSUME NEW i \in DOMAIN s
      PROVE  /\ s[i].start \in Nat /\ s[i].num \in Nat /\ shift(i) \in Nat
             /\ s[i].start + s[i].num <= BlockCount
             /\ Narrow(s[i]).start = s[i].start - shift(i) /\ Narrow(s[i]).num = s[i].num
  <2>1. s[i].start \in Nat /\ s[i].num \in Nat /\ s[i] \in Cluster
    BY ClusterTypes
  <2> DEFINE low == s[i].start % PosRange
  <2>2. low \in Nat /\ low <= s[i].start
    BY <2>1, PosRangeAssumption DEF PosRangeAssumption
  <2>3. s[i].start + s[i].num <= BlockCount
    BY DEF LocalOK, OnDevice
  <2>4. Narrow(s[i]).start = low /\ Narrow(s[i]).num = s[i].num
    BY <2>1 DEF Narrow, Cluster
  <2>5. shift(i) = s[i].start - low
    OBVIOUS
  <2> HIDE DEF low, s, shift
  <2>6. shift(i) \in Nat /\ low = s[i].start - shift(i)
    BY <2>1, <2>2, <2>5
  <2> QED BY <2>1, <2>3, <2>4, <2>6
<1>2. ASSUME NEW b \in S
      PROVE  which[b] \in DOMAIN s /\ Covers(Narrow(s[which[b]]), b)
  OBVIOUS
<1>3. ASSUME NEW b \in S
      PROVE  true[b] \in Owned(f) /\ Covers(s[which[b]], true[b])
  <2> DEFINE i == which[b]
             c == true[b]
  <2>1. i \in DOMAIN s /\ Covers(Narrow(s[i]), b)
    BY <1>2
  <2>2. c = b + shift(i)
    OBVIOUS
  <2> HIDE DEF i, c, which, true
  <2>3. Covers(s[i], c) /\ c \in Blocks
    BY <1>1, <2>1, <2>2, BlockCountAssumption DEF Covers, BlockCountAssumption
  <2> QED BY <2>1, <2>3 DEF Owned, i, c
<1>4. ASSUME NEW b \in S, NEW c \in S, true[b] = true[c]
      PROVE  b = c
  <2> DEFINE i == which[b]
             j == which[c]
             at == true[b]
  <2>1. i \in DOMAIN s /\ j \in DOMAIN s /\ Covers(s[i], at) /\ Covers(s[j], at)
    BY <1>2, <1>3, <1>4
  <2>2. at = b + shift(i) /\ at = c + shift(j)
    BY <1>4
  <2>3. /\ i < j => s[i].start + s[i].num < s[j].start
        /\ j < i => s[j].start + s[j].num < s[i].start
        /\ i \in Nat /\ j \in Nat
    <3> HIDE DEF i, j, at, which, true
    <3>1. \A k, l \in DOMAIN s : k < l => s[k].start + s[k].num < s[l].start
      BY ClustersFurther
    <3>2. DOMAIN s = 1 .. Len(s) /\ Len(s) \in Nat
      BY ClusterTypes
    <3> HIDE DEF s
    <3> QED BY <2>1, <3>1, <3>2
  <2> HIDE DEF i, j, at, which, true
  <2>4. at \in Nat /\ b \in Nat /\ c \in Nat
    BY <1>1, <2>1, <2>2, BlockCountAssumption DEF BlockCountAssumption
  <2>5. i = j
    BY <1>1, <2>1, <2>3, <2>4 DEF Covers
  <2> QED BY <1>1, <2>1, <2>2, <2>4, <2>5
<1>5. true \in Injection(S, Owned(f))
  <2>1. true = [b \in S |-> true[b]]
    OBVIOUS
  <2> HIDE DEF true
  <2>2. true \in [S -> Owned(f)]
    BY <1>3, <2>1
  <2> QED BY <1>4, <2>2 DEF Injection, IsInjective
<1>6. IsFiniteSet(Owned(f))
  BY BlocksFinite DEF Owned
<1> HIDE DEF true
<1> QED BY <1>5, <1>6, FS_Injection

LEMMA PlacesStart ==
  ASSUME DLocal, ClustersAscend, FewOwned, DefragStart
  PROVE  FewPlaces'
<1>1. /\ UNCHANGED <<index, heap, sv>> /\ sv.file = NULL /\ Clean
      /\ df'.owners = Owners
  BY FreshDefrag DEF DefragStart, Ready, Between
<1>2. Keyed' = Keyed /\ Keyed \subseteq FileIds
  BY <1>1 DEF Keyed
<1>3. ASSUME NEW f \in Keyed, heap[f] # NULL
      PROVE  (Cardinality(Places(f)) <= BlocksFor(heap[f].byte_len))'
  <2> DEFINE S == {b \in Blocks : Owners[b] = f}
  <2>1. f \in FileIds /\ f # NULL /\ f # sv.file
    BY <1>1, <1>2, NullAssumption DEF NullAssumption
  <2>2. \A b \in S : \E i \in DOMAIN index[f] : Covers(Narrow(index[f][i]), b)
    BY <1>1, <2>1, OwnersAreKeys DEF DLocal, Claimants
  <2>3. Cardinality(S) <= Cardinality(Owned(f)) /\ S \in SUBSET Blocks
    BY <2>1, <2>2, ClaimsFew DEF DLocal
  <2>4. Cardinality(Owned(f)) <= BlocksFor(heap[f].byte_len)
    BY <1>3, <2>1 DEF FewOwned
  <2>5. Cardinality(S) \in Nat /\ Cardinality(Owned(f)) \in Nat
    BY <2>3, BlocksFinite DEF Owned
  <2>6. BlocksFor(heap[f].byte_len) \in Nat
    <3>1. heap[f].byte_len \in Nat
      BY <1>3, <2>1 DEF DLocal, LocalOK, TypeOK, FileRecord
    <3> QED BY <3>1, BytesPerBlockAssumption DEF BlocksFor, BytesPerBlockAssumption
  <2>7. Places(f)' = S
    BY <1>1 DEF Places
  <2> HIDE DEF S
  <2>8. Cardinality(S) <= BlocksFor(heap[f].byte_len)
    BY <2>3, <2>4, <2>5, <2>6
  <2> QED BY <1>1, <2>7, <2>8 DEF BlocksFor
<1> QED BY <1>1, <1>2, <1>3 DEF FewPlaces

\* A move neither adds a block to a file nor takes one away.
LEMMA PlacesMoved ==
  ASSUME FewPlaces, df.phase # "idle", MovesWhole, UNCHANGED <<index, heap>>, LocalOK
  PROVE  FewPlaces'
<1>1. PICK from \in Bijection(Blocks, Blocks) :
        \A b \in Blocks : df'.owners[b] = df.owners[from[b]]
  BY DEF MovesWhole
<1>2. from \in [Blocks -> Blocks] /\ \A b, c \in Blocks : from[b] = from[c] => b = c
  <2> HIDE DEF Blocks
  <2> QED BY <1>1 DEF Bijection, Injection, IsInjective
<1>3. ASSUME NEW f PROVE Cardinality(Places(f)') <= Cardinality(Places(f))
  <2> DEFINE S == Places(f)'
             T == Places(f)
             move == [b \in S |-> from[b]]
  <2>1. S \in SUBSET Blocks /\ T \in SUBSET Blocks
    BY DEF Places
  <2>2. \A b \in S : from[b] \in T
    BY <1>1, <1>2 DEF Places
  <2> HIDE DEF S, T
  <2>3. move \in [S -> T] /\ \A b, c \in S : move[b] = move[c] => b = c
    BY <1>2, <2>1, <2>2
  <2> HIDE DEF move
  <2>4. move \in Injection(S, T)
    BY <2>3 DEF Injection, IsInjective
  <2>5. IsFiniteSet(T)
    BY <2>1, BlocksFinite
  <2>6. Cardinality(S) <= Cardinality(T)
    BY <2>4, <2>5, FS_Injection
  <2> QED BY <2>6 DEF S, T
<1>4. ASSUME NEW f \in Keyed', heap'[f] # NULL
      PROVE  (Cardinality(Places(f)) <= BlocksFor(heap[f].byte_len))'
  <2>1. f \in Keyed /\ heap[f] # NULL /\ f \in FileIds
    BY <1>4 DEF Keyed
  <2>2. Cardinality(Places(f)) <= BlocksFor(heap[f].byte_len)
    BY <2>1 DEF FewPlaces
  <2>3. Cardinality(Places(f)) \in Nat /\ Cardinality(Places(f)') \in Nat
    BY BlocksFinite DEF Places
  <2>4. BlocksFor(heap[f].byte_len) \in Nat
    <3>1. heap[f].byte_len \in Nat
      BY <2>1 DEF LocalOK, TypeOK, FileRecord
    <3> QED BY <3>1, BytesPerBlockAssumption DEF BlocksFor, BytesPerBlockAssumption
  <2>5. Cardinality(Places(f)') <= BlocksFor(heap[f].byte_len)
    BY <1>3, <2>2, <2>3, <2>4
  <2> QED BY <2>5 DEF BlocksFor
<1> QED BY <1>4 DEF FewPlaces

\* A block that a file has in the new index is one that it owned.
LEMMA NewOwned ==
  ASSUME NEW f \in FileIds, index' = NewIndex
  PROVE  Owned(f)' \in SUBSET Places(f)
<1> SUFFICES ASSUME NEW b \in Blocks, NEW i \in DOMAIN NewIndex[f], Covers(NewIndex[f][i], b)
             PROVE  df.owners[b] = f
  BY DEF Owned, Places
<1> DEFINE c == NewIndex[f][i]
           s == c.start
<1>1. s \in RunStarts(f) /\ c = RunOf(s)
  BY NewClusters
<1>2. s \in 0 .. End - 1 /\ df.owners[s] = f
  BY <1>1 DEF RunStarts
<1>3. c.start \in Nat /\ c.num \in Nat
      /\ \A p \in s .. s + c.num - 1 : df.owners[p] = df.owners[s]
  BY <1>1, <1>2, RunIsMaximal DEF Cluster
<1>4. s <= b /\ b < s + c.num
  BY DEF Covers
<1>5. b \in Nat
  BY BlockCountAssumption DEF BlockCountAssumption
<1> HIDE DEF c, s
<1> QED BY <1>2, <1>3, <1>4, <1>5 DEF s

LEMMA PlacesFinish ==
  ASSUME DLocal, FewPlaces, Finished
  PROVE  FewOwned' /\ FewStowed' /\ FewPlaces'
<1>1. /\ index' = NewIndex /\ UNCHANGED <<heap, sv>> /\ sv.file = NULL
      /\ df.phase # "idle" /\ df'.phase = "idle"
  BY FreshDf DEF Finished, DefragFinish, InDefrag, DLocal, DfOK
<1>2. ASSUME NEW f \in Keyed', heap'[f] # NULL
      PROVE  (Cardinality(Owned(f)) <= BlocksFor(heap[f].byte_len))'
  <2>1. f \in Keyed /\ f \in FileIds /\ heap[f] # NULL
    BY <1>1, <1>2, KeysRebuilt DEF Keyed
  <2>2. Owned(f)' \in SUBSET Places(f) /\ Places(f) \in SUBSET Blocks
    BY <1>1, <2>1, NewOwned DEF Places
  <2>3. /\ Cardinality(Owned(f)') <= Cardinality(Places(f))
        /\ Cardinality(Owned(f)') \in Nat /\ Cardinality(Places(f)) \in Nat
    BY <2>2, SubsetCount
  <2>4. Cardinality(Places(f)) <= BlocksFor(heap[f].byte_len)
    BY <1>1, <2>1 DEF FewPlaces
  <2>5. BlocksFor(heap[f].byte_len) \in Nat
    <3>1. heap[f].byte_len \in Nat
      BY <2>1 DEF DLocal, LocalOK, TypeOK, FileRecord
    <3> QED BY <3>1, BytesPerBlockAssumption DEF BlocksFor, BytesPerBlockAssumption
  <2>6. Cardinality(Owned(f)') <= BlocksFor(heap[f].byte_len)
    BY <2>3, <2>4, <2>5
  <2> QED BY <1>1, <2>6 DEF BlocksFor
<1> QED BY <1>1, <1>2 DEF FewOwned, FewStowed, FewPlaces

\* While the marks, the index and the files stay as they are, so do the counts.
LEMMA CountsKept ==
  ASSUME FewOwned, FewStowed, UNCHANGED <<index, heap, sv>>
  PROVE  FewOwned' /\ FewStowed'
<1>1. FewOwned'
  BY DEF FewOwned, Keyed, Owned, Covers, BlocksFor
<1>2. Stowed' = Stowed
  BY DEF Stowed, Owned, Pending, Covers
<1>3. FewStowed'
  BY <1>2 DEF FewStowed, BlocksFor
<1> QED BY <1>1, <1>3

LEMMA PlacesFrame ==
  ASSUME FewPlaces, UNCHANGED <<index, heap, df>>
  PROVE  FewPlaces'
BY DEF FewPlaces, Places, Keyed, BlocksFor

\* However wrong the marks and the clusters become, no file gets more blocks than
\* its length needs.
Few == FewOwned /\ FewStowed /\ FewPlaces

LEMMA FewStep ==
  ASSUME DLocal, ClustersAscend, Few, [DNext]_dvars
  PROVE  Few'
<1>1. CASE Other
  <2>1. df' = df /\ [Next]_vars
    BY <1>1 DEF Other
  <2>2. FewOwned' /\ FewStowed'
    BY <2>1, FewNext DEF DLocal, Few
  <2>3. CASE df.phase = "idle"
    BY <2>1, <2>2, <2>3 DEF FewPlaces, Few
  <2>4. CASE status # "running"
    <3>1. UNCHANGED vars
      BY <1>1, <2>4, StoppedStays DEF Other
    <3> QED BY <2>1, <2>2, <3>1, PlacesFrame DEF Few, vars
  <2> QED BY <1>1, <2>3, <2>4 DEF Other
<1>2. CASE DefragStart
  <2>1. FewPlaces'
    BY <1>2, PlacesStart DEF Few
  <2>2. UNCHANGED <<index, heap, sv>>
    BY <1>2 DEF DefragStart
  <2> QED BY <2>1, <2>2, CountsKept DEF Few
<1>3. CASE DefragUnready \/ DefragAborts \/ UNCHANGED dvars
  <2>1. UNCHANGED <<index, heap, sv, df>>
    BY <1>3 DEF DefragUnready, DefragAborts, Refuse, Halt, dvars, vars
  <2> QED BY <2>1, CountsKept, PlacesFrame DEF Few
<1>4. CASE DefragSeek \/ FileCompacted \/ \E p \in Blocks : KeepBlock(p) \/ CopyBlock(p) \/ ShiftBlocks(p)
  <2>1. UNCHANGED <<index, heap, sv>> /\ InDefrag
    BY <1>4 DEF DefragSeek, FileCompacted, KeepBlock, CopyBlock, ShiftBlocks, NextOwned, Halt, vars
  <2>2. FewOwned' /\ FewStowed'
    BY <2>1, CountsKept DEF Few
  <2>3. CASE df'.phase # "idle"
    <3>1. MovesWhole
      BY <1>4, <2>1, <2>3, MovesWholeNext, Stays DEF DLocal, DNext, Compact, dvars, vars
    <3> QED BY <2>1, <2>2, <3>1, PlacesMoved DEF Few, DLocal, InDefrag
  <2> QED BY <2>2, <2>3 DEF FewPlaces, Few
<1>5. CASE DefragFinish
  <2>1. CASE Finished
    BY <2>1, PlacesFinish DEF Few
  <2>2. CASE CheckFails
    BY <2>2, CountsKept, PlacesFrame DEF Few, CheckFails, Halt
  <2> QED BY <1>5, <2>1, <2>2, FinishedOrNot
<1> QED BY <1>1, <1>2, <1>3, <1>4, <1>5 DEF DNext, Compact

LEMMA FewInit ==
  ASSUME DInit
  PROVE  Few
BY FreshDf DEF DInit, Init, Few, FewOwned, FewStowed, FewPlaces, Keyed, Idle

-----------------------------------------------------------------------------
(* What the check of the compaction has seen when it lets an index pass *)

\* The state of the check after each block, from the front of the device.
ScanStep(scan, p) ==
  IF p = 0
    THEN [files |-> df.owner_count + 1, blocks |-> 0, file |-> NULL, ok |-> TRUE]
    ELSE CheckStep(scan[p - 1], df.owners[p - 1])

Scans(scan) == scan = [p \in 0 .. BlockCount |-> ScanStep(scan, p)]

LEMMA ScanExists == \E scan : Scans(scan)
<1> DEFINE n == BlockCount
           S == {k \in Nat : \E g : \A p \in 0 .. n : p <= k => g[p] = ScanStep(g, p)}
<1>1. n \in Nat
  BY BlockCountAssumption DEF BlockCountAssumption
<1> HIDE DEF n
<1>2. 0 \in S
  <2> DEFINE g == [p \in 0 .. n |-> ScanStep(<<>>, 0)]
  <2>1. ASSUME NEW p \in 0 .. n, p <= 0 PROVE g[p] = ScanStep(g, p)
    <3>1. p = 0 /\ g[p] = ScanStep(<<>>, 0)
      BY <1>1, <2>1
    <3> HIDE DEF g
    <3> QED BY <3>1 DEF ScanStep
  <2> HIDE DEF g
  <2> QED BY <2>1
<1>3. ASSUME NEW k \in S PROVE k + 1 \in S
  <2>1. PICK g : \A p \in 0 .. n : p <= k => g[p] = ScanStep(g, p)
    OBVIOUS
  <2> DEFINE h == [p \in 0 .. n |-> IF p <= k THEN g[p] ELSE ScanStep(g, p)]
  <2>2. ASSUME NEW p \in 0 .. n, p <= k + 1 PROVE h[p] = ScanStep(h, p)
    <3>1. h[p] = ScanStep(g, p)
      BY <2>1
    <3>2. p # 0 => p - 1 \in 0 .. n /\ p - 1 <= k
      BY <2>2, <1>1
    <3>3. p # 0 => h[p - 1] = g[p - 1]
      BY <3>2
    <3> HIDE DEF h
    <3>4. ScanStep(g, p) = ScanStep(h, p)
      BY <3>3 DEF ScanStep
    <3> QED BY <3>1, <3>4
  <2> HIDE DEF h
  <2> QED BY <2>2
<1>4. S = Nat
  <2>1. S \in SUBSET Nat
    OBVIOUS
  <2> HIDE DEF S
  <2> QED BY <1>2, <1>3, <2>1, Inductive
<1>5. PICK g : \A p \in 0 .. n : g[p] = ScanStep(g, p)
  <2>1. n \in S
    <3> HIDE DEF S
    <3> QED BY <1>1, <1>4
  <2>2. PICK g : \A p \in 0 .. n : p <= n => g[p] = ScanStep(g, p)
    BY <2>1
  <2> QED BY <1>1, <2>2
<1> DEFINE scan == [p \in 0 .. n |-> g[p]]
<1>6. ASSUME NEW p \in 0 .. n PROVE scan[p] = ScanStep(scan, p)
  <2>1. scan[p] = ScanStep(g, p)
    BY <1>5
  <2>2. p # 0 => p - 1 \in 0 .. n
    BY <1>1
  <2>3. p # 0 => scan[p - 1] = g[p - 1]
    BY <2>2
  <2> HIDE DEF scan
  <2>4. ScanStep(g, p) = ScanStep(scan, p)
    BY <2>3 DEF ScanStep
  <2> QED BY <2>1, <2>4
<1>7. scan = [p \in 0 .. n |-> ScanStep(scan, p)]
  <2>1. scan = [p \in 0 .. n |-> scan[p]]
    OBVIOUS
  <2> HIDE DEF scan
  <2> QED BY <1>6, <2>1
<1> HIDE DEF scan
<1> QED BY <1>7 DEF Scans, n

LEMMA ScanIsScan == Scans(Scan)
<1>1. \E scan : scan = [p \in 0 .. BlockCount |->
                  IF p = 0
                    THEN [files |-> df.owner_count + 1, blocks |-> 0, file |-> NULL, ok |-> TRUE]
                    ELSE CheckStep(scan[p - 1], df.owners[p - 1])]
  BY ScanExists DEF Scans, ScanStep
<1> QED BY <1>1, Zenon DEF Scan, Scans, ScanStep

LEMMA CheckedScans ==
  ASSUME Checked
  PROVE  \E scan : Scans(scan) /\ scan[BlockCount].ok
BY ScanIsScan DEF Checked

\* A file that has the blocks its length needs, one behind the other.
WholeFrom(f, a) ==
  /\ a \in Nat /\ a + BlocksFor(heap[f].byte_len) <= BlockCount
  /\ \A b \in Blocks :
       (df.owners[b] = f) <=> (a <= b /\ b < a + BlocksFor(heap[f].byte_len))

Whole(f) == \E a \in Blocks : WholeFrom(f, a)

LEMMA LengthTypes ==
  ASSUME LocalOK, NEW f \in FileIds, heap[f] # NULL
  PROVE  /\ heap[f].byte_len \in Nat /\ BlocksFor(heap[f].byte_len) \in Nat
         /\ BlocksFor(heap[f].byte_len) > 0
         /\ heap[f].byte_len \div BytesPerBlock \in Nat
         /\ BlocksFor(heap[f].byte_len) = heap[f].byte_len \div BytesPerBlock + 1
<1>1. heap[f].byte_len \in Nat
  BY DEF LocalOK, TypeOK, FileRecord
<1> QED BY <1>1, BytesPerBlockAssumption DEF BlocksFor, BytesPerBlockAssumption

\* A file whose blocks the check has counted has no other.
LEMMA CompleteIsWhole ==
  ASSUME DLocal, FewPlaces, df.phase # "idle", NEW f \in Keyed, heap[f] # NULL,
         NEW a \in Nat, NEW p \in 0 .. BlockCount, a < p,
         p - a = BlocksFor(heap[f].byte_len),
         \A b \in a .. p - 1 : df.owners[b] = f
  PROVE  Whole(f)
<1> DEFINE S == a .. p - 1
           n == BlocksFor(heap[f].byte_len)
<1>1. S \in SUBSET Places(f) /\ Places(f) \in SUBSET Blocks
  BY BlockCountAssumption DEF Places, BlockCountAssumption
<1>2. IsFiniteSet(Places(f)) /\ Cardinality(Places(f)) \in Nat
  BY <1>1, BlocksFinite
<1>3. p \in Nat /\ p - 1 \in Int
  BY BlockCountAssumption DEF BlockCountAssumption
<1>4. Cardinality(S) = p - a
  <2>1. Cardinality(S) = IF a > p - 1 THEN 0 ELSE (p - 1) - a + 1
    BY <1>3, FS_Interval
  <2> HIDE DEF S
  <2> QED BY <1>3, <2>1
<1>5. Cardinality(Places(f)) <= n
  BY DEF FewPlaces
<1>6. Cardinality(S) <= Cardinality(Places(f))
      /\ (Cardinality(Places(f)) = Cardinality(S) => S = Places(f))
  <2> HIDE DEF S
  <2> QED BY <1>1, <1>2, FS_Subset
<1>7. Places(f) = S
  <2> HIDE DEF S, n
  <2>1. n = p - a
    BY DEF n
  <2> QED BY <1>2, <1>3, <1>4, <1>5, <1>6, <2>1
<1>8. a + n = p
  BY <1>3
<1>9. WholeFrom(f, a)
  <2> SUFFICES /\ a + n <= BlockCount
               /\ \A b \in Blocks : (df.owners[b] = f) <=> (a <= b /\ b < a + n)
    BY DEF WholeFrom
  <2> HIDE DEF n
  <2> QED BY <1>3, <1>7, <1>8, BlockCountAssumption DEF Places, BlockCountAssumption
<1>10. a \in Blocks
  BY BlockCountAssumption DEF BlockCountAssumption
<1> QED BY <1>9, <1>10 DEF Whole

\* Once the files are all counted: those before block z - 1 are whole, and no block
\* behind it has an owner.
SeenAll(p, z) ==
  /\ z \in 1 .. p
  /\ \A b \in Blocks : b < z - 1 => df.owners[b] # NULL /\ Whole(df.owners[b])
  /\ \A b \in Blocks : z <= b /\ b < p => df.owners[b] = NULL

\* Before that: the files before block a are whole, and from a on the blocks are of
\* the file that is being counted.
SeenUpTo(s, p, a) ==
  /\ a \in 0 .. p
  /\ \A b \in Blocks : b < a => df.owners[b] # NULL /\ Whole(df.owners[b])
  /\ \A b \in Blocks : a <= b /\ b < p => df.owners[b] = s.file
  /\ p = 0 => s.blocks = 0
  /\ p > 0 => /\ a < p
              /\ s.file \in Keyed /\ heap[s.file] # NULL
              /\ p - a + s.blocks = BlocksFor(heap[s.file].byte_len)

ScanType == [files : Nat, blocks : Nat, file : FileIds \cup {NULL}, ok : BOOLEAN]

ScanOK(s, p) ==
  /\ s \in ScanType
  /\ s.ok => IF s.files = 0 THEN \E z \in 1 .. p : SeenAll(p, z)
             ELSE \E a \in 0 .. p : SeenUpTo(s, p, a)

\* All that has been counted when no block of the current file is due is whole.
LEMMA CountedAreWhole ==
  ASSUME DLocal, FewPlaces, df.phase # "idle", NEW p \in 0 .. BlockCount,
         NEW s \in ScanType, s.blocks = 0, NEW a \in 0 .. p, SeenUpTo(s, p, a)
  PROVE  \A b \in Blocks : b < p => df.owners[b] # NULL /\ Whole(df.owners[b])
<1>1. p \in Nat /\ a \in Nat
  BY BlockCountAssumption DEF BlockCountAssumption
<1>2. p > 0 => Whole(s.file) /\ s.file # NULL
  <2> SUFFICES ASSUME p > 0 PROVE Whole(s.file) /\ s.file # NULL
    OBVIOUS
  <2> DEFINE f == s.file
             n == BlocksFor(heap[f].byte_len)
  <2>1. /\ a < p /\ f \in Keyed /\ heap[f] # NULL /\ p - a + s.blocks = n
        /\ \A b \in Blocks : a <= b /\ b < p => df.owners[b] = f
    BY DEF SeenUpTo
  <2>2. f \in FileIds
    BY <2>1 DEF Keyed
  <2>3. f # NULL
    BY <2>2, NullAssumption DEF NullAssumption
  <2> HIDE DEF f, n
  <2>4. p - a = n
    BY <1>1, <2>1
  <2>5. \A b \in a .. p - 1 : df.owners[b] = f
    BY <1>1, <2>1, BlockCountAssumption DEF BlockCountAssumption
  <2>6. Whole(f)
    <3>1. p - a = BlocksFor(heap[f].byte_len)
      BY <2>4 DEF n
    <3> QED BY <1>1, <2>1, <2>5, <3>1, CompleteIsWhole
  <2> QED BY <2>3, <2>6 DEF f
<1> SUFFICES ASSUME NEW b \in Blocks, b < p
             PROVE  df.owners[b] # NULL /\ Whole(df.owners[b])
  OBVIOUS
<1>3. b \in Nat
  BY BlockCountAssumption DEF BlockCountAssumption
<1>4. CASE b < a
  BY <1>4 DEF SeenUpTo
<1>5. CASE a <= b
  <2>1. df.owners[b] = s.file /\ p > 0
    BY <1>1, <1>3, <1>5 DEF SeenUpTo
  <2> QED BY <1>2, <2>1
<1> QED BY <1>1, <1>3, <1>4, <1>5

LEMMA ScanNext ==
  ASSUME DLocal, FewPlaces, df.phase # "idle", NEW p \in Blocks, NEW s, ScanOK(s, p)
  PROVE  ScanOK(CheckStep(s, df.owners[p]), p + 1)
<1> DEFINE owner == df.owners[p]
           t == CheckStep(s, owner)
<1>1. /\ s \in ScanType /\ s.files \in Nat /\ s.blocks \in Nat
      /\ s.file \in FileIds \cup {NULL} /\ s.ok \in BOOLEAN
  BY DEF ScanOK, ScanType
<1>2. p \in Nat /\ p \in 0 .. BlockCount /\ p + 1 \in 0 .. BlockCount
  BY BlockCountAssumption DEF BlockCountAssumption
<1>3. owner # NULL =>
        /\ owner \in Keyed /\ owner \in FileIds /\ heap[owner] # NULL
        /\ heap[owner].byte_len \div BytesPerBlock \in Nat
        /\ BlocksFor(heap[owner].byte_len) = heap[owner].byte_len \div BytesPerBlock + 1
  <2> SUFFICES ASSUME owner # NULL
               PROVE  /\ owner \in Keyed /\ owner \in FileIds /\ heap[owner] # NULL
                      /\ heap[owner].byte_len \div BytesPerBlock \in Nat
                      /\ BlocksFor(heap[owner].byte_len)
                           = heap[owner].byte_len \div BytesPerBlock + 1
    OBVIOUS
  <2>1. owner \in Keyed /\ heap[owner] # NULL
    BY DEF DLocal, DfOK
  <2>2. owner \in FileIds
    BY <2>1 DEF Keyed
  <2> HIDE DEF owner
  <2> QED BY <2>1, <2>2, LengthTypes DEF DLocal
<1>0. df.owners[p] = owner
  OBVIOUS
<1> HIDE DEF owner
<1>4. ASSUME s.files = 0 PROVE ScanOK(t, p + 1)
  <2>1. t = [s EXCEPT !.ok = s.ok /\ owner = NULL]
    BY <1>4 DEF CheckStep
  <2>2. t \in ScanType /\ t.files = 0 /\ (t.ok => s.ok /\ owner = NULL)
    BY <1>1, <1>4, <2>1 DEF ScanType
  <2>3. ASSUME t.ok PROVE \E z \in 1 .. p + 1 : SeenAll(p + 1, z)
    <3>1. PICK z \in 1 .. p : SeenAll(p, z)
      BY <1>4, <2>2, <2>3 DEF ScanOK
    <3>2. SeenAll(p + 1, z)
      BY <1>0, <1>2, <2>2, <2>3, <3>1, BlockCountAssumption DEF SeenAll, BlockCountAssumption
    <3> QED BY <1>2, <3>1, <3>2
  <2> QED BY <2>2, <2>3 DEF ScanOK
<1>5. ASSUME s.files > 0, s.blocks > 0 PROVE ScanOK(t, p + 1)
  <2>1. t = [s EXCEPT !.ok = s.ok /\ owner = s.file, !.blocks = s.blocks - 1]
    BY <1>1, <1>5 DEF CheckStep
  <2>2. /\ t \in ScanType /\ t.files = s.files /\ (t.ok => s.ok /\ owner = s.file)
        /\ t.file = s.file /\ t.blocks = s.blocks - 1
    <3> DEFINE left == s.blocks - 1
               ok == s.ok /\ owner = s.file
    <3>1. left \in Nat /\ ok \in BOOLEAN
      BY <1>1, <1>5
    <3>2. t = [s EXCEPT !.ok = ok, !.blocks = left]
      BY <2>1
    <3>3. ok => s.ok /\ owner = s.file
      OBVIOUS
    <3> HIDE DEF left, ok, t
    <3>4. t \in ScanType /\ t.files = s.files /\ t.ok = ok /\ t.file = s.file /\ t.blocks = left
      BY <1>1, <3>1, <3>2 DEF ScanType
    <3> QED BY <3>3, <3>4 DEF left
  <2>3. ASSUME t.ok PROVE \E a \in 0 .. p + 1 : SeenUpTo(t, p + 1, a)
    <3>1. PICK a \in 0 .. p : SeenUpTo(s, p, a)
      BY <1>1, <1>5, <2>2, <2>3 DEF ScanOK
    <3>2. p > 0
      BY <1>1, <1>2, <1>5, <3>1 DEF SeenUpTo
    <3>3. \A b \in Blocks : a <= b /\ b < p + 1 => df.owners[b] = t.file
      BY <1>0, <1>2, <2>2, <2>3, <3>1, BlockCountAssumption DEF SeenUpTo, BlockCountAssumption
    <3>4. p + 1 - a + t.blocks = p - a + s.blocks
      BY <1>1, <1>2, <2>2
    <3>5. SeenUpTo(t, p + 1, a)
      BY <1>1, <1>2, <2>2, <3>1, <3>2, <3>3, <3>4 DEF SeenUpTo
    <3> QED BY <1>2, <3>1, <3>5
  <2>4. t.files # 0
    BY <1>1, <1>5, <2>2
  <2> QED BY <2>2, <2>3, <2>4 DEF ScanOK
<1>6. ASSUME s.files = 1, s.blocks = 0 PROVE ScanOK(t, p + 1)
  <2>1. t = [s EXCEPT !.files = 0]
    BY <1>6 DEF CheckStep
  <2>2. t \in ScanType /\ t.files = 0 /\ t.ok = s.ok
    BY <1>1, <2>1 DEF ScanType
  <2>3. ASSUME t.ok PROVE \E z \in 1 .. p + 1 : SeenAll(p + 1, z)
    <3>1. PICK a \in 0 .. p : SeenUpTo(s, p, a)
      BY <1>6, <2>2, <2>3 DEF ScanOK
    <3>2. \A b \in Blocks : b < p => df.owners[b] # NULL /\ Whole(df.owners[b])
      BY <1>1, <1>2, <1>6, <3>1, CountedAreWhole
    <3>3. SeenAll(p + 1, p + 1)
      BY <1>2, <3>2, BlockCountAssumption DEF SeenAll, BlockCountAssumption
    <3> QED BY <1>2, <3>3
  <2> QED BY <2>2, <2>3 DEF ScanOK
<1>7. ASSUME s.files > 1, s.blocks = 0, owner = NULL PROVE ScanOK(t, p + 1)
  <2>1. t = [s EXCEPT !.ok = FALSE]
    BY <1>1, <1>7 DEF CheckStep
  <2>2. t \in ScanType /\ ~t.ok
    BY <1>1, <2>1 DEF ScanType
  <2> QED BY <2>2 DEF ScanOK
<1>8. ASSUME s.files > 1, s.blocks = 0, owner # NULL PROVE ScanOK(t, p + 1)
  <2> DEFINE rest == heap[owner].byte_len \div BytesPerBlock
  <2>1. t = [s EXCEPT !.files = s.files - 1, !.file = owner, !.blocks = rest]
    BY <1>1, <1>8 DEF CheckStep
  <2>2. /\ t \in ScanType /\ t.files = s.files - 1 /\ t.ok = s.ok
        /\ t.file = owner /\ t.blocks = rest /\ rest \in Nat
    <3>1. rest \in Nat /\ s.files - 1 \in Nat /\ owner \in FileIds \cup {NULL}
      BY <1>1, <1>3, <1>8
    <3> HIDE DEF rest
    <3> QED BY <1>1, <2>1, <3>1 DEF ScanType
  <2>3. ASSUME t.ok PROVE \E a \in 0 .. p + 1 : SeenUpTo(t, p + 1, a)
    <3>1. s.ok /\ s.files # 0
      BY <1>1, <1>8, <2>2, <2>3
    <3>2. PICK a \in 0 .. p : SeenUpTo(s, p, a)
      BY <3>1 DEF ScanOK
    <3>3. \A b \in Blocks : b < p => df.owners[b] # NULL /\ Whole(df.owners[b])
      BY <1>1, <1>2, <1>8, <3>2, CountedAreWhole
    <3>4. p + 1 - p + rest = BlocksFor(heap[owner].byte_len)
      <4>1. BlocksFor(heap[owner].byte_len) = rest + 1
        BY <1>3, <1>8
      <4> HIDE DEF rest
      <4> QED BY <1>2, <2>2, <4>1
    <3>5. \A b \in Blocks : p <= b /\ b < p + 1 => df.owners[b] = owner
      BY <1>0, <1>2, BlockCountAssumption DEF BlockCountAssumption
    <3> HIDE DEF rest, t
    <3>6. SeenUpTo(t, p + 1, p)
      BY <1>2, <1>3, <1>8, <2>2, <3>3, <3>4, <3>5 DEF SeenUpTo
    <3> QED BY <1>2, <3>6
  <2>4. t.files # 0
    BY <1>1, <1>8, <2>2
  <2> QED BY <2>2, <2>3, <2>4 DEF ScanOK
<1>9. ScanOK(t, p + 1)
  BY <1>1, <1>4, <1>5, <1>6, <1>7, <1>8
<1> QED BY <1>0, <1>9

LEMMA ScanSound ==
  ASSUME DLocal, FewPlaces, df.phase # "idle", NEW scan, Scans(scan)
  PROVE  ScanOK(scan[BlockCount], BlockCount)
<1> DEFINE S == {k \in Nat : k <= BlockCount => ScanOK(scan[k], k)}
<1>1. BlockCount \in Nat
  BY BlockCountAssumption DEF BlockCountAssumption
<1>2. 0 \in S
  <2>1. scan[0] = [files |-> df.owner_count + 1, blocks |-> 0, file |-> NULL, ok |-> TRUE]
    BY <1>1 DEF Scans, ScanStep
  <2>2. df.owner_count \in Nat
    BY DEF DLocal, DfOK
  <2>3. scan[0] \in ScanType /\ scan[0].files # 0 /\ scan[0].blocks = 0
    BY <2>1, <2>2 DEF ScanType
  <2>4. SeenUpTo(scan[0], 0, 0)
    BY <1>1, <2>3 DEF SeenUpTo
  <2>5. ScanOK(scan[0], 0)
    BY <2>3, <2>4 DEF ScanOK
  <2> QED BY <2>5
<1>3. ASSUME NEW k \in S PROVE k + 1 \in S
  <2> SUFFICES ASSUME k + 1 <= BlockCount PROVE ScanOK(scan[k + 1], k + 1)
    OBVIOUS
  <2>1. k \in Nat /\ k \in Blocks /\ k + 1 \in 0 .. BlockCount /\ ScanOK(scan[k], k)
    BY <1>1
  <2>2. scan[k + 1] = CheckStep(scan[k], df.owners[k])
    <3>1. scan[k + 1] = ScanStep(scan, k + 1)
      BY <2>1 DEF Scans
    <3>2. k + 1 # 0 /\ k + 1 - 1 = k
      BY <2>1
    <3> QED BY <3>1, <3>2 DEF ScanStep
  <2> QED BY <2>1, <2>2, ScanNext
<1>4. S = Nat
  <2>1. S \in SUBSET Nat
    OBVIOUS
  <2> HIDE DEF S
  <2> QED BY <1>2, <1>3, <2>1, Inductive
<1>5. BlockCount \in S
  <2> HIDE DEF S
  <2> QED BY <1>1, <1>4
<1> QED BY <1>1, <1>5

\* The blocks of f are those from a to e - 1.
Spans(f, a, e) ==
  /\ a \in Nat /\ e \in Nat /\ a < e /\ e <= BlockCount
  /\ \A b \in Blocks : (df.owners[b] = f) <=> (a <= b /\ b < e)

LEMMA OneRun ==
  ASSUME NEW f \in FileIds, NEW a, NEW e, Spans(f, a, e), NothingBeyondEnd
  PROVE  /\ Len(NewIndex[f]) = 1
         /\ NewIndex[f][1] \in Cluster
         /\ NewIndex[f][1].start = a /\ NewIndex[f][1].num = e - a
<1> DEFINE new == NewIndex[f]
           S == RunStarts(f)
<1>1. /\ a \in Nat /\ e \in Nat /\ a < e /\ e <= BlockCount /\ f # NULL
      /\ \A b \in Blocks : (df.owners[b] = f) <=> (a <= b /\ b < e)
  BY NullAssumption DEF Spans, NullAssumption
<1>2. End \in Nat /\ End <= BlockCount /\ BlockCount \in Nat
  BY EndIsFirstGap, BlockCountAssumption DEF BlockCountAssumption
<1>3. e <= End
  <2> SUFFICES ASSUME End <= e - 1 PROVE FALSE
    BY <1>1, <1>2
  <2>1. e - 1 \in Blocks /\ e - 1 \in End .. BlockCount - 1 /\ a <= e - 1 /\ e - 1 < e
    BY <1>1, <1>2
  <2> QED BY <1>1, <2>1 DEF NothingBeyondEnd
<1>4. S = {a}
  <2>1. a \in S
    <3>1. a \in 0 .. End - 1 /\ df.owners[a] = f
      BY <1>1, <1>2, <1>3
    <3>2. a # 0 => df.owners[a - 1] # f
      BY <1>1, <1>2
    <3> QED BY <3>1, <3>2 DEF RunStarts
  <2>2. ASSUME NEW b \in S PROVE b = a
    <3>1. b \in 0 .. End - 1 /\ df.owners[b] = f /\ (b = 0 \/ df.owners[b - 1] # f)
      BY DEF RunStarts
    <3>2. b \in Blocks /\ (b # 0 => b - 1 \in Blocks) /\ b \in Nat
      BY <1>2, <3>1
    <3> HIDE DEF Blocks
    <3>3. a <= b /\ b < e
      BY <1>1, <3>1, <3>2
    <3>4. b # 0 => ~(a <= b - 1 /\ b - 1 < e)
      BY <1>1, <3>1, <3>2
    <3> QED BY <1>1, <3>2, <3>3, <3>4
  <2> QED BY <2>1, <2>2
<1>5. /\ Len(new) = Cardinality(S) /\ new \in Seq(Cluster)
      /\ \A i \in DOMAIN new : new[i].start \in S /\ new[i] = RunOf(new[i].start)
  BY NewClusters
<1> HIDE DEF new, S
<1>6. Len(new) = 1
  BY <1>4, <1>5, FS_Singleton
<1>7. 1 \in DOMAIN new
  <2> HIDE DEF Cluster
  <2> QED BY <1>5, <1>6
<1>8. new[1] = RunOf(a) /\ new[1].start = a
  BY <1>4, <1>5, <1>7
<1> DEFINE k == RunOf(a).num
<1>9. a \in 0 .. End - 1
  BY <1>1, <1>2, <1>3
<1>10. /\ k \in Nat /\ k > 0 /\ a + k <= End /\ RunOf(a) \in Cluster
       /\ \A c \in a .. a + k - 1 : df.owners[c] = df.owners[a]
       /\ a + k < End => df.owners[a + k] # df.owners[a]
  BY <1>9, RunIsMaximal DEF Cluster
<1> HIDE DEF k
<1>11. df.owners[a] = f
  BY <1>1, <1>2
<1>12. a + k <= e
  <2> DEFINE b == a + k - 1
  <2>1. b \in a .. a + k - 1 /\ b \in Blocks
    BY <1>1, <1>2, <1>10
  <2>2. b < e
    <3> HIDE DEF b, Blocks
    <3>1. df.owners[b] = f
      BY <1>10, <1>11, <2>1 DEF b
    <3> QED BY <1>1, <2>1, <3>1
  <2> QED BY <1>1, <1>10, <2>2
<1>13. e <= a + k
  <2>1. CASE a + k = End
    BY <1>3, <2>1
  <2>2. CASE a + k < End
    <3> DEFINE b == a + k
    <3>1. b \in Blocks /\ a <= b /\ df.owners[b] # f
      BY <1>1, <1>2, <1>10, <1>11, <2>2
    <3> HIDE DEF b
    <3>2. ~(b < e)
      BY <1>1, <3>1
    <3> QED BY <1>1, <1>10, <3>2 DEF b
  <2> QED BY <1>1, <1>2, <1>10, <2>1, <2>2
<1>14. k = e - a
  BY <1>1, <1>10, <1>12, <1>13
<1>15. new[1].num = e - a /\ new[1] \in Cluster
  BY <1>8, <1>10, <1>14 DEF k
<1> QED BY <1>6, <1>8, <1>15 DEF new

LEMMA WholeSpans ==
  ASSUME DLocal, NEW f \in FileIds, heap[f] # NULL, Whole(f)
  PROVE  \E a \in Blocks : Spans(f, a, a + BlocksFor(heap[f].byte_len))
<1> DEFINE n == BlocksFor(heap[f].byte_len)
<1>1. PICK a \in Blocks : WholeFrom(f, a)
  BY DEF Whole
<1>2. n \in Nat /\ n > 0
  BY LengthTypes DEF DLocal
<1>3. /\ a \in Nat /\ a + n <= BlockCount
      /\ \A b \in Blocks : (df.owners[b] = f) <=> (a <= b /\ b < a + n)
  BY <1>1 DEF WholeFrom
<1> HIDE DEF n
<1>4. Spans(f, a, a + n)
  BY <1>2, <1>3 DEF Spans
<1> QED BY <1>4 DEF n

LEMMA WholeIsOneRun ==
  ASSUME DLocal, NEW f \in FileIds, heap[f] # NULL, Whole(f), NothingBeyondEnd
  PROVE  Len(NewIndex[f]) = 1 /\ NewIndex[f][1].num = BlocksFor(heap[f].byte_len)
<1> DEFINE n == BlocksFor(heap[f].byte_len)
<1>1. PICK a \in Blocks : Spans(f, a, a + n)
  BY WholeSpans
<1>2. n \in Nat /\ a \in Nat
  BY LengthTypes, BlockCountAssumption DEF DLocal, BlockCountAssumption
<1> DEFINE e == a + n
<1>3. Spans(f, a, e) /\ e - a = n
  BY <1>1, <1>2
<1> HIDE DEF n, e
<1>4. Len(NewIndex[f]) = 1 /\ NewIndex[f][1].num = e - a
  BY <1>3, OneRun
<1> QED BY <1>3, <1>4 DEF n

\* A file that starts before another one is not the last to be counted.
LEMMA CheckedFinish ==
  ASSUME DLocal, FewPlaces, Finished
  PROVE  CheckedLayout'
<1>1. /\ index' = NewIndex /\ heap' = heap /\ df.phase # "idle"
      /\ Checked /\ NothingBeyondEnd
  BY DEF Finished, DefragFinish, InDefrag
<1>2. PICK scan : Scans(scan) /\ scan[BlockCount].ok
  BY <1>1, CheckedScans
<1> DEFINE last == scan[BlockCount]
<1>3. BlockCount \in Nat /\ BlockCount > 0 /\ End \in Nat /\ End <= BlockCount
  BY EndIsFirstGap, BlockCountAssumption DEF BlockCountAssumption
<1>4. IF last.files = 0 THEN \E z \in 1 .. BlockCount : SeenAll(BlockCount, z)
      ELSE \E a \in 0 .. BlockCount : SeenUpTo(last, BlockCount, a)
  BY <1>1, <1>2, ScanSound DEF ScanOK
<1> HIDE DEF last
<1>5. ASSUME NEW f \in Keyed', NEW g \in Keyed', index'[f][1].start < index'[g][1].start
      PROVE  Len(index'[f]) = 1 /\ index'[f][1].num = BlocksFor(heap[f].byte_len)
  <2>1. /\ f \in Keyed /\ heap[f] # NULL /\ f \in FileIds /\ g \in FileIds
        /\ index'[f] # <<>> /\ index'[g] # <<>>
    BY KeysRebuilt DEF Keyed, DLocal, DfOK, Finished, DefragFinish, InDefrag
  <2> DEFINE s == index'[f][1].start
             t == index'[g][1].start
  <2>2. ASSUME NEW h \in FileIds, index'[h] # <<>>
        PROVE  index'[h][1].start \in RunStarts(h)
    <3>1. NewIndex[h] \in Seq(Cluster)
          /\ \A i \in DOMAIN NewIndex[h] : NewIndex[h][i].start \in RunStarts(h)
      BY NewClusters
    <3>2. 1 \in DOMAIN NewIndex[h]
      <4> HIDE DEF Cluster
      <4> QED BY <1>1, <2>2, <3>1
    <3> QED BY <1>1, <3>1, <3>2
  <2>3. /\ s \in RunStarts(f) /\ t \in RunStarts(g)
    BY <2>1, <2>2
  <2>4. s < t
    BY <1>5
  <2> HIDE DEF s, t
  <2>5. /\ s \in 0 .. End - 1 /\ df.owners[s] = f
        /\ t \in 0 .. End - 1 /\ df.owners[t] = g
    BY <2>3 DEF RunStarts
  <2>6. s \in Blocks /\ t \in Blocks /\ s \in Nat /\ t \in Nat /\ t < BlockCount
    BY <1>3, <2>5
  <2>7. f # g
    <3>1. s # t
      BY <2>4, <2>6
    <3> QED BY <3>1 DEF s, t
  <2>8. df.owners[t] # NULL
    BY <2>1, <2>5, NullAssumption DEF NullAssumption
  <2>9. Whole(f)
    <3>1. CASE last.files = 0
      <4>1. PICK z \in 1 .. BlockCount : SeenAll(BlockCount, z)
        BY <1>4, <3>1
      <4>2. ~(z <= t)
        BY <2>6, <2>8, <4>1 DEF SeenAll
      <4>3. s < z - 1
        BY <1>3, <2>4, <2>6, <4>2
      <4> QED BY <2>5, <2>6, <4>1, <4>3 DEF SeenAll
    <3>2. CASE last.files # 0
      <4>1. PICK a \in 0 .. BlockCount : SeenUpTo(last, BlockCount, a)
        BY <1>4, <3>2
      <4>2. CASE s < a
        BY <2>5, <2>6, <4>1, <4>2 DEF SeenUpTo
      <4>3. CASE a <= s
        <5>1. a <= t /\ s < BlockCount
          BY <1>3, <2>4, <2>6, <4>3
        <5>2. df.owners[s] = last.file /\ df.owners[t] = last.file
          BY <2>6, <4>1, <4>3, <5>1 DEF SeenUpTo
        <5> QED BY <2>5, <2>7, <5>2
      <4> QED BY <1>3, <2>6, <4>2, <4>3
    <3> QED BY <3>1, <3>2
  <2> QED BY <1>1, <2>1, <2>9, WholeIsOneRun
<1> QED BY <1>1, <1>5 DEF CheckedLayout, BlocksFor

\* When the check lets the owners pass, the blocks of each file lie together.
LEMMA CheckedSpans ==
  ASSUME DLocal, FewPlaces, df.phase # "idle", Checked,
         NEW b \in Blocks, df.owners[b] # NULL
  PROVE  \E a, e : Spans(df.owners[b], a, e)
<1> DEFINE f == df.owners[b]
<1>1. f \in Keyed /\ heap[f] # NULL /\ f \in FileIds /\ f # NULL
  BY DEF DLocal, DfOK, Keyed
<1>2. PICK scan : Scans(scan) /\ scan[BlockCount].ok
  BY CheckedScans
<1> DEFINE last == scan[BlockCount]
<1>3. IF last.files = 0 THEN \E z \in 1 .. BlockCount : SeenAll(BlockCount, z)
      ELSE \E a \in 0 .. BlockCount : SeenUpTo(last, BlockCount, a)
  BY <1>2, ScanSound DEF ScanOK
<1> HIDE DEF last
<1>4. BlockCount \in Nat /\ b \in Nat /\ b < BlockCount
  BY BlockCountAssumption DEF BlockCountAssumption
<1>5. df.owners[b] = f
  OBVIOUS
<1> HIDE DEF f
<1> DEFINE whole == Whole(f)
<1>6. ASSUME whole PROVE \E a, e : Spans(f, a, e)
  BY <1>1, <1>6, WholeSpans
<1> HIDE DEF whole
<1>7. ASSUME ~whole PROVE \E a, e : Spans(f, a, e)
  <2>1. CASE last.files = 0
    <3>1. PICK z \in 1 .. BlockCount : SeenAll(BlockCount, z)
      BY <1>3, <2>1
    <3>2. z \in Nat /\ z > 0 /\ z <= BlockCount
      BY <1>4
    <3>3. \A c \in Blocks : df.owners[c] = f => c = z - 1
      <4> SUFFICES ASSUME NEW c \in Blocks, df.owners[c] = f PROVE c = z - 1
        OBVIOUS
      <4>1. ~(c < z - 1)
        BY <1>7, <3>1 DEF SeenAll, whole
      <4>2. ~(z <= c /\ c < BlockCount)
        BY <1>1, <3>1 DEF SeenAll
      <4> QED BY <1>4, <3>2, <4>1, <4>2
    <3>4. b = z - 1
      BY <1>5, <3>3
    <3>5. Spans(f, b, z)
      BY <1>4, <1>5, <3>2, <3>3, <3>4 DEF Spans
    <3> QED BY <3>5
  <2>2. CASE last.files # 0
    <3>1. PICK a \in 0 .. BlockCount : SeenUpTo(last, BlockCount, a)
      BY <1>3, <2>2
    <3>2. a \in Nat /\ a <= BlockCount
      BY <1>4
    <3>3. \A c \in Blocks : df.owners[c] = f => a <= c
      BY <1>4, <1>7, <3>1, <3>2 DEF SeenUpTo, whole
    <3>4. a <= b /\ last.file = f
      BY <1>4, <1>5, <3>1, <3>3 DEF SeenUpTo
    <3>5. \A c \in Blocks : a <= c => df.owners[c] = f
      BY <1>4, <3>1, <3>2, <3>4 DEF SeenUpTo
    <3>6. Spans(f, a, BlockCount)
      BY <1>4, <3>2, <3>3, <3>4, <3>5 DEF Spans
    <3> QED BY <3>6
  <2> QED BY <2>1, <2>2
<1>8. \E a, e : Spans(f, a, e)
  BY <1>6, <1>7
<1> QED BY <1>5, <1>8

\* The new index then gives each file one cluster, with all its blocks.
LEMMA OwnedSpan ==
  ASSUME index' = NewIndex, NothingBeyondEnd, NEW f \in FileIds, NEW a, NEW e, Spans(f, a, e)
  PROVE  Owned(f)' = Places(f) /\ Len(index'[f]) = 1 /\ f \in Keyed'
<1> DEFINE new == NewIndex[f]
<1>1. /\ a \in Nat /\ e \in Nat /\ a < e
      /\ \A b \in Blocks : (df.owners[b] = f) <=> (a <= b /\ b < e)
  BY DEF Spans
<1>2. /\ Len(new) = 1 /\ new[1].start = a /\ new[1].num = e - a /\ new \in Seq(Cluster)
  BY OneRun, NewClusters
<1> HIDE DEF new
<1>3. DOMAIN new = {1} /\ new # <<>>
  <2>1. DOMAIN new = 1 .. 1
    <3> HIDE DEF Cluster
    <3> QED BY <1>2
  <2>2. DOMAIN new = {1}
    BY <2>1
  <2>3. 1 \notin DOMAIN <<>>
    OBVIOUS
  <2> QED BY <2>2, <2>3
<1>4. a + (e - a) = e
  BY <1>1
<1>5. \A b \in Blocks : Covers(new[1], b) <=> df.owners[b] = f
  BY <1>1, <1>2, <1>4 DEF Covers
<1>6. {b \in Blocks : \E i \in DOMAIN new : Covers(new[i], b)} = Places(f)
  <2> HIDE DEF Blocks
  <2> QED BY <1>3, <1>5 DEF Places
<1>7. index'[f] = new
  BY DEF new
<1>8. Owned(f)' = Places(f)
  BY <1>6, <1>7 DEF Owned, Covers
<1> QED BY <1>2, <1>3, <1>7, <1>8 DEF Keyed

LEMMA CompactedFinish ==
  ASSUME DLocal, FewPlaces, Finished
  PROVE  Compacted'
<1>1. /\ index' = NewIndex /\ heap' = heap /\ df.phase # "idle"
      /\ Checked /\ NothingBeyondEnd
  BY DEF Finished, DefragFinish, InDefrag
<1>2. End \in Nat /\ End <= BlockCount /\ BlockCount \in Nat
  BY EndIsFirstGap, BlockCountAssumption DEF BlockCountAssumption
<1>3. ASSUME NEW b \in Blocks, df.owners[b] # NULL
      PROVE  \E f \in Keyed' : /\ df.owners[b] = f
                              /\ Len(index'[f]) = 1 /\ b \in Owned(f)'
  <2>0. PICK f : df.owners[b] = f
    OBVIOUS
  <2>1. f \in FileIds /\ b \in Places(f)
    BY <1>1, <1>3, <2>0 DEF DLocal, DfOK, Keyed, Places
  <2>2. PICK a, e : Spans(f, a, e)
    BY <1>1, <1>3, <2>0, CheckedSpans
  <2>3. Owned(f)' = Places(f) /\ Len(index'[f]) = 1 /\ f \in Keyed'
    <3> HIDE DEF Blocks
    <3> QED BY <1>1, <2>1, <2>2, OwnedSpan
  <2> QED BY <2>0, <2>1, <2>3
<1>4. \A f \in Keyed' : Len(index'[f]) = 1
  <2> SUFFICES ASSUME NEW f \in Keyed' PROVE Len(index'[f]) = 1
    OBVIOUS
  <2>1. PICK b \in Blocks : df.owners[b] = f /\ f # NULL
    BY KeysRebuilt
  <2> QED BY <1>3, <2>1
<1> DEFINE owned == UNION {Owned(f)' : f \in Keyed'}
<1>5. owned = 0 .. End - 1
  <2>1. ASSUME NEW b \in owned PROVE b \in 0 .. End - 1
    <3>1. PICK f \in Keyed' : b \in Owned(f)'
      OBVIOUS
    <3>2. f \in FileIds /\ f # NULL
      BY NullAssumption DEF Keyed, NullAssumption
    <3>3. b \in Blocks /\ df.owners[b] = f
      BY <1>1, <3>1, <3>2, NewOwned DEF Places
    <3>4. ~(End <= b)
      BY <1>1, <1>2, <3>2, <3>3 DEF NothingBeyondEnd
    <3> QED BY <1>2, <3>3, <3>4
  <2>2. ASSUME NEW b \in 0 .. End - 1 PROVE b \in owned
    <3>1. b \in Blocks /\ df.owners[b] # NULL
      BY <1>2, EndIsFirstGap
    <3> QED BY <1>3, <3>1
  <2> HIDE DEF owned
  <2> QED BY <2>1, <2>2
<1>6. Cardinality(0 .. End - 1) = End
  <2>1. Cardinality(0 .. End - 1) = IF 0 > End - 1 THEN 0 ELSE End - 1 - 0 + 1
    BY <1>2, FS_Interval
  <2> QED BY <1>2, <2>1
<1>7. owned = 0 .. Cardinality(owned) - 1
  <2> HIDE DEF owned
  <2> QED BY <1>5, <1>6
<1> QED BY <1>4, <1>7 DEF Compacted

\* The other operations answer with a name of their own; only a save that reads on
\* changes the device without an answer.
AnswersElse ==
  \/ reply'.op # "defrag"
  \/ UNCHANGED <<index, heap, sv, reply>>
  \/ sv.file # NULL /\ reply' = reply

LEMMA AnswersNext ==
  ASSUME [Next]_vars
  PROVE  AnswersElse
<1>1. ASSUME NEW op \in {"save", "load", "delete", "rename"}, NEW n \in Names, Refuse(op, n)
      PROVE  AnswersElse
  <2>1. op # "defrag" /\ reply'.op = op
    BY <1>1 DEF Refuse, Reply
  <2> QED BY <2>1 DEF AnswersElse
<1>2. ASSUME NEW how, Halt(how) PROVE AnswersElse
  BY <1>2 DEF Halt, AnswersElse
<1>3. CASE SaveStep
  <2>1. ASSUME NEW b \in Blocks, SaveBlock(b) \/ SaveCluster(b) \/ SaveReadError(b)
        PROVE  AnswersElse
    BY <2>1 DEF SaveBlock, SaveCluster, SaveReadError, Looping, Saving, AnswersElse
  <2>2. ASSUME NEW result, SaveReturns(result) PROVE AnswersElse
    <3>1. reply'.op = "save"
      BY <2>2 DEF SaveReturns, Reply
    <3> QED BY <3>1 DEF AnswersElse
  <2> QED BY <1>2, <1>3, <2>1, <2>2
      DEF SaveStep, SaveCommit, SaveRollback, SaveRollbackFails, SaveAbandoned, SaveInsertAborts
<1>4. CASE Lookup
  <2>1. ASSUME NEW n \in Names, LoadMissing(n) \/ LoadFailed(n) PROVE AnswersElse
    BY <1>1, <2>1 DEF LoadMissing, LoadFailed
  <2>2. ASSUME NEW n \in Names, NEW f \in FileIds, Load(n, f) PROVE AnswersElse
    <3>1. reply'.op = "load" \/ Halt("aborted")
      BY <2>2 DEF Load, Reply
    <3> QED BY <1>2, <3>1 DEF AnswersElse
  <2>3. CASE Dir
    <3>1. reply'.op = "dir"
      BY <2>3 DEF Dir, Reply
    <3> QED BY <3>1 DEF AnswersElse
  <2> QED BY <1>2, <1>4, <2>1, <2>2, <2>3 DEF Lookup, DirAborts
<1>5. CASE Alter
  <2>1. ASSUME NEW n \in Names,
               SaveUnopened(n) \/ SaveDuplicate(n) \/ DeleteMissing(n) \/ DeleteUnread(n)
        PROVE  AnswersElse
    BY <1>1, <2>1 DEF SaveUnopened, SaveDuplicate, DeleteMissing, DeleteUnread
  <2>2. ASSUME NEW n \in Names, NEW f \in FileIds, Delete(n, f) PROVE AnswersElse
    <3>1. reply'.op = "delete" \/ Halt("aborted")
      BY <2>2 DEF Delete, Reply
    <3> QED BY <1>2, <3>1 DEF AnswersElse
  <2>3. ASSUME NEW n \in Names, NEW d \in DiskFiles, NEW f \in FileIds, SaveOpen(n, d, f)
        PROVE  AnswersElse
    <3>1. reply'.op = "none"
      BY <2>3 DEF SaveOpen, NoReply, Reply
    <3> QED BY <3>1 DEF AnswersElse
  <2>4. ASSUME NEW old \in Names, NEW new \in Names,
               RenameRefused(old, new) \/ RenameUnread(old, new) \/ RenameAborts(old, new)
        PROVE  AnswersElse
    BY <1>1, <1>2, <2>4 DEF RenameRefused, RenameUnread, RenameAborts
  <2>5. ASSUME NEW old \in Names, NEW new \in Names, NEW f \in FileIds,
               Rename(old, new, f) \/ RenameLosesFile(old, new, f)
        PROVE  AnswersElse
    <3>1. reply'.op = "rename"
      BY <2>5 DEF Rename, RenameLosesFile, Reply
    <3> QED BY <3>1 DEF AnswersElse
  <2> QED BY <1>5, <2>1, <2>2, <2>3, <2>4, <2>5 DEF Alter
<1>6. CASE Destroy
  <2>1. reply'.op = "destroy"
    BY <1>6 DEF Destroy, Reply
  <2> QED BY <2>1 DEF AnswersElse
<1>7. CASE TouchDangling \/ Halted \/ UNCHANGED vars
  BY <1>2, <1>7 DEF TouchDangling, Halted, vars, AnswersElse
<1> QED BY <1>3, <1>4, <1>5, <1>6, <1>7 DEF Next

\* A defragmentation leaves no save in progress, so its answer stays true until the
\* next one.
LaidOut == CheckedLayout /\ Compacted /\ (reply.op = "defrag" => sv.file = NULL)

LEMMA LaidOutNext ==
  ASSUME DLocal, FewPlaces, LaidOut, [DNext]_dvars
  PROVE  LaidOut'
<1>1. ASSUME UNCHANGED <<index, heap, sv, reply>> PROVE LaidOut'
  BY <1>1 DEF LaidOut, CheckedLayout, Compacted, Keyed, Owned, Covers, BlocksFor
<1>2. ASSUME reply'.op # "defrag" PROVE LaidOut'
  BY <1>2 DEF LaidOut, CheckedLayout, Compacted
<1>3. CASE [Next]_vars
  <2>1. CASE sv.file # NULL /\ reply' = reply
    <3>1. reply.op # "defrag"
      BY <2>1 DEF LaidOut
    <3> QED BY <1>2, <2>1, <3>1
  <2> QED BY <1>1, <1>2, <1>3, <2>1, AnswersNext DEF AnswersElse
<1>4. CASE DefragUnready
  <2>1. reply'.result = "ERROR" /\ sv' = sv /\ sv.file = NULL
    BY <1>4 DEF DefragUnready, Refuse, Reply, Ready, Between
  <2>2. reply'.result # "OK"
    BY <2>1
  <2> QED BY <2>1, <2>2 DEF LaidOut, CheckedLayout, Compacted
<1>5. CASE DefragStart
  <2>1. reply'.op = "none"
    BY <1>5 DEF DefragStart, NoReply, Reply
  <2> QED BY <1>2, <2>1
<1>6. CASE DefragFinish
  <2>1. CASE Finished
    <3>1. sv' = sv /\ sv.file = NULL
      BY <2>1 DEF Finished, DefragFinish, InDefrag, DLocal, DfOK
    <3> QED BY <2>1, <3>1, CheckedFinish, CompactedFinish DEF LaidOut
  <2> QED BY <1>1, <1>6, <2>1, FinishedOrNot DEF CheckFails, Halt
<1>7. CASE \E p \in Blocks : KeepBlock(p) \/ CopyBlock(p) \/ ShiftBlocks(p)
  BY <1>1, <1>7 DEF KeepBlock, CopyBlock, ShiftBlocks, vars
<1>8. CASE DefragSeek \/ FileCompacted \/ DefragAborts \/ UNCHANGED dvars
  BY <1>1, <1>8 DEF DefragSeek, FileCompacted, DefragAborts, Halt, dvars, vars
<1> QED BY <1>3, <1>4, <1>5, <1>6, <1>7, <1>8 DEF DNext, Other, Compact

LEMMA LaidOutAlways == DSpec => []LaidOut
<1>1. DInit => DLocal
  BY DLocalInit
<1>2. DLocal /\ [DNext]_dvars => DLocal'
  BY DLocalNext
<1>3. DInit => ClustersAscend /\ EndedBefore
  BY DEF DInit, Init, ClustersAscend, EndedBefore, Idle
<1>4. DLocal /\ ClustersAscend /\ EndedBefore /\ [DNext]_dvars => ClustersAscend' /\ EndedBefore'
  BY AscendStep
<1>5. DInit => Few
  BY FewInit
<1>6. DLocal /\ ClustersAscend /\ Few /\ [DNext]_dvars => Few'
  BY FewStep
<1>7. Few => FewPlaces
  BY DEF Few
<1>8. DInit => LaidOut
  <2> SUFFICES ASSUME DInit PROVE LaidOut
    OBVIOUS
  <2>1. reply.op = "none"
    BY DEF DInit, Init, NoReply, Reply
  <2> QED BY <2>1 DEF LaidOut, CheckedLayout, Compacted
<1>9. DLocal /\ FewPlaces /\ LaidOut /\ [DNext]_dvars => LaidOut'
  BY LaidOutNext
<1> QED BY <1>1, <1>2, <1>3, <1>4, <1>5, <1>6, <1>7, <1>8, <1>9, PTL DEF DSpec

\* Whatever the marks, the lengths and the clusters were, a defragmentation that its
\* check lets pass (lines 831 to 876) leaves every file but the last on the device in
\* one cluster with exactly the blocks its length needs: no file ever gets more than
\* those, and the check counts them.
THEOREM LayoutIsChecked == DSpec => []CheckedLayout
<1>1. LaidOut => CheckedLayout
  BY DEF LaidOut
<1> QED BY <1>1, LaidOutAlways, PTL

\* The last file is in one cluster too, and the files fill the front of the device.
THEOREM DeviceIsCompacted == DSpec => []Compacted
<1>1. LaidOut => Compacted
  BY DEF LaidOut
<1> QED BY <1>1, LaidOutAlways, PTL
=============================================================================
