----------------------------- MODULE ImffsDefrag -----------------------------
(***************************************************************************)
(* imffs_defrag, with the rest of imffs around it.  It gathers which File  *)
(* owns each block, moves the blocks of one file after the other to the    *)
(* front of the device, checks the result, and builds a new index and the  *)
(* marks from it.  Each block moved is a step.                             *)
(***************************************************************************)
EXTENDS Imffs

CONSTANT PosRange    \* values of the variable that holds a block's position
ASSUME PosRangeAssumption == PosRange \in Nat \ {0}

VARIABLE df          \* the locals of the defragmentation in progress

dvars == <<vars, df>>

NoOwners == [b \in Blocks |-> NULL]
NoDefrag ==
  [phase |-> "idle", owners |-> NoOwners, owner_count |-> 0, count |-> 0,
   curr_file_block |-> 0, curr_file |-> NULL, curr_blocks |-> 0, pos |-> 0]

InDefrag == status = "running" /\ df.phase # "idle"

-----------------------------------------------------------------------------
(* The owners of the blocks *)

\* A cluster's position is stored in a uint8_t.
Narrow(c) == [c EXCEPT !.start = @ % PosRange]

Claimants(b) ==
  {f \in Keyed : \E i \in DOMAIN index[f] : Covers(Narrow(index[f][i]), b)}

\* The index is walked in the order of names, and a later claim wins.
LastClaimant(b) ==
  CHOOSE f \in Claimants(b) :
    \A g \in Claimants(b) : Rank[heap[g].name] <= Rank[heap[f].name]

Owners == [b \in Blocks |-> IF Claimants(b) = {} THEN NULL ELSE LastClaimant(b)]

DefragStart ==
  /\ Ready
  /\ df.phase = "idle"
  /\ df' = [NoDefrag EXCEPT !.phase = "seek",
                            !.owners = Owners,
                            !.owner_count = Cardinality(Keyed)]
  /\ reply' = NoReply
  /\ UNCHANGED <<data, used, index, heap, sv, status>>

\* No memory for the owners or for the values of a file.
DefragUnready ==
  /\ MallocMayFail
  /\ Ready
  /\ df.phase = "idle"
  /\ Refuse("defrag", NULL)
  /\ UNCHANGED df

\* mm_create, before the first move, and mm_insert_value, after the last, assert
\* that their mallocs succeed.
DefragAborts ==
  /\ MallocMayFail
  /\ InDefrag
  /\ df.phase = "seek"
  /\ df.count \in {0, df.owner_count}
  /\ Halt("aborted")
  /\ UNCHANGED df

-----------------------------------------------------------------------------
(* Compaction *)

OwnedFrom(f, p) == {b \in p .. BlockCount - 1 : df.owners[b] = f}

Rest == {b \in df.curr_file_block .. BlockCount - 1 : df.owners[b] # NULL}

\* Variant: the file with the last block.
NextFileFromEnd == df.owners[Max(Rest)]

\* The next file is the first that owns a block not compacted yet.
NextFile == df.owners[Min(Rest)]

\* When no file is left, the code reads the length of a null File.
DefragSeek ==
  /\ InDefrag
  /\ df.phase = "seek"
  /\ df.count < df.owner_count
  /\ IF Rest = {}
       THEN Halt("undefined") /\ UNCHANGED df
       ELSE /\ df' = [df EXCEPT !.phase = "move",
                                !.curr_file = NextFile,
                                !.curr_blocks = BlocksFor(heap[NextFile].byte_len),
                                !.pos = df.curr_file_block]
            /\ UNCHANGED vars

\* Variant: the elements at p and q change places.
Exchanged(a, p, q) == [a EXCEPT ![q] = a[p], ![p] = a[q]]

\* Variant: the element at p is put over the one at q.
Overwritten(a, p, q) == [a EXCEPT ![q] = a[p]]

\* What a block array becomes when the element at p moves to q <= p and those
\* from q to p - 1 move up by one.
Shifted(a, p, q) ==
  [b \in Blocks |-> IF b = q THEN a[p]
                    ELSE IF q < b /\ b <= p THEN a[b - 1] ELSE a[b]]

\* p is the next block of the file to put at the end of the compacted blocks.
NextOwned(p) ==
  /\ InDefrag
  /\ df.phase = "move"
  /\ df.curr_blocks > 0
  /\ p \in OwnedFrom(df.curr_file, df.pos)
  /\ \A b \in OwnedFrom(df.curr_file, df.pos) : p <= b

\* Variant: every position looked at counts as a block of the file.
PlacedByPosition(p, owners) ==
  [df EXCEPT !.owners = owners,
             !.curr_file_block = @ + 1,
             !.curr_blocks = @ - (p - df.pos + 1),
             !.pos = p + 1]

Placed(p, owners) ==
  [df EXCEPT !.owners = owners,
             !.curr_file_block = @ + 1,
             !.curr_blocks = @ - 1,
             !.pos = p + 1]

Target == df.owners[df.curr_file_block]

KeepBlock(p) ==
  /\ NextOwned(p)
  /\ Target = df.curr_file
  /\ df' = Placed(p, df.owners)
  /\ UNCHANGED vars

\* Variant: the block keeps its owner when it is copied.
CopyBlockKeepsOwner(p) ==
  LET q == df.curr_file_block IN
  /\ NextOwned(p)
  /\ Target = NULL
  /\ data' = [data EXCEPT ![q] = data[p]]
  /\ df' = Placed(p, [df.owners EXCEPT ![q] = df.curr_file])
  /\ UNCHANGED <<used, index, heap, sv, status, reply>>

\* The target is free: copy the block down.
CopyBlock(p) ==
  LET q == df.curr_file_block IN
  /\ NextOwned(p)
  /\ Target = NULL
  /\ data' = [data EXCEPT ![q] = data[p]]
  /\ df' = Placed(p, [df.owners EXCEPT ![q] = df.curr_file, ![p] = NULL])
  /\ UNCHANGED <<used, index, heap, sv, status, reply>>

\* The target belongs to another file: move everything from it up by one.
ShiftBlocks(p) ==
  LET q == df.curr_file_block IN
  /\ NextOwned(p)
  /\ Target \notin {NULL, df.curr_file}
  /\ data' = Shifted(data, p, q)
  /\ df' = Placed(p, Shifted(df.owners, p, q))
  /\ UNCHANGED <<used, index, heap, sv, status, reply>>

FileCompacted ==
  /\ InDefrag
  /\ df.phase = "move"
  /\ df.curr_blocks = 0 \/ OwnedFrom(df.curr_file, df.pos) = {}
  /\ df' = [df EXCEPT !.phase = "seek", !.count = @ + 1]
  /\ UNCHANGED vars

-----------------------------------------------------------------------------
(* The check of the compaction, and the new index and marks *)

\* Variant: a file of full blocks is taken to have no empty one behind them.
CheckStepFull(s, owner) ==
  CASE s.files = 0 ->
         [s EXCEPT !.ok = @ /\ owner = NULL]
    [] s.files > 0 /\ s.blocks > 0 ->
         [s EXCEPT !.ok = @ /\ owner = s.file, !.blocks = @ - 1]
    [] s.files = 1 /\ s.blocks = 0 ->
         [s EXCEPT !.files = 0]
    [] s.files > 1 /\ s.blocks = 0 /\ owner = NULL ->
         [s EXCEPT !.ok = FALSE]
    [] s.files > 1 /\ s.blocks = 0 /\ owner # NULL ->
         [s EXCEPT !.files = @ - 1, !.file = owner,
                   !.blocks = Max({0, (heap[owner].byte_len - 1) \div BytesPerBlock})]

\* files counts one more than the files left, so that the block after the last
\* file is not looked at.
CheckStep(s, owner) ==
  CASE s.files = 0 ->
         [s EXCEPT !.ok = @ /\ owner = NULL]
    [] s.files > 0 /\ s.blocks > 0 ->
         [s EXCEPT !.ok = @ /\ owner = s.file, !.blocks = @ - 1]
    [] s.files = 1 /\ s.blocks = 0 ->
         [s EXCEPT !.files = 0]
    [] s.files > 1 /\ s.blocks = 0 /\ owner = NULL ->
         [s EXCEPT !.ok = FALSE]
    [] s.files > 1 /\ s.blocks = 0 /\ owner # NULL ->
         [s EXCEPT !.files = @ - 1, !.file = owner,
                   !.blocks = heap[owner].byte_len \div BytesPerBlock]

Scan[p \in 0 .. BlockCount] ==
  IF p = 0
    THEN [files |-> df.owner_count + 1, blocks |-> 0, file |-> NULL, ok |-> TRUE]
    ELSE CheckStep(Scan[p - 1], df.owners[p - 1])

Checked == Scan[BlockCount].ok

\* The block at p is free where the check expects the first of another file: the
\* code reads the length of a null File.
NullFileDue(p) ==
  Scan[p].ok /\ Scan[p].files > 1 /\ Scan[p].blocks = 0 /\ df.owners[p] = NULL

\* The first block without an owner ends the new index, and every later block
\* must be without one too.
End ==
  LET gaps == {b \in Blocks : df.owners[b] = NULL}
  IN IF gaps = {} THEN BlockCount ELSE Min(gaps)

NothingBeyondEnd == \A b \in End .. BlockCount - 1 : df.owners[b] = NULL

\* Variant: a run without its last block.
RunOfShort(b) ==
  LET others == {c \in b .. End - 1 : df.owners[c] # df.owners[b]} \cup {End}
  IN [start |-> b, num |-> Min(others) - b - 1]

\* Variant: a run with the block behind it.
RunOfLong(b) ==
  LET others == {c \in b .. End - 1 : df.owners[c] # df.owners[b]} \cup {End}
  IN [start |-> b, num |-> Min(others) - b + 1]

RunOf(b) ==
  LET others == {c \in b .. End - 1 : df.owners[c] # df.owners[b]} \cup {End}
  IN [start |-> b, num |-> Min(others) - b]

\* Variant: a run starts at every block.
RunStartsEverywhere(f) == {b \in 0 .. End - 1 : df.owners[b] = f}

\* Variant: a run starts only where the owner changes.
RunStartsAtChanges(f) ==
  {b \in 1 .. End - 1 : df.owners[b] = f /\ df.owners[b - 1] # f}

RunStarts(f) ==
  {b \in 0 .. End - 1 : df.owners[b] = f /\ (b = 0 \/ df.owners[b - 1] # f)}

\* The blocks of a set as they are met from the front of the device.
InOrder(S) ==
  [i \in 1 .. Cardinality(S) |-> CHOOSE b \in S : Cardinality({c \in S : c < b}) = i - 1]

NewIndex ==
  [f \in FileIds |->
     LET starts == InOrder(RunStarts(f))
     IN [i \in DOMAIN starts |-> RunOf(starts[i])]]

\* Variant: one mark more is cleared, that of the last block of the last file.
UnmarkedFromLast == IF End = 0 THEN Blocks ELSE End - 1 .. BlockCount - 1

\* The marks behind the block that ends the last file are cleared, but not the
\* mark of that block; none is ever set.
Unmarked == IF End = 0 THEN Blocks ELSE End + 1 .. BlockCount - 1

\* Otherwise an assertion has failed.
CheckFails ==
  /\ Halt(IF \E p \in Blocks : NullFileDue(p) THEN "undefined" ELSE "aborted")
  /\ UNCHANGED df

DefragFinish ==
  /\ InDefrag
  /\ df.phase = "seek"
  /\ df.count >= df.owner_count
  /\ IF Checked /\ NothingBeyondEnd
       THEN /\ df' = NoDefrag
            /\ index' = NewIndex
            /\ used' = used \ Unmarked
            /\ reply' = Reply("defrag", NULL, "OK")
            /\ UNCHANGED <<data, heap, sv, status>>
       ELSE CheckFails

Compact ==
  \/ DefragSeek
  \/ \E p \in Blocks : KeepBlock(p) \/ CopyBlock(p) \/ ShiftBlocks(p)
  \/ FileCompacted
  \/ DefragFinish
  \/ DefragAborts

-----------------------------------------------------------------------------
DInit == Init /\ df = NoDefrag

Other == (df.phase = "idle" \/ status # "running") /\ Next /\ UNCHANGED df

DNext == Other \/ DefragStart \/ DefragUnready \/ Compact

DSpec == DInit /\ [][DNext]_dvars

\* Whether the marks are those of the blocks that files own.
MarksAgree == used = Pending \cup UNION {Owned(f) : f \in FileIds}

\* A user who saves nothing more once a defragmentation has left wrong marks.
CautiousSpec ==
  DInit /\ [][DNext /\ (sv'.file # sv.file /\ sv.file = NULL => MarksAgree)]_dvars

-----------------------------------------------------------------------------
(* Properties *)

\* The locals of a defragmentation stay in their ranges.
DTypeOK ==
  /\ TypeOK
  /\ df \in [phase : {"idle", "seek", "move"},
             owners : [Blocks -> FileIds \cup {NULL}],
             owner_count : Nat, count : Nat, curr_file_block : 0 .. BlockCount,
             curr_file : FileIds \cup {NULL}, curr_blocks : Nat,
             pos : 0 .. BlockCount]

\* After a defragmentation each file is one cluster, and the clusters fill the
\* front of the device without a gap.
Compacted ==
  reply.op = "defrag" /\ reply.result = "OK" =>
    /\ \A f \in Keyed : Len(index[f]) = 1
    /\ LET owned == UNION {Owned(f) : f \in Keyed}
       IN owned = 0 .. Cardinality(owned) - 1

\* Whatever the marks and the clusters were, a defragmentation that its check
\* lets pass leaves each file with the blocks its length needs, in one cluster;
\* only of the last file on the device may some be missing, since the check is
\* left at the end of the device with blocks still to come (lines 831 to 845).
CheckedLayout ==
  reply.op = "defrag" /\ reply.result = "OK" =>
    \A f, g \in Keyed :
      index[f][1].start < index[g][1].start =>
        Len(index[f]) = 1 /\ index[f][1].num = BlocksFor(heap[f].byte_len)

First(f) == Min({b \in Blocks : df.owners[b] = f})

\* The order of the files on the device is the order of their first blocks
\* before: while blocks move, no file overtakes one that started before it.
OrderKept ==
  InDefrag =>
    \A f, g \in {df.owners[b] : b \in Blocks} \ {NULL} :
      index[f][1].start < index[g][1].start => First(f) < First(g)

\* At every step each file still owns as many blocks as its clusters have.
OwnersConserved ==
  InDefrag =>
    \A f \in Keyed :
      Cardinality({b \in Blocks : df.owners[b] = f}) = Len(BlocksOf(f))

\* While blocks move, every block of a file goes, with what it holds and with its
\* owner, to one place, and the blocks of a file stay in their order: neither the
\* copy over a free block nor the two memmoves of a shift loses or splits a file,
\* whatever marks, lengths and clusters the defragmentation started from.
MovesWhole ==
  \E from \in Bijection(Blocks, Blocks) :
    \A b \in Blocks :
      /\ df'.owners[b] = df.owners[from[b]]
      /\ df'.owners[b] # NULL =>
           /\ data'[b] = data[from[b]]
           /\ \A c \in Blocks :
                b < c /\ df'.owners[b] = df'.owners[c] => from[b] < from[c]

BlocksMoveWhole == [][InDefrag /\ df'.phase # "idle" => MovesWhole]_dvars

\* A defragmentation keeps right marks right when no block before an owned one is
\* free: it then clears the mark of no block that a file has, and no file moves
\* to a block without a mark (imffs_defrag, lines 847 to 869).
NoHole == \A b \in used : \A c \in 0 .. b : c \in used

MarksKept ==
  [][InDefrag /\ df'.phase = "idle" /\ MarksAgree /\ NoHole => MarksAgree']_dvars

\* No assertion fails and no null File is followed while the marks are right,
\* whatever has been moved, deleted and saved again before.
AbortsOnlyUnmarked == MarksAgree => NoAbort
=============================================================================
