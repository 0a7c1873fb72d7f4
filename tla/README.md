# IMFFS: a verification project

TLA+ models of the in-memory flat file system in `src/src/` (`a5_imffs.c`, `a5_multimap.c`,
`a5_main.c`), the TLC runs that check them, and proofs that TLAPS checks. Line numbers below are
those of `src/src/a5_imffs.c` unless another file is named.

## The system

| part | state | operations | models |
|---|---|---|---|
| imffs (`a5_imffs.c`) | `data` (the device), `used` (a mark for each block), `block_count`, `index`; the `File`s on the heap | save, load, delete, rename, dir, fulldir, destroy | `Imffs`, `ImffsStore` |
| defragmentation (`imffs_defrag`, 715-888) | the owner of each block, the position reached, a new index | defrag | `ImffsDefrag`, `DefragStore` |
| multimap (`a5_multimap.c`) | an ordered array of keys, a list of values for each, one traversal position | create, insert, count, get, remove, first, next, destroy | `MultimapArray`, `Multimap`, `OrderedMultimap` |
| imffs on its multimap | both | every call that imffs makes on `fs->index` | `ImffsIndex` |
| shell (`a5_main.c`), `imffs_create` (135-171) | options, one line of input at a time, the device being made | options, create, the loop that calls imffs, exit | `Shell` |
| tests, test scripts, drafts, build | | | not modelled |

The shell calls imffs, imffs calls the multimap with `compare_files_by_name` (names up to case)
and `compare_always_greater` (a new value goes last). The device and the index share blocks by
address, and the marks are a third account of the same thing, kept by hand: **save** sets marks,
**delete** clears them and asserts that they were set, **defrag** rewrites index and device and
clears some. Everything runs in one thread. What is hard here is not interleaving but

* operations that fail half-way and take back what they did (a save that runs out of space, a
  read error, a malloc that returns NULL in the middle of a rename or of a rollback);
* three accounts of the same blocks that every operation must keep in step over long sequences of
  legal calls;
* boundaries: a file of full blocks, a cluster that ends where the next begins, the last block of
  the device, a full index, a position or a size that does not fit its variable;
* blocks moved one over another, and a traversal position into an array that shifts under it;
* keys whose order depends on names that change while they are in the array;
* an input that ends in the middle of a line.

What makes each part correct:

* imffs: no block belongs to two files, none is lost, a File is on the heap exactly when it is a
  key or being saved, no two files have one name, no assertion can fail, and the whole is a map
  from names to what was saved under them.
* defrag: what files hold does not change at any move; afterwards each file is one cluster, in
  the old order, at the front, and right marks stay right when there was no hole.
* multimap: each key is found, keys and values are in order, a traversal under way skips no key
  that stays and returns none twice that has not been removed and inserted again. As the index of imffs it says the clusters that imffs takes it to
  say, and both ways to look a name up give the same File.
* shell: it prompts only with a whole device, every command is answered, every session ends.

## Modules

`FileStore` is what imffs promises, with no device: a map from keys (names up to case) to
contents, and replies. Its action `SaveRolledBack` is an answer of the code that a user would not
expect (Finding 1): OK, and no file; it is there so that everything else can be checked. The file
that a rename loses when a malloc fails (Finding 2) is no step of `Spec`: only `LossySpec` has it,
which says how far the promise is broken then.

`Imffs` is the device. `data` holds, for each block, `Garbage` (what malloc left, or what a
failed read left) or `<<d, i>>`, the i-th block of the bytes of disk file `d`. `used` is the set
of blocks marked `'X'`. `index` gives each heap address its sequence of clusters, `[start, num]`,
`<<>>` when it is not a key; that the multimap does this is the subject of `ImffsIndex`. `heap`
is the File at each address. `sv` holds the locals of `imffs_save`: `start`, `num`, `prev`, `eof`
are `cluster_start`, `blocks_in_cluster`, `prev_free_block`, `eof`, and `ok` is `IMFFS_OK ==
result`. `reply` is what the last operation returned and printed.

| action | code |
|---|---|
| `SaveUnopened`, `SaveDuplicate`, `SaveOpen` | 350-382 |
| `SaveBlock`, `SaveCluster`, `SaveReadError` | one turn of the loop 384-408 |
| `SaveCommit` | 415-420, after the end of the file |
| `SaveRollback`, `SaveRollbackFails`, `SaveAbandoned` | 410-436 |
| `Load`, `LoadMissing`, `LoadFailed` | 445-511 |
| `Delete`, `DeleteMissing`, `DeleteUnread` | 513-565, with 96-109 |
| `Rename`, `RenameRefused`, `RenameUnread`, `RenameLosesFile` | 567-630 |
| `Dir`, `Destroy` | 632-713, 890-914 |
| `SaveInsertAborts`, `RenameAborts`, `DirAborts` | a malloc of the multimap fails an assertion |
| `TouchDangling` | an operation compares the name of a freed File |

Assertions are on, as the Makefile builds the program. A failed one leads to `status =
"aborted"`; the use of a freed File or of a null pointer leads to `"undefined"`. The process
stops there in the model (`Halted`), and stops after `imffs_destroy` too.

`ImffsStore` refines: `FS == INSTANCE FileStore` with the store read off device, index and heap
(`Store`, `Answer`, `Contents`), and `ImplementsFileStore == FS!Spec`, which holds with memory;
`LosesOnlyByRename == FS!LossySpec` is what holds without: a rename may lose the file it renames,
and nothing else happens to any file.

`ImffsDefrag` adds `df`, the locals of `imffs_defrag`. `DefragStart` is 729-781,
`DefragSeek` 783-792, `KeepBlock`, `CopyBlock` and `ShiftBlocks` are the three outcomes for a
block of the current file (794-822), `FileCompacted` is 825, and `DefragFinish` is the check
(828-845, `CheckStep` one turn of its loop), the new index and the marks (847-876). When the check
fails (`CheckFails`), it is an assertion or, where the first block of a file is due and there is
none, a null File (`NullFileDue`, 835-839). `PosRange` is
the range of the `uint8_t` of line 727. Two specifications: `DSpec`, anything at any time;
`CautiousSpec`, where no save starts while the marks are wrong. The second restricts the user,
never the code: the marks are wrong after a defragmentation that closed a hole (Findings).

`DefragStore` refines again: while blocks move, a file is what its blocks hold in ascending
order, `DefragKeepsFiles == DFS!Spec` and `DefragLosesOnlyByRename == DFS!LossySpec`.

`MultimapArray` is the array of `a5_multimap.c` as operators: the search by halves, the place of
a new key, and how the traversal position follows. The order of keys is a parameter, because
imffs renames Files that are keys. `Multimap` is the whole file on its own, called in any order:
`keys` is the array, `trav_pos` the position, `order` the comparator given to `mm_create`.
`OrderedMultimap` is what it promises: a sequence of values for each key, and the set of keys
that the traversal still has to return.

`ImffsIndex` composes: `mm` is the multimap in `fs->index`, ordered by the names that the Files
have at the moment, and each operation of `ImffsDefrag` also does to it what its calls do, in
their order (a rename removes the key under the old name, 600, and inserts it cluster by cluster
under the new one, 613-617; a walk by `find_matching_file`, 61-79, leaves the traversal where
it stopped). `LeavesIndex`, `Looks`, `SaveInserts` and `Alters` sort the operations by what they
do to the array, `IndexedDefrag` builds the new index run by run.

`Shell` composes the program around it. `input` is what is still to be read: a number of options,
a number of lines, and whether the last line lacks its newline.

| action | code |
|---|---|
| `OptionBlocks`, `OptionHelp`, `ExtraArgument`, `OptionsRead` | `a5_main.c` 176-210 |
| `CreateStruct`, `CreateData`, `CreateUsed`, `CreateIndex`, `CreateChecked` | 135-171, with `mm_create` (`a5_multimap.c` 75-101) and `a5_main.c` 55-61 |
| `ReadCommand`, `ReadHelp`, `ReadQuit`, `ReadEof`, `ReadLong`, `ReadHidden`, `ReadEmpty`, `ReadCut` | `a5_main.c` 64-86: what a line can be |
| `Skip`, `SkipAtEnd` | `a5_main.c` 74: one line skipped; EOF read again |
| `Call`, `Work`, `Return` | `a5_main.c` 88-134: the call, the rest of a save or a defragmentation, and `handle_result` (18-48) |
| `Leave` | `a5_main.c` 166-173 |

Sizes are taken modulo `Word`, the 2^32 of a `uint32_t`. The device of `Imffs` has `BlockCount`
blocks; a session that asked for another number is followed from its options through create to
its exit, but without the commands that use the device. When a part of the device is missing,
`imffs_create` frees everything and the shell calls `imffs_destroy` on it all the same: `undefined`.

`MCImffs`, `MCDefrag`, `MCIndex`, `MCMultimap` and `MCShell` give the constants small values.
`ImffsProofs`, `StoreProofs`, `DefragProofs`, `CautiousProofs`, `IndexProofs`,
`MultimapProofs` and `ShellProofs` hold the theorems, `DataLemmas` the lemmas about data they share. Operators
introduced by "Variant:" are plausible slips in the definition that follows them; no
specification uses them, and each is caught by the property it is listed with in `PROJECT.json`.

## Runs

| run | spec | instance | what it shows |
|---|---|---|---|
| `imffs` | `Spec` | 5 blocks of 2 bytes, 3 Files, names a, A, b | every property of the core when memory does not fail |
| `imffs_malloc` | `Spec` | 4 blocks, 2 Files, mallocs fail | what survives failing mallocs: all but the file of a rename |
| `index_any` | `ISpec` | 3 blocks of 1 byte, 2 Files, names a, A, b, c, mallocs fail | with marks right or wrong: the multimap is the index that imffs takes it for, moves carry whole blocks, clusters stay on the device, and what the check lets pass is compacted |
| `defrag_cautious` | `CautiousSpec` | 6 blocks of 2 bytes, 2 Files | a compaction of any layout keeps every file, and right marks without a hole stay right |
| `multimap_walk` | `Spec` | 5 addresses of 4 ranks, 3 keys and 3 values at a time, 3 comparators | search, order, traversal |
| `session` | `SSpec` | 3 blocks of 4 bytes, 16 values to a word, 2 options, 5 lines, mallocs fail | whole sessions: their device, their answers, their end |
| `save_answer`, `rename_loses`, `defrag_delete`, `defrag_position`, `unterminated_line`, `create_size` | | | the findings |

Bounds and why they suffice. A disk file is either shorter than a block (one block) or two full
blocks (three blocks, the last with nothing read into it), so both ends of line 406 are met. With
one byte to a block, `index_any` has an empty file (one block) and a file of one byte (two).
Four blocks are enough for a file in two clusters with another between them and for a save that
runs out of space in its second cluster. With six, two files of three blocks interleave, which
takes every branch of the compaction, a shift over several blocks of another file included.
Three blocks with two Files let a save with wrong marks take a block of another file, so
that the check of a compaction meets files with too few blocks. With three names for two Files, a
rename moves a key past another. No run fills the index of a device: that takes as many files as
blocks and a save more. It is `multimap_walk` that fills a multimap, and what a full index does to
imffs is proved (`IndexNeverFull`, `ArrayAgrees`). Three Files leave one slot
for the save beside two stored ones; three names are two distinct names and a second spelling.
Four ranks of keys, one of them at two addresses, of which three fit, give the search all its
ways to end and the traversal keys that come and go before, at and behind its position. The
numbers of blocks a user types are: none, the least, a size that wraps (two), a negative int, a
number of marks that wraps, one too large. Five lines are two files saved, one deleted, a
defragmentation and one command more, with a line of any kind in between.

Files are interchangeable (symmetric) where a run says so, because only equality of addresses
matters; where the order of names decides (`LastClaimant`), it is `Rank` that is compared. The
run with liveness uses no symmetry. The states are finite without a constraint: lengths are
bounded by `Size`, sequences by the blocks, the values of a multimap by `MaxValues`, the input by
`MaxOptions` and `MaxLines`. No cfg replaces a definition and no run turns the deadlock check
off: a process that has stopped stutters by `Halted` or by the last disjunct of `SNext`.

Fairness and liveness. The program is one sequential process, and nothing it calls waits for
another: `SSpec` assumes `WF_svars(SNext)`, that it goes on as long as it can. That is what an
operating system gives a process whose input is at hand, and no action is favoured over another,
so a free choice (an option, a line, a failing malloc) never has to go the good way. Under it
`CommandsAnswered` says that the loops of `imffs_save` and `imffs_defrag` come to their ends on
any layout and with a full device, and `SessionEnds` that every session ends, the one exception
being that it skips past the end of its input (Findings).

## Findings

1. `save_answer`: a save that runs out of space or fails to read after its first block returns
   `IMFFS_OK` (424): the result of the rollback's `imffs_delete` replaces `IMFFS_ERROR`. The shell
   prints no error of its own.
2. `rename_loses`: a rename takes the key out of the index (598-600) before it allocates the new
   name. When that malloc fails, it sets `IMFFS_OK` (606): the file is under neither name, its blocks
   stay marked, and the caller is told that all is well.
3. `defrag_delete`: `imffs_defrag` sets no mark for the blocks files moved to (847-869). Deleting
   such a file aborts at 105; saving instead may take its blocks. The mark of the block behind
   the last file is not cleared either.
4. `defrag_position`: positions are kept in a `uint8_t` (727). From the 257th block on, a cluster
   is entered at its position modulo 256, and the compaction aborts at 841 or follows a null
   File, though the marks are right and there is no hole. The run uses 3 for 256, on four blocks.
5. `unterminated_line`: when the last line has no newline, the shell reads EOF for ever
   (`a5_main.c` 74).
6. `create_size`: `block_count * BYTES_PER_BLOCK` is a 32-bit product (148). From 2^24 blocks on,
   which `main` accepts, the device has fewer bytes than its blocks, and the session goes on.

Only the second needs a failing malloc. Two weaknesses do too, and are actions of the models rather
than findings: when the rollback of a save has no memory, its File is freed and stays a key (431,
`SaveRollbackFails`, `TouchDangling`); and `imffs_create` writes the marks before it looks at their
malloc (150) and leaves the shell a pointer to what it has freed (159-165). Both end in
`undefined`, which no property tells from another death of the process. A third follows from
Finding 3: once blocks in use have lost their marks, the index can be full while a block is free,
and the blocks of the save that it refuses stay marked (415-418, `SaveAbandoned`). Like Finding 6, a
count of 2^31 blocks or more is one that `main` accepts and the code cannot serve: `mm_create` takes
it as a negative int and aborts (157, `CreateIndex`).

A defragmentation may also let a last file pass with fewer blocks than its length needs, since
its check is left at the end of the device (831-845). It takes wrong marks to get there, so it
is a consequence of 3; `CheckedLayout` says how far the check goes.

## Proofs

For every number and size of blocks, every set of names, files and addresses, and (but where
stated) with mallocs that may fail:

| theorem | says |
|---|---|
| `TypeCorrect` | `Spec => []TypeOK` |
| `BlocksSeparate` | `Spec => []NoBlockShared` |
| `DeletesSafe` | `Spec => []DeleteNeverAborts` |
| `NamesStayUnique` | `Spec => []NamesUnique` |
| `HeapIsExact` | `Spec => [](MallocMayFail \/ HeapExact)` |
| `NoUseAfterFree` | `Spec => [](MallocMayFail \/ NoDangling)` |
| `IndexNeverFull` | `Spec => []IndexHasRoom` |
| `NothingLeaks` | `Spec => [](MallocMayFail \/ NoBlockLeaked)` |
| `ClustersStayApart` | `Spec => []ClustersAscend` |
| `LengthsMatch` | `Spec => []BlocksMatchLength` |
| `NothingAborts` | `Spec => [](MallocMayFail \/ NoAbort)` |
| `DirIsExact` | `Spec => [](MallocMayFail \/ DirAccountsForBlocks)` |
| `LosesOnlyByRenameHolds` | `Spec => LosesOnlyByRename`: whatever fails, only a rename loses a file |
| `FilesAreStored` | with memory, `Spec => ImplementsFileStore`: imffs implements the map from names to contents |
| `DefragTypes`, `ClustersOnDevice`, `ClustersStillApart`, `NamesStillUnique` | `DSpec =>` `[]DTypeOK`, `[]OnDevice`, `[]ClustersAscend`, `[]NamesUnique`: what no defragmentation and no wrong mark can spoil |
| `DefragMovesWhole` | `DSpec => BlocksMoveWhole`, whatever the marks and clusters are |
| `LayoutIsChecked`, `DeviceIsCompacted` | `DSpec => []CheckedLayout`, `DSpec => []Compacted`: what the check of a compaction establishes, from any marks and lengths |
| `BlocksStillSeparate`, `IndexStillHasRoom` | `CautiousSpec => []Disjoint`, `CautiousSpec => []IndexHasRoom` |
| `LengthsStillMatch`, `OwnersAreConserved`, `OrderStillKept` | `CautiousSpec =>` `[]BlocksMatchLength`, `[]OwnersConserved`, `[]OrderKept` |
| `HeapStillExact`, `UnmarkedOnlyAborts` | `CautiousSpec =>` `[](MallocMayFail \/ HeapExact)`, `[](MallocMayFail \/ AbortsOnlyUnmarked)` |
| `MarksStayRight` | `CautiousSpec => MarksKept` |
| `DefragLosesOnlyByRenameHolds` | `CautiousSpec => DefragLosesOnlyByRename` |
| `FilesSurviveDefrag` | with memory, `CautiousSpec => DefragKeepsFiles`: with its defragmentation too, imffs implements the map from names to contents |
| `IndexedDefrags` | `ISpec => DSpec`: with its array, imffs takes no other steps |
| `ArrayAgrees`, `IndexStaysValid`, `LookupsStayAgreed` | `ISpec =>` `[]IndexAgrees`, `[]ValidIndex`, `[]LookupsAgree`: the array is the index that imffs takes it for |
| `StaysValid`, `SearchesFind` | `Spec =>` `[]ValidMultimap`, `[]SearchFindsEveryKey` of `Multimap`, for every comparator |
| `ArrayImplements` | `Spec => ImplementsMultimap`: the array implements the map with its traversal |
| `PromptIsServed` | `SSpec => []PromptHasDevice`, for every `Word` and every input |

The assumptions are those that the modules name: at least one block, at least one byte to a
block, ranks and sizes are naturals, `NULL` is not a File, a name or a file, `Garbage` is no
chunk, `NoFile` is no content; in the multimap ranks are integers,
its limits naturals, and `NULL` is no key;
`Word` is even and positive, the default count below it. The theorems of `CautiousSpec` but the
first two also assume `BlockCount <= PosRange`: every position fits into the `uint8_t` of line 727.
On a larger device they are false, as Finding 4 shows.

`DataLemmas`. A claim about every number is proved from its least counterexample (`Inductive`,
with `LeastNumber`), since the induction theorems of the library cannot be instantiated here. On
it rest: what the search by halves returns in a sorted array (`SearchLocates`), what inserting
into and removing from one does, that `FlattenSeq` is a concatenation that grows at its end
(`FlattenAppend`), that a sum is the same in whatever order it is taken (`SumsEqual`), and that
disjoint unions count as the sum of their parts (`EverySubset`, `UnionCounts`). In the models a
set of blocks becomes a sequence by `InOrder`, a definition with cardinalities, which can be
reasoned about, where the sort of the community modules cannot.

`ImffsProofs`. The inductive invariant is `IInv == LocalOK /\ Disjoint /\ Protected`, with
`LocalOK == TypeOK /\ SaveOK /\ OnDevice`. The first part every step keeps whatever the marks
are (`LocalNext`), which is why it holds among defragmentations too. That clusters are disjoint
is not inductive: a save could take a block that a file holds unless every block held is marked
(`Protected`), and `Inserted` could enter a cluster that overlaps another unless the pending run
is on the device, disjoint from all clusters and marked.
`SaveOK` says what the loop of `imffs_save` keeps: the pending blocks are the run `start ..
prev`, the length so far does not exceed the file's, a save that saw the end has a block, and one
without a block has no cluster. `NextFree` takes only unmarked blocks, hence unowned ones.
`DeletesSafe` follows from `IInv` alone: clusters that are on the device, marked and disjoint are
unmarked once each. `NamesUnique` needs that a save enters the heap only when no live File has
the name and that the key inserted later is that File; `HeapExact` needs `IInv` for the File in
`sv`. The proof goes action by action.

The second half of `ImffsProofs` builds on `IInv`. `RoomForKey` counts: each key has the first block of its
first cluster, the save has the first of its pending ones, all are different, so keys and save
together are no more than blocks. Hence a save with a block is never abandoned for want of a
place in the index, which is the one way in which marks would be left behind: `NothingLeaks` then
says of each step where the marked blocks go. `ClustersAscend` is not inductive by itself; with
`EndedBefore` (what a save has entered ends before the pending run starts) it is.

`StoreProofs` adds `ContentOK`: the blocks a save has taken, cluster by cluster and then the
pending run, hold the chunks of its file in order, one for each block that the length so far
needs (`ReadOK`), and so do the blocks of every key (`StoredOK`). From it follow the length of
every file in blocks, hence that a load never meets its assertion, and `NothingAborts`, with
`DeletesSafe` and `RoomForKey` for the other assertions. `DirIsExact` counts the rows of a
directory: no two are equal because names differ, their blocks are disjoint and marked, and every
mark is some row's. The refinement is a simulation step by step (`StoreSimulates`): what
happens inside a save changes nothing of the store (`StepUnseen`), a commit adds exactly what
`ReadOK` says of the blocks taken, a load answers what `StoredOK` says of them, and every other
answer of the code is one of the abstract specification. That gives `LosesOnlyByRename`, and with
memory `ImplementsFileStore`, since the lossy rename needs a malloc that fails.

`DefragProofs`. For the moves the invariant is `MoveOK`: between the place of the next block and
the position reached there is no block of the current file. So the move of a block is, for a
copy, the exchange of an owned block with a free one before it, and for a shift, a rotation of
the blocks in between, none of which is of the same file: a permutation that keeps the order of
each file's blocks (`CopyMoves`, `ShiftMoves`). Nothing is assumed of marks or clusters, so it
holds after a defragmentation that left wrong marks too. `DLocal` puts this together with
`LocalOK` and the ranges of the locals of `imffs_defrag`; the new index keeps it because its runs
are maximal runs of one owner before `End`, taken in order (`NewClusters`).

What the check of a compaction establishes needs two things. One is an upper bound: no file ever
has more blocks than its length needs (`Few`: of the clusters in the index, of those of a save
together with its pending run, and of the places on a device being compacted), because marks may
be wrong but `imffs_save` never takes more, and a defragmentation that finds clusters claimed
twice gives a file less. The other is an invariant of the scan of lines 831-845, `ScanOK`, after
each block: the files counted so far each have exactly their blocks, one after the other. When
the scan ends, every file but one has an interval of the length its File says, by counting the
last has one too, though it may be short, and the intervals fill the front of the device
(`CheckedFinish`, `CompactedFinish`). `LaidOut` carries both to the next operation.

`CautiousProofs` takes up what holds when no save starts over wrong marks. `IInv` does not hold
there, because a file that was moved has unmarked blocks; what is inductive is `CInv`, where
`Protected` is asked only while a save runs. When a save starts, the marks agree, and marks that
agree protect (`RightMarksProtect`); between saves clusters only go away (`IdleNext`); and the
index that a defragmentation makes gives each block to its one owner (`ApartByOwner`). So the count
of `RoomForKey` is good here, too (`IndexStillHasRoom`); with wrong marks it is not. The
content of files needs `GatherOK`: at rest `ContentOK` of `StoreProofs`, and while blocks move,
that the blocks of each file, taken from the front of the device, hold the chunks of a disk file
in order. A move is a permutation that keeps the order of a file's blocks (`DefragMovesWhole`),
so this stays; at the start the owner array is the index, since no block has two claimants and
no position wraps; and at the end the new clusters are where the blocks are
(`FinishKeepsPlaces`). `Right`, which is all this with the bounds of `Few`, gives the numbers of
blocks, the exact heap, and the simulation for `DefragLosesOnlyByRename` and `DefragKeepsFiles`, in which a move is a stutter.

Two more invariants follow the compaction. `OrderOK`: the first block of one file stays before
the first of another that started later, which holds because the file that is moved owns the
first of the blocks that are left (`FirstOfRest`). `LayoutOK`: the files compacted so far, as
many as have been counted, are each in one piece and together the front of the device
(`Stacked`), and what has been placed of the file that is moved follows them (`Moving`). So a file
is always left to be sought (`SomeAreLeft`), and when all are counted the scan of lines 831-845
passes (`CheckPasses`), by the invariant `Passing` of the scan, the converse of `ScanOK`: files
yet to be counted and files started add up, and the blocks still due are those left in the
interval of the current file. Hence a defragmentation aborts only for want of memory, and the
rest of imffs only over unmarked blocks (`UnmarkedOnlyAborts`). The same front of the device,
counted, gives `MarksStayRight`: as many blocks before as after, both sets without a hole, so
the same set.

`IndexProofs` follows the array inside imffs. `Holds(m, of)` says that an array has the clusters of
a function, each File once; `Sorted(m, of, rank)` adds the order. One lemma for each operation of
the multimap: a walk keeps both, an insertion makes `Sorted` of the function with a cluster more
(`Inserts`), a removal of the one without the File (`Removes`). They need that no other File has
the rank of the one in hand (`Apart`), which is `NamesUnique`, and an insertion needs room, which
is there because there are as many keys as Files with clusters (`KeysCounted`); where Imffs finds
no room, the array takes nothing either (`ClusterGoesIn`). The invariant is `XInv`: `DLocal`,
`NamesUnique`, `Agrees` (`Holds` always, `Sorted` while no freed File is a key, since the code
reads names through the keys) and `Careful`, that neither a save nor a defragmentation meets a
freed key. A rename removes the key while the File has its old name, changes the name, and inserts
under the new one: in between, the File is no key, so the order is that of the others
(`SameOrder`, `RenameStep`). A new index is followed from block to block (`Rebuilds`): the array
is `Sorted` for the runs that start before the block, and as many Files as blocks at most are met.

`MultimapProofs` proves that the keys stay in order (`Inv`) and with it that the search lands on
the key or on its place. For the
refinement `WalkInv` is needed: values are in the order the comparator asks for, and the position
of a traversal lies in the array, with the keys still to be returned the ones behind it.

`ShellProofs` goes through the steps of `imffs_create` with `DeviceInv`: what has been allocated
when each is reached.

Every safety property, action property and refinement of the runs is proved. Model-checked only:
liveness, which is out of the reach of the prover (`CommandsAnswered` and `SessionEnds`). Proved and in
no run: `IndexHasRoom` and `DefragLosesOnlyByRename`.

## Not modelled

The bytes inside a block, the wording and layout of what is printed, `mm_print`, the drafts, the
tests and the sample files. A load's `fopen`, `malloc` and write errors are one refusal; that it
asks `ferror` before the stream is flushed (506), so that an error which only `fclose` meets goes
unreported, is below the level at which files outside the device are modelled. `-DNDEBUG`
builds: assertions are on. A device so large that `block_count` itself wraps is followed only
through create.

## Plan

A device of more than one size in `Shell`, so that sessions on a wrapped device are followed
through their commands.
