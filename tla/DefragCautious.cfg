\* Defragment whatever holes there are; nothing is saved with wrong marks.
CONSTANTS
  BlockCount = 6
  BytesPerBlock = 2
  PosRange = 256
  Names <- Two
  Rank <- RankTwo
  DiskFiles <- MCDiskFiles
  Size <- MCSize
  FileIds = {F1, F2}
  NULL = NULL
  Garbage = Garbage
  MallocMayFail = FALSE
  part = part
  full = full
  F1 = F1
  F2 = F2
SYMMETRY Addresses
SPECIFICATION CautiousSpec
INVARIANTS
  DTypeOK
  OrderKept
  OwnersConserved
  BlocksMatchLength
  Disjoint
  HeapExact
  AbortsOnlyUnmarked
PROPERTIES
  MarksKept
  DefragKeepsFiles
