\* A file is deleted after a defragmentation that closed a hole.
CONSTANTS
  BlockCount = 4
  BytesPerBlock = 1
  PosRange = 256
  Names <- Two
  Rank <- RankTwo
  DiskFiles <- MCDiskFiles
  Size <- ShortSize
  FileIds = {F1, F2}
  NULL = NULL
  Garbage = Garbage
  MallocMayFail = FALSE
  part = part
  full = full
  F1 = F1
  F2 = F2
SYMMETRY Addresses
SPECIFICATION DSpec
INVARIANTS
  NoAbort
