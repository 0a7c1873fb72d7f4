\* A position that does not fit its variable: 3 stands for the 256 of a uint8_t.
CONSTANTS
  BlockCount = 4
  BytesPerBlock = 2
  PosRange = 3
  Names <- Two
  Rank <- RankTwo
  DiskFiles <- MCDiskFiles
  Size <- MCSize
  FileIds = {F1, F2}
  NULL = NULL
  Garbage = Garbage
  MallocMayFail = FALSE
  part = part
  full = full
  F1 = F1
  F2 = F2
SYMMETRY Addresses
SPECIFICATION CautiousSpec
INVARIANTS
  AbortsOnlyUnmarked
