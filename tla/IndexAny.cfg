\* Every operation at any time, with marks right or wrong, memory failing or not.
CONSTANTS
  BlockCount = 3
  BytesPerBlock = 1
  PosRange = 256
  Names <- Spellings
  Rank <- RankSpellings
  DiskFiles <- MCDiskFiles
  Size <- ShortSize
  FileIds = {F1, F2}
  NULL = NULL
  Garbage = Garbage
  MallocMayFail = TRUE
  part = part
  full = full
  F1 = F1
  F2 = F2
SYMMETRY Addresses
SPECIFICATION ISpec
INVARIANTS
  IndexAgrees
  LookupsAgree
  ValidIndex
  OnDevice
  ClustersAscend
  Compacted
  CheckedLayout
PROPERTIES
  BlocksMoveWhole
