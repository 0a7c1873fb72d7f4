\* A malloc may fail: names are lost and keys dangle, and what is left of the
\* device still keeps its blocks apart.
CONSTANTS
  BlockCount = 4
  BytesPerBlock = 2
  Names <- MCNames
  Rank <- MCRank
  DiskFiles <- MCDiskFiles
  Size <- MCSize
  FileIds = {F1, F2}
  NULL = NULL
  Garbage = Garbage
  MallocMayFail = TRUE
  part = part
  full = full
  F1 = F1
  F2 = F2
  F3 = F3
SYMMETRY Addresses
SPECIFICATION Spec
INVARIANTS
  NoBlockShared
  DeleteNeverAborts
  NamesUnique
PROPERTIES
  LosesOnlyByRename
