\* Memory never fails: the device keeps every promise but the answer of a
\* rolled back save.
CONSTANTS
  BlockCount = 5
  BytesPerBlock = 2
  Names <- MCNames
  Rank <- MCRank
  DiskFiles <- MCDiskFiles
  Size <- MCSize
  FileIds = {F1, F2, F3}
  NULL = NULL
  Garbage = Garbage
  MallocMayFail = FALSE
  part = part
  full = full
  F1 = F1
  F2 = F2
  F3 = F3
SYMMETRY Addresses
SPECIFICATION Spec
INVARIANTS
  TypeOK
  NoBlockShared
  NoBlockLeaked
  BlocksMatchLength
  ClustersAscend
  NamesUnique
  HeapExact
  NoAbort
  DirAccountsForBlocks
PROPERTIES
  ImplementsFileStore
