\* A last line without a newline.
CONSTANTS
  BlockCount = 3
  BytesPerBlock = 4
  PosRange = 256
  Names <- MCNames
  Rank <- MCRank
  DiskFiles <- MCDiskFiles
  Size <- MCSize
  FileIds = {F1, F2}
  NULL = NULL
  Garbage = Garbage
  MallocMayFail = FALSE
  Word = 16
  DefaultCount = 3
  Typed <- MCTyped
  MaxOptions = 0
  MaxLines = 1
  part = part
  full = full
  F1 = F1
  F2 = F2
SPECIFICATION SSpec
PROPERTY EofEndsSession
