\* Sessions from their options to their end, memory failing or not.
CONSTANTS
  BlockCount = 3
  BytesPerBlock = 4
  PosRange = 256
  Names <- MCNames
  Rank <- MCRank
  DiskFiles <- MCDiskFiles
  Size <- MCSize
  FileIds = {F1, F2}
  NULL = NULL
  Garbage = Garbage
  MallocMayFail = TRUE
  Word = 16
  DefaultCount = 3
  Typed <- MCTyped
  MaxOptions = 2
  MaxLines = 5
  part = part
  full = full
  F1 = F1
  F2 = F2
SPECIFICATION SSpec
INVARIANTS
  PromptHasDevice
PROPERTIES
  CommandsAnswered
  SessionEnds
