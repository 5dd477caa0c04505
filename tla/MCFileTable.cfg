SPECIFICATION MCSpec
CONSTANTS
  Proc = {p1, p2}
  FirstProc = p1
  NFILE = 2
  NOFILE = 2
  Inode = {1}
  FileSize = 2
  Calls = {"open", "dup", "close", "read", "fork", "pipe"}
  MemoryMayFail = TRUE
  MaxOpens = 3
INVARIANTS
  RefCountMatches
  InodeReferences
  EachByteOnce
  BlocksKept
  FreeListSound
  HeapMapped
PROPERTIES
  ProgramImage
