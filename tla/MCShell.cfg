SPECIFICATION FairSpec
CONSTANTS
  MAXARGS = 4
  NPROC = 7
  NOFILE = 6
  NFILE = 3
  PipeSize = 2
  Files <- MCFiles
  Scripts <- MCScripts
  MemoryMayFail = TRUE
INVARIANTS
  AssertsHold
  OutputComplete
PROPERTIES
  ParserRoundTrip
  LibraryCorrect
  PromptReturns
