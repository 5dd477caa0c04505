CONSTANTS
  NPROC = 4
  Chan = {}
  MaxPid = 4
  MemoryMayFail = FALSE
SPECIFICATION InitWaitsSpec
PROPERTIES OrphanReclaimed
