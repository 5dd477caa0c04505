SPECIFICATION FairSpec
CONSTANTS
  NPROC = 3
  Chan = {c1}
  MaxPid = 4
  MemoryMayFail = TRUE
INVARIANTS
  PidNamesOneSlot
  ParentAlive
  WaiterHasLiveChild
PROPERTIES
  OnlyParentReaps
  RunnableRuns
