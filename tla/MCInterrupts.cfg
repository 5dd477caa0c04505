SPECIFICATION FairSpec
CONSTANTS
  NPROC = 2
  Wrap = 8
  FirstTick = 6
  Duration = {2}
INVARIANTS
  NoPanic
  SectionsAtomic
  SleepsLongEnough
PROPERTIES
  SleepReturns
