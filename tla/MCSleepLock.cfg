CONSTANTS
  Proc = {p1, p2, p3}
  Lock = {1, 2}
  MaxCalls = 2
SPECIFICATION FairSpec
PROPERTIES MutexSpec AcquireReturns
