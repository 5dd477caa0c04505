CONSTANTS
  r1 = r1
  r2 = r2
  w1 = w1
  w2 = w2
  Reader = {r1, r2}
  Writer = {w1, w2}
  Size = 2
  ReadSize = {1, 3}
  WriteSize = {3}
  MaxWrites = 1
  Sharing <- Ends
SPECIFICATION FairSpec
INVARIANTS ResultsTrue
PROPERTIES StreamSpec ReadsAndWritesReturn
