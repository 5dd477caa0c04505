SPECIFICATION Spec
CONSTANTS
  Proc = {p1, p2, p3}
  NBUF = 2
  Block = {k1, k2, k3}
  MaxWrites = 2
INVARIANTS UsersKeepBuffer LastWriteRead 
SYMMETRY Symmetry
