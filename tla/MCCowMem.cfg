SPECIFICATION Spec
CONSTANTS
  Proc = {p1, p2, p3}
  FirstProc = p1
  NFrame = 3
  NPage = 3
  NImage = 2
  Value = {0, 1}
  DescriptorsMayFail = TRUE
INVARIANTS
  RefcountExact
PROPERTIES
  PrivateMemory
SYMMETRY Symmetry
