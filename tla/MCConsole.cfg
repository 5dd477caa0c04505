SPECIFICATION FairSpec
CONSTANTS
  Process = {"p1", "p2"}
  File = {"f1", "f2"}
  FileOf <- MCFileOf
  INPUT_BUF = 2
  Wrap = 4
  Typed = {"NL", "CR", "^H", "^U", "^P"}
  Keys = {32, 160}
  ReadSize = {1, 2}
  Written <- MCWritten
  Columns = 2
  Rows = 1
  MaxCalls = 1
INVARIANTS
  CursorOnScreen
PROPERTIES
  KeyboardDecodes
  LineSpec
  CallsReturn
