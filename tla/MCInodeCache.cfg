SPECIFICATION Spec
CONSTANTS
  Proc = {p1, p2}
  NINODE = 2
  Type <- MCType
  Entries <- MCEntries
  Path <- MCPath
  MaxRelative = 1
INVARIANTS
  OneEntryPerInode
  RefsMatchUsers
  LookupCorrect
PROPERTIES
  ImageReadsBack
  ImageAllocator
  LookupReturns
