CONSTANTS
  Pages = 3
  PageWords = 4
  Limit = 7
  TagByte = 4
  MaxTag = 9
  Programs <- AllPrograms
  Entries <- AllEntries
  Pokes <- AllPokes
CONSTRAINTS Trusted
SPECIFICATION Spec
INVARIANTS Guarded CodeIsCurrent OneFlush
PROPERTIES NothingForgotten
