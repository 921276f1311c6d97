CONSTANTS
  Half = 2
  Repeats = {TRUE}
  NoChannel = NoChannel
  MaxPut = 8
CONSTRAINTS Supplied
SPECIFICATION Spec
INVARIANTS NoneOverwritten Fed SoonHeard
PROPERTIES InOrder
