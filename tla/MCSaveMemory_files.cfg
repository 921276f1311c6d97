CONSTANTS
  g1 = g1
  g2 = g2
  Games = {g1, g2}
  NoGame = NoGame
  Cartridges <- AllChips
  Slots = {s1}
  Delay = 2
CONSTRAINTS
  SomeGameSound
  StatesOfLargeFlash
SPECIFICATION FairSpec
INVARIANTS
  Durable
  NoForeignBytes
  InStep
  BankKept
PROPERTIES
  FileNeverShrinks
  WrittenInTheEnd
