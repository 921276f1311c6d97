CONSTANTS
  Slots = 2
  Pages = 3
  HalfRange = 2
  small = small
  large = large
  Games = {small, large}
  NoGame = NoGame
  SizeOf <- MCSizes
  Null = Null
  MaxTime = 3
  DateBytes = 2
  TimeBytes = 1
  Dates <- MCDates
  Statuses <- MCStatuses
  RomByte <- MCRomByte
CONSTRAINTS Recent
SPECIFICATION ClockSpec
INVARIANTS StatusWritten
