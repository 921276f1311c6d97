CONSTANTS
  HDraw = 2
  HBlank = 2
  Visible = 1
  Lines = 3
  Timers = {0}
  FullReload = 2
  Reloads = {2}
  TimerSetups <- OneClock
  Masks <- LcdMasks
  Enables <- LcdOn
  Matches = {2}
  DmaSetups <- Transfers
  KeyIrqs <- Keypad
  EventTrigger = 1
  Slots = {}
SPECIFICATION FairSpec
INVARIANTS DispstatFollowsVcount
PROPERTIES InterruptsTaken FramesGoOn WokenByVBlank
