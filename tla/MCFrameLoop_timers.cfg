CONSTANTS
  HDraw = 3
  HBlank = 2
  Visible = 1
  Lines = 2
  Timers = {0, 1}
  FullReload = 2
  Reloads = {1}
  TimerSetups <- OneAndCascade
  Masks = {}
  Enables = {}
  Matches = {}
  DmaSetups = {}
  KeyIrqs <- Nothing
  EventTrigger = 1
  Slots = {s1}
SPECIFICATION Spec
INVARIANTS SliceEndsInTime TimersKeepUp
PROPERTIES NoReturnToOldCode
