CONSTANTS
  Words = {0, 1}
  Zero = 0
  Stack = 0
  Unset = Unset
  DmaInterrupts = FALSE
  LossyStores = FALSE
  Marks = 1
  GuestModes = {"user", "irq", "fiq"}
CONSTRAINTS FewMarks NoFiqReturn
VIEW Unlabelled
SPECIFICATION Spec
PROPERTIES RegistersBanked
