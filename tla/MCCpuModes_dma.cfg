CONSTANTS
  Words = {0, 1}
  Zero = 0
  Stack = 0
  Unset = Unset
  DmaInterrupts = TRUE
  LossyStores = FALSE
  Marks = 1
  GuestModes = {"user", "irq"}
CONSTRAINTS FewMarks NoFiqReturn
VIEW Unlabelled
SPECIFICATION Spec
PROPERTIES InterruptSeesFlags
