---------------------------- MODULE MCFrameLoop -----------------------------
EXTENDS FrameLoop

Nothing == {{}}
Prescaled(by, i) == [status |-> "prescale", prescale |-> by, irq |-> i]
Cascade(i) == [status |-> "cascade", prescale |-> 1, irq |-> i]

OneAndCascade == {Prescaled(1, FALSE), Cascade(FALSE)}
OneClock == {Prescaled(2, TRUE)}

VBlankOn == {{IRQ_VBLANK}}
LcdOn == {{}, LcdIrqs}
LcdMasks == {{IRQ_VBLANK, IRQ_HBLANK, IRQ_TIMER(0)}, {IRQ_VCOUNT, IRQ_DMA0, IRQ_KEYPAD}}
Keypad == {{}, {IRQ_KEYPAD}}
Transfers == {[start |-> "immediately", repeat |-> FALSE, irq |-> TRUE],
              [start |-> "hblank", repeat |-> TRUE, irq |-> FALSE],
              [start |-> "vblank", repeat |-> FALSE, irq |-> TRUE]}
=============================================================================
