----------------------------- MODULE FrameLoop ------------------------------
(***************************************************************************)
(* The heart of the emulation: update_gba (src/jni/gbalib/main.c), which   *)
(* translated code calls when it has used up execute_cycles, with          *)
(* raise_interrupt (cpu.c) and the registers of the timers, of DISPSTAT,   *)
(* of the interrupts and of one DMA channel (main.h, memory.c).            *)
(*                                                                         *)
(* update_gba moves the timers and the display on by execute_cycles,       *)
(* raises what became due and computes how far it is to the next event. It *)
(* loops while the CPU is halted. At the end of a frame it calls           *)
(* check_paused: there, and only there, the UI thread saves, resets or     *)
(* replaces the machine (EmulatorControl), with the locals of update_gba   *)
(* alive. One iteration of the loop is one action, cut in two at           *)
(* check_paused; the game's register writes are actions between calls.     *)
(*                                                                         *)
(* Cycles are those update_gba accounts for: a slice that is cut short,    *)
(* by a store that returns an alert, counts in full. Pictures, samples and *)
(* the data of a DMA are left out.                                         *)
(***************************************************************************)
EXTENDS Integers

CONSTANTS
  HDraw, HBlank,   \* cycles of a line: 960 and 272
  Visible, Lines,  \* 160 and 228
  Timers,          \* those of the four the game uses
  FullReload,      \* 0x10000
  Reloads,         \* periods the game gives its timers, in ticks of the prescaler
  TimerSetups,     \* modes it gives them, [status, prescale, irq]
  Masks,           \* values the game gives IE
  Enables, Matches,  \* interrupts it enables in DISPSTAT, lines it waits for there
  DmaSetups,       \* transfers the game sets up, [start, repeat, irq]
  KeyIrqs,         \* what update_input may raise
  EventTrigger,    \* event_cycles_trigger, 300
  Slots            \* savestates

(* Bits of IE and IF. *)
IRQ_VBLANK == 0
IRQ_HBLANK == 1
IRQ_VCOUNT == 2
IRQ_TIMER(n) == 3 + n
IRQ_DMA0 == 8
IRQ_KEYPAD == 12
LcdIrqs == {IRQ_VBLANK, IRQ_HBLANK, IRQ_VCOUNT}
Irqs == LcdIrqs \cup {IRQ_DMA0, IRQ_KEYPAD} \cup {IRQ_TIMER(n) : n \in Timers}

ASSUME FrameLoopAssumption ==
  /\ HDraw \in Nat \ {0} /\ HBlank \in 1..HDraw
  /\ Visible \in Nat \ {0} /\ Lines \in Nat /\ Visible < Lines
  /\ Timers \subseteq 0..3
  /\ FullReload \in Nat \ {0}
  /\ Reloads \subseteq 1..FullReload
  /\ Enables \subseteq SUBSET LcdIrqs /\ Matches \subseteq 0..255
  /\ TimerSetups \subseteq [status : {"prescale", "cascade"}, prescale : Nat \ {0},
                           irq : BOOLEAN]   \* prescale: 1, 64, 256 or 1024 cycles
  /\ EventTrigger \in Nat \ {0}

VARIABLES
  at,              \* "code", or in update_gba: "loop" or "check" (check_paused)
  entry,           \* how the code came there: "slice" used up, or an "alert"
  restart,         \* what check_paused will return
  irq,             \* REG_IE, REG_IF, REG_IME
  cpu,             \* the I bit, CPU_HALT_STATE, CHANGED_PC_STATUS
  lcd,             \* REG_VCOUNT, REG_DISPSTAT
  timer, dma,      \* timer[], dma[]
  execute_cycles, video_count,
  irq_raised,      \* the local of update_gba
  event_cycles,    \* frames, up to one more than EventTrigger
  snap,            \* savestates
  exchanged,       \* history: the machine was replaced since the code ran
  stale            \* history: execute_cycles is that of an earlier slice

machine == <<irq, cpu, lcd, timer, dma, execute_cycles, video_count>>
vars == <<at, entry, restart, machine, irq_raised, event_cycles, snap,
          exchanged, stale>>

NoTimer == [status |-> "inactive", count |-> 0, reload |-> FullReload,
            prescale |-> 1, irq |-> FALSE]
NoDma == [start |-> "inactive", repeat |-> FALSE, irq |-> FALSE]
NoSnap == [saved |-> FALSE]

InitIrq == [REG_IE |-> {}, REG_IF |-> {}, REG_IME |-> FALSE]
InitCpu == [masked |-> FALSE, halted |-> FALSE, changed_pc |-> FALSE]
InitLcd == [vcount |-> 0, hblank |-> FALSE, vblank |-> FALSE, match |-> FALSE,
            enabled |-> {}, lyc |-> 0]

(* After loadROM; execute_arm_translate(execute_cycles). *)
Init ==
  /\ at = "code" /\ entry = "slice" /\ restart = FALSE
  /\ irq = InitIrq /\ cpu = InitCpu /\ lcd = InitLcd
  /\ timer = [n \in Timers |-> NoTimer]
  /\ dma = NoDma
  /\ execute_cycles = HDraw /\ video_count = HDraw
  /\ irq_raised = {}
  /\ event_cycles = 0
  /\ snap = [s \in Slots |-> NoSnap]
  /\ exchanged = FALSE /\ stale = FALSE

-----------------------------------------------------------------------------
(* Interrupts. i stands for irq and c for cpu on the way through a step.   *)

Pending(i, S) == i.REG_IE \cap S # {} /\ i.REG_IME

(* The interrupt is taken: 0xD2 in the CPSR, the handler's PC. *)
Taken(c) == [masked |-> TRUE, halted |-> FALSE, changed_pc |-> TRUE]

Flagged(i, S) == [i EXCEPT !.REG_IF = @ \cup S]

(* A bug: a halted CPU is left halted.                                     *)
RaisedButHalted(i, c, S) ==
  IF Pending(i, S) /\ ~c.masked THEN [Taken(c) EXCEPT !.halted = c.halted] ELSE c
Raised(i, c, S) ==
  IF Pending(i, S) /\ ~c.masked THEN Taken(c) ELSE c

(* execute_spsr_restore_body and execute_store_cpsr_body: whatever is      *)
(* pending is taken at once. CPU_HALT_STATE is active, the code runs.      *)
(* A bug: pending interrupts are not looked for.                           *)
UnmaskedUnchecked(i, c) == [c EXCEPT !.masked = FALSE]
Unmasked(i, c) == [c EXCEPT !.masked = Pending(i, i.REG_IF)]

-----------------------------------------------------------------------------
(* The game's register writes. *)

InCode == at = "code"
Counting == {n \in Timers : timer[n].status # "inactive"}
LoopVars == <<at, entry, restart, irq_raised, event_cycles, snap, exchanged, stale>>

(* A bug: a timer that is started does not shorten the slice.              *)
SliceKept(count) == execute_cycles
SliceWith(count) == IF count < execute_cycles THEN count ELSE execute_cycles

(* Cycles, or overflows of the timer before, from one overflow to the next.*)
Period(t) == t.reload * t.prescale

(* trigger_timer. A timer that runs takes no new mode.                     *)
StartTimer(n) ==
  /\ InCode /\ timer[n].status = "inactive"
  /\ \E setup \in TimerSetups :
       LET count == timer[n].reload * setup.prescale
       IN /\ timer' = [timer EXCEPT ![n] = [status |-> setup.status, count |-> count,
               reload |-> @.reload, prescale |-> setup.prescale, irq |-> setup.irq]]
          /\ execute_cycles' = SliceWith(count)
  /\ UNCHANGED <<LoopVars, irq, cpu, lcd, dma, video_count>>

StopTimer(n) ==
  /\ InCode /\ timer[n].status # "inactive"
  /\ timer' = [timer EXCEPT ![n].status = "inactive"]
  /\ UNCHANGED <<LoopVars, irq, cpu, lcd, dma, execute_cycles, video_count>>

(* A bound on the game: the period of a timer that runs is not made        *)
(* shorter than a line. See TimersKeepUp.                                  *)
KeepsPace(t, r) == t.status = "prescale" => r >= HDraw \/ r >= t.reload

(* count_timer: the new period begins with the next overflow. *)
SetReload(n) ==
  /\ InCode
  /\ \E r \in Reloads :
       /\ KeepsPace(timer[n], r)
       /\ timer' = [timer EXCEPT ![n].reload = r]
  /\ UNCHANGED <<LoopVars, irq, cpu, lcd, dma, execute_cycles, video_count>>

WriteDispstat ==
  /\ InCode
  /\ \E e \in Enables, y \in Matches :
       lcd' = [lcd EXCEPT !.enabled = e, !.lyc = y]
  /\ UNCHANGED <<LoopVars, irq, cpu, timer, dma, execute_cycles, video_count>>

(* The writes to IE and IME store, and nothing else. A bound: without      *)
(* Masks the game leaves IME and the I bit alone.                          *)
UsesInterrupts == Masks # {}
WriteIE ==
  /\ InCode
  /\ \E m \in Masks : irq' = [irq EXCEPT !.REG_IE = m]
  /\ UNCHANGED <<LoopVars, cpu, lcd, timer, dma, execute_cycles, video_count>>
WriteIME ==
  /\ InCode /\ UsesInterrupts
  /\ \E b \in BOOLEAN : irq' = [irq EXCEPT !.REG_IME = b]
  /\ UNCHANGED <<LoopVars, cpu, lcd, timer, dma, execute_cycles, video_count>>
Acknowledge ==
  /\ InCode
  /\ \E i \in irq.REG_IF : irq' = [irq EXCEPT !.REG_IF = @ \ {i}]
  /\ UNCHANGED <<LoopVars, cpu, lcd, timer, dma, execute_cycles, video_count>>

(* The I bit, by a write to the CPSR or the return from a handler. *)
WriteCPSR ==
  /\ InCode /\ UsesInterrupts
  /\ \/ cpu' = [cpu EXCEPT !.masked = TRUE]
     \/ cpu' = Unmasked(irq, cpu)
  /\ UNCHANGED <<LoopVars, irq, lcd, timer, dma, execute_cycles, video_count>>

-----------------------------------------------------------------------------
(* DMA. *)

(* dma_transfer of a channel that starts with s. *)
DmaDone(d, s) ==
  IF d.start = s /\ (~d.repeat \/ s = "immediately") THEN [d EXCEPT !.start = "inactive"] ELSE d
DmaIrqs(d, s) == IF d.start = s /\ d.irq THEN {IRQ_DMA0} ELSE {}

(* The call of update_gba. *)
Enters(how) ==
  /\ at' = "loop"
  /\ entry' = how
  /\ irq_raised' = {}
  /\ UNCHANGED <<restart, event_cycles, snap, exchanged, stale>>

(* trigger_dma. The store that sets off a transfer with an interrupt       *)
(* returns CPU_ALERT_IRQ, and the slice ends with it.                      *)
StartDma ==
  /\ InCode /\ dma.start = "inactive"
  /\ \E d \in DmaSetups :
       LET irqs == DmaIrqs(d, "immediately")
       IN /\ dma' = DmaDone(d, "immediately")
          /\ irq' = Flagged(irq, irqs)
          /\ cpu' = Raised(irq, cpu, irqs)
          /\ IF irqs # {} THEN Enters("alert") ELSE UNCHANGED LoopVars
  /\ UNCHANGED <<lcd, timer, execute_cycles, video_count>>
StopDma ==
  /\ InCode
  /\ dma' = [dma EXCEPT !.start = "inactive"]
  /\ UNCHANGED <<LoopVars, irq, cpu, lcd, timer, execute_cycles, video_count>>

(* HALTCNT: CPU_ALERT_HALT. *)
Halt ==
  /\ InCode
  /\ cpu' = [cpu EXCEPT !.halted = TRUE]
  /\ Enters("alert")
  /\ UNCHANGED <<irq, lcd, timer, dma, execute_cycles, video_count>>

SliceEnds ==
  /\ InCode
  /\ Enters("slice")
  /\ UNCHANGED machine

-----------------------------------------------------------------------------
(* update_gba. *)

(* update_timer. What is left of a count after the slice; an overflow      *)
(* reloads the timer and is passed on to one that counts them.             *)
Left(t) == IF t.status = "cascade" THEN t.count ELSE t.count - execute_cycles

Overflowed(s, n) ==
  [timer |-> [k \in Timers |->
     IF k = n THEN [s.timer[n] EXCEPT !.count = Left(s.timer[n]) + Period(s.timer[n])]
     ELSE IF k = n + 1 /\ s.timer[k].status = "cascade"
     THEN [s.timer[k] EXCEPT !.count = @ - 1]
     ELSE s.timer[k]],
   raised |-> IF s.timer[n].irq THEN s.raised \cup {IRQ_TIMER(n)} ELSE s.raised]

UpdateTimer(s, n) ==
  IF n \notin Timers \/ s.timer[n].status = "inactive" THEN s
  ELSE IF Left(s.timer[n]) > 0 THEN [s EXCEPT !.timer[n].count = Left(s.timer[n])]
  ELSE Overflowed(s, n)

UpdateTimers ==
  UpdateTimer(UpdateTimer(UpdateTimer(UpdateTimer(
    [timer |-> timer, raised |-> irq_raised], 0), 1), 2), 3)

(* execute_cycles = video_count; check_timer. The comparison is unsigned:  *)
(* a negative count is passed over.                                        *)
(* A bug: the timers are not looked at.                                    *)
VideoOnly(t, video) == video
Sooner(t, n, cycles) ==
  IF n \in Timers /\ t[n].status = "prescale" /\ t[n].count \in 0..cycles
  THEN t[n].count ELSE cycles
NextEvent(t, video) == Sooner(t, 3, Sooner(t, 2, Sooner(t, 1, Sooner(t, 0, video))))

(* The end of an iteration: the interrupts, the next slice, the loop.      *)
Finish(i, c, t, video, S) ==
  /\ irq' = Flagged(i, S)
  /\ cpu' = Raised(i, c, S)
  /\ timer' = t
  /\ video_count' = video
  /\ execute_cycles' = NextEvent(t, video)
  /\ stale' = FALSE
  /\ IF cpu'.halted THEN at' = "loop" /\ irq_raised' = S /\ UNCHANGED exchanged
     ELSE at' = "code" /\ irq_raised' = {} /\ exchanged' = FALSE

ClearPc == [cpu EXCEPT !.changed_pc = FALSE]
VideoLeft == video_count - execute_cycles

(* Nothing happens on the display. *)
TimersOnly ==
  /\ at = "loop" /\ VideoLeft > 0
  /\ LET u == UpdateTimers IN Finish(irq, ClearPc, u.timer, VideoLeft, u.raised)
  /\ UNCHANGED <<entry, restart, lcd, dma, event_cycles, snap>>

(* Into the horizontal blank; the DMA of the visible lines. *)
HBlankStarts ==
  /\ at = "loop" /\ VideoLeft <= 0 /\ ~lcd.hblank
  /\ LET u    == UpdateTimers
         s    == IF lcd.vblank THEN "none" ELSE "hblank"
         irqs == DmaIrqs(dma, s)
     IN /\ dma' = DmaDone(dma, s)
        /\ Finish(Flagged(irq, irqs), Raised(irq, ClearPc, irqs), u.timer,
                  VideoLeft + HBlank, u.raised \cup ({IRQ_HBLANK} \cap lcd.enabled))
  /\ lcd' = [lcd EXCEPT !.hblank = TRUE]
  /\ UNCHANGED <<entry, restart, event_cycles, snap>>

(* DISPSTAT and VCOUNT on line y.                                          *)
(* A bug: the bit of the vertical blank is not cleared.                    *)
OnLineStillBlank(y, vblank) ==
  [lcd EXCEPT !.vcount = y, !.hblank = FALSE, !.vblank = @ \/ vblank, !.match = (y = lcd.lyc)]
(* A bug: VCOUNT is not written back from its local.                       *)
OnLineUnstored(y, vblank) ==
  [lcd EXCEPT !.hblank = FALSE, !.vblank = vblank, !.match = (y = lcd.lyc)]
OnLine(y, vblank) ==
  [lcd EXCEPT !.vcount = y, !.hblank = FALSE, !.vblank = vblank, !.match = (y = lcd.lyc)]
LineIrqs(y) == (IF y = lcd.lyc THEN {IRQ_VCOUNT} ELSE {}) \cap lcd.enabled

NextLine ==
  /\ at = "loop" /\ VideoLeft <= 0 /\ lcd.hblank /\ lcd.vcount + 1 # Lines
  /\ LET u     == UpdateTimers
         y     == lcd.vcount + 1
         first == y = Visible
         s     == IF first THEN "vblank" ELSE "none"
         irqs  == DmaIrqs(dma, s)
     IN /\ dma' = DmaDone(dma, s)
        /\ lcd' = OnLine(y, lcd.vblank \/ first)
        /\ Finish(Flagged(irq, irqs), Raised(irq, ClearPc, irqs), u.timer,
                  VideoLeft + HDraw,
                  u.raised \cup LineIrqs(y)
                    \cup (IF first THEN {IRQ_VBLANK} \cap lcd.enabled ELSE {}))
  /\ UNCHANGED <<entry, restart, event_cycles, snap>>

(* The end of the last line, up to the call of check_paused. VCOUNT and    *)
(* DISPSTAT are in locals.                                                 *)
FrameEnds ==
  /\ at = "loop" /\ VideoLeft <= 0 /\ lcd.hblank /\ lcd.vcount + 1 = Lines
  /\ at' = "check"
  /\ cpu' = ClearPc
  /\ LET u == UpdateTimers IN timer' = u.timer /\ irq_raised' = u.raised
  /\ video_count' = VideoLeft + HDraw
  /\ UNCHANGED <<entry, restart, irq, lcd, dma, execute_cycles, event_cycles, snap,
                 exchanged, stale>>

(* "continue" from within the frame's end: execute_cycles stays. *)
Continue ==
  /\ stale' = TRUE
  /\ IF cpu'.halted THEN at' = "loop" /\ UNCHANGED <<irq_raised, exchanged>>
     ELSE at' = "code" /\ irq_raised' = {} /\ exchanged' = FALSE

(* check_paused has returned 1. *)
Restarted ==
  /\ at = "check" /\ restart
  /\ restart' = FALSE
  /\ UNCHANGED <<entry, machine, event_cycles, snap>>
  /\ Continue

(* check_paused has returned 0; update_input may raise the keypad's        *)
(* interrupt. Once, 300 frames after the start, VCOUNT is not set to 0.    *)
NextFrame ==
  /\ at = "check" /\ ~restart
  /\ event_cycles' = IF event_cycles > EventTrigger THEN event_cycles ELSE event_cycles + 1
  /\ \E keys \in KeyIrqs :
       LET i == Flagged(irq, keys)
           c == Raised(irq, cpu, keys)
       IN IF event_cycles' = EventTrigger
          THEN /\ irq' = i /\ cpu' = c
               /\ UNCHANGED <<lcd, timer, execute_cycles, video_count>>
               /\ Continue
          ELSE /\ lcd' = OnLine(0, FALSE)
               /\ Finish(i, c, timer, video_count, irq_raised \cup LineIrqs(0))
  /\ UNCHANGED <<entry, restart, dma, snap>>

-----------------------------------------------------------------------------
(* The UI thread, while the emulator is parked in check_paused. *)

UiVars == <<at, entry, irq_raised, event_cycles, stale>>

(* reset_gba. The savestates are of the same game: another ROM is a reset  *)
(* without them.                                                           *)
Reset ==
  /\ at = "check"
  /\ restart' = TRUE /\ exchanged' = TRUE
  /\ irq' = InitIrq /\ lcd' = InitLcd
  /\ cpu' = [InitCpu EXCEPT !.changed_pc = TRUE]
  /\ timer' = [n \in Timers |-> [timer[n] EXCEPT !.status = "inactive", !.reload = FullReload]]
  /\ dma' = [dma EXCEPT !.start = "inactive"]
  /\ execute_cycles' = HDraw /\ video_count' = HDraw
  /\ UNCHANGED <<UiVars, snap>>

SaveState(s) ==
  /\ at = "check"
  /\ snap' = [snap EXCEPT ![s] =
       [saved |-> TRUE, irq |-> irq, cpu |-> cpu, lcd |-> lcd, timer |-> timer,
        dma |-> dma, execute_cycles |-> execute_cycles, video_count |-> video_count]]
  /\ UNCHANGED <<UiVars, restart, machine, exchanged>>

(* A bug: the code is not told that the PC has changed.                    *)
LoadedCpuAsSaved(c) == c
LoadedCpu(c) == [c EXCEPT !.changed_pc = TRUE]

LoadState(s) ==
  /\ at = "check" /\ snap[s].saved
  /\ restart' = TRUE /\ exchanged' = TRUE
  /\ irq' = snap[s].irq /\ lcd' = snap[s].lcd
  /\ cpu' = LoadedCpu(snap[s].cpu)
  /\ timer' = snap[s].timer /\ dma' = snap[s].dma
  /\ execute_cycles' = snap[s].execute_cycles /\ video_count' = snap[s].video_count
  /\ UNCHANGED <<UiVars, snap>>

(* The file cannot be opened: resumeEmulator(1) is called all the same. *)
LoadFails(s) ==
  /\ at = "check" /\ ~snap[s].saved
  /\ restart' = TRUE
  /\ UNCHANGED <<UiVars, machine, snap, exchanged>>

-----------------------------------------------------------------------------
Game ==
  \/ \E n \in Timers : StartTimer(n) \/ StopTimer(n) \/ SetReload(n)
  \/ WriteDispstat \/ WriteIE \/ WriteIME \/ Acknowledge \/ WriteCPSR
  \/ StartDma \/ StopDma \/ Halt

UpdateGba ==
  TimersOnly \/ HBlankStarts \/ NextLine \/ FrameEnds \/ Restarted \/ NextFrame

Ui == Reset \/ \E s \in Slots : SaveState(s) \/ LoadState(s) \/ LoadFails(s)

Next == Game \/ SliceEnds \/ UpdateGba \/ Ui

Spec == Init /\ [][Next]_vars

(* The emulator thread goes on: translated code uses up its slice, the UI  *)
(* lets a parked emulator run.                                             *)
FairSpec == Spec /\ WF_vars(SliceEnds) /\ WF_vars(UpdateGba)

-----------------------------------------------------------------------------
(* A slice never runs past an event: not past the end of the display's     *)
(* phase, and not past the overflow of a timer, whenever the timer was     *)
(* started and whatever it is reloaded with. The slice after a "continue", *)
(* which is that of an earlier iteration, or machine, keeps to the first.  *)
SliceEndsInTime ==
  /\ execute_cycles \in 1..video_count
  /\ ~stale /\ at # "check" =>
       \A n \in Timers : timer[n].status = "prescale" => execute_cycles <= timer[n].count

(* No timer falls behind by a period or more, not even after the slice of  *)
(* a "continue", which may be longer than the timer's count. That slice is *)
(* nearly a line long when the frame before was ended by a "continue" too: *)
(* a timer whose period the game has meanwhile cut to less than that would *)
(* stay behind for good, for check_timer passes over a negative count.     *)
(* Hence the bound on SetReload.                                           *)
TimersKeepUp == \A n \in Counting : timer[n].count > 0

(* The bits of DISPSTAT tell the phase VCOUNT is in.                       *)
DispstatFollowsVcount == lcd.vblank <=> lcd.vcount >= Visible

(* An interrupt that is raised while the game accepts it is taken: only a  *)
(* write to IE or IME, or a savestate, leaves one pending and not taken.   *)
Untaken == Pending(irq, irq.REG_IF) /\ ~cpu.masked
InterruptsTaken ==
  [][Untaken' => Untaken \/ irq'.REG_IE # irq.REG_IE \/ irq'.REG_IME # irq.REG_IME \/ exchanged']_vars

(* update_gba never returns into the code of a machine that was replaced   *)
(* while it ran: the code it was called from looks the PC up again.        *)
NoReturnToOldCode ==
  [][(exchanged /\ InCode') => (cpu'.changed_pc \/ entry = "alert")]_vars

(* Frames go on, and with them the calls of check_paused, whatever the     *)
(* game does to its timers and interrupts, and if it halts for good.       *)
FramesGoOn == []<>(at = "check")

WaitsForVBlank ==
  /\ cpu.halted /\ ~cpu.masked /\ irq.REG_IME
  /\ IRQ_VBLANK \in irq.REG_IE \cap lcd.enabled

(* A game that halts for the vertical blank is woken, unless the UI makes  *)
(* the loop restart.                                                       *)
WokenByVBlank == WaitsForVBlank ~> (~cpu.halted \/ restart)
=============================================================================
