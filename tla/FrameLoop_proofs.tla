-------------------------- MODULE FrameLoop_proofs --------------------------
(***************************************************************************)
(* Properties of the frame loop, for a display of any size, any timers and *)
(* any settings of the game. The first three rest on the registers alone:  *)
(* of the timers only that they raise some set of interrupts. The last two *)
(* rest on the clock alone: the timers, the slice and the display's phase. *)
(***************************************************************************)
EXTENDS FrameLoop, TLAPS

SoundIrq(i) ==
  /\ i = [REG_IE |-> i.REG_IE, REG_IF |-> i.REG_IF, REG_IME |-> i.REG_IME]
  /\ i.REG_IME \in BOOLEAN
SoundCpu(c) == c \in [masked : BOOLEAN, halted : BOOLEAN, changed_pc : BOOLEAN]
LcdStates == [vcount : 0..Lines - 1, hblank : BOOLEAN, vblank : BOOLEAN, match : BOOLEAN,
              enabled : SUBSET LcdIrqs, lyc : 0..255]
SoundLcd(l) == l \in LcdStates /\ (l.vblank <=> l.vcount >= Visible)

(* The registers are sound, those of the savestates too.                   *)
Registers == SoundIrq(irq) /\ SoundCpu(cpu) /\ SoundLcd(lcd)
Saved ==
  /\ DOMAIN snap = Slots
  /\ \A s \in Slots : snap[s].saved =>
       SoundIrq(snap[s].irq) /\ SoundCpu(snap[s].cpu) /\ SoundLcd(snap[s].lcd)

(* The code does not run while a replaced machine is unannounced: the loop *)
(* either waits for an interrupt, which sets the PC, or is on its way out  *)
(* of check_paused with the PC marked as changed.                          *)
Replaced ==
  exchanged =>
    /\ at # "code"
    /\ cpu.halted \/ (at = "check" /\ restart /\ cpu.changed_pc)

IInv == Registers /\ Saved /\ Replaced

-----------------------------------------------------------------------------
(* raise_interrupt keeps the registers sound; it wakes a CPU only with a   *)
(* new PC; and a CPU it leaves unmasked did not accept any of S.           *)
LEMMA RaisedSound ==
  ASSUME NEW i, NEW c, NEW S, SoundCpu(c)
  PROVE  /\ SoundCpu(Raised(i, c, S))
         /\ c.halted \/ c.changed_pc
              => Raised(i, c, S).halted \/ Raised(i, c, S).changed_pc
         /\ ~Raised(i, c, S).masked => ~c.masked /\ ~Pending(i, S)
BY DEF SoundCpu, Raised, Taken

LEMMA FlaggedSound ==
  ASSUME NEW i, NEW S, SoundIrq(i)
  PROVE  /\ SoundIrq(Flagged(i, S))
         /\ Flagged(i, S).REG_IE = i.REG_IE
         /\ Flagged(i, S).REG_IME = i.REG_IME
         /\ Flagged(i, S).REG_IF = i.REG_IF \cup S
BY DEF SoundIrq, Flagged

LEMMA ClearPcSound ==
  ASSUME SoundCpu(cpu)
  PROVE  SoundCpu(ClearPc) /\ ClearPc.halted = cpu.halted /\ ClearPc.masked = cpu.masked
BY DEF SoundCpu, ClearPc

(* One line to the next, or back to the first.                             *)
LEMMA OnLineSound ==
  ASSUME SoundLcd(lcd), NEW y \in 0..Lines - 1, NEW b \in BOOLEAN, b <=> y >= Visible
  PROVE  SoundLcd(OnLine(y, b))
<1> DEFINE match == (y = lcd.lyc)
<1>1. match \in BOOLEAN
  OBVIOUS
<1>2. OnLine(y, b) = [lcd EXCEPT !.vcount = y, !.hblank = FALSE, !.vblank = b, !.match = match]
  BY DEF OnLine
<1> HIDE DEF match
<1>3. OnLine(y, b) \in LcdStates /\ OnLine(y, b).vblank = b /\ OnLine(y, b).vcount = y
  BY <1>1, <1>2 DEF SoundLcd, LcdStates
<1> QED
  BY <1>3 DEF SoundLcd

(* The end of an iteration.                                                *)
LEMMA FinishStep ==
  ASSUME NEW i, NEW c, NEW t, NEW video, NEW S,
         SoundIrq(i), SoundCpu(c), exchanged => c.halted \/ c.changed_pc,
         Finish(i, c, t, video, S)
  PROVE  /\ SoundIrq(irq') /\ SoundCpu(cpu') /\ Replaced'
         /\ exchanged /\ at' = "code" => cpu'.changed_pc
<1>1. SoundIrq(irq')
  BY FlaggedSound DEF Finish
<1>2. SoundCpu(cpu') /\ (c.halted \/ c.changed_pc => cpu'.halted \/ cpu'.changed_pc)
  BY RaisedSound DEF Finish
<1>3. CASE cpu'.halted
  BY <1>1, <1>2, <1>3 DEF Finish, Replaced
<1>4. CASE ~cpu'.halted
  BY <1>1, <1>2, <1>4 DEF Finish, Replaced
<1> QED
  BY <1>3, <1>4

-----------------------------------------------------------------------------
LEMMA InitLcdSound == SoundLcd(InitLcd)
BY FrameLoopAssumption DEF InitLcd, SoundLcd, LcdStates, LcdIrqs

LEMMA InitInv == Init => IInv
<1> SUFFICES ASSUME Init PROVE IInv
  OBVIOUS
<1> USE FrameLoopAssumption
<1>1. SoundIrq(irq) /\ SoundCpu(cpu)
  BY DEF Init, InitIrq, InitCpu, SoundIrq, SoundCpu
<1>2. SoundLcd(lcd)
  BY InitLcdSound DEF Init
<1>3. Saved
  BY DEF Init, NoSnap, Saved
<1>4. Replaced
  BY DEF Init, Replaced
<1> QED
  BY <1>1, <1>2, <1>3, <1>4 DEF IInv, Registers

(* The game's writes, with the code running and so with nothing replaced.  *)
LEMMA GameStep == IInv /\ (Game \/ SliceEnds) => IInv'
<1> SUFFICES ASSUME IInv, Game \/ SliceEnds PROVE IInv'
  OBVIOUS
<1> USE FrameLoopAssumption
<1> USE DEF InCode, LoopVars, machine
<1>0. Saved' /\ Replaced' /\ exchanged = FALSE
  <2>1. at = "code" /\ UNCHANGED <<snap, exchanged>>
    BY DEF Game, StartTimer, StopTimer, SetReload, WriteDispstat, WriteIE, WriteIME,
           Acknowledge, WriteCPSR, StartDma, StopDma, Halt, SliceEnds, Enters
  <2> QED
    BY <2>1 DEF IInv, Saved, Replaced
<1>1. ASSUME NEW n \in Timers, StartTimer(n) \/ StopTimer(n) \/ SetReload(n) PROVE Registers'
  BY <1>1 DEF IInv, Registers, StartTimer, StopTimer, SetReload
<1>2. CASE WriteDispstat
  <2>1. PICK e \in Enables, y \in Matches : lcd' = [lcd EXCEPT !.enabled = e, !.lyc = y]
    BY <1>2 DEF WriteDispstat
  <2>2. SoundLcd(lcd')
    BY <2>1 DEF IInv, Registers, SoundLcd, LcdStates
  <2> QED
    BY <1>0, <1>2, <2>2 DEF IInv, Registers, WriteDispstat
<1>3. CASE WriteIE \/ WriteIME \/ Acknowledge
  BY <1>0, <1>3 DEF IInv, Registers, WriteIE, WriteIME, Acknowledge, SoundIrq
<1>4. CASE WriteCPSR
  BY <1>0, <1>4 DEF IInv, Registers, WriteCPSR, Unmasked, Pending, SoundCpu
<1>5. CASE StartDma
  <2>1. PICK d \in DmaSetups :
          /\ irq' = Flagged(irq, DmaIrqs(d, "immediately"))
          /\ cpu' = Raised(irq, cpu, DmaIrqs(d, "immediately"))
    BY <1>5 DEF StartDma
  <2>2. SoundIrq(irq') /\ SoundCpu(cpu')
    BY <2>1, FlaggedSound, RaisedSound DEF IInv, Registers
  <2> QED
    BY <1>0, <1>5, <2>2 DEF IInv, Registers, StartDma
<1>6. CASE StopDma \/ SliceEnds
  BY <1>0, <1>6 DEF IInv, Registers, StopDma, SliceEnds
<1>7. CASE Halt
  BY <1>0, <1>7 DEF IInv, Registers, Halt, SoundCpu
<1> QED
  BY <1>0, <1>1, <1>2, <1>3, <1>4, <1>5, <1>6, <1>7 DEF IInv, Game

(* update_gba.                                                             *)
LEMMA UpdateStep == IInv /\ UpdateGba => IInv'
<1> SUFFICES ASSUME IInv, UpdateGba PROVE IInv'
  OBVIOUS
<1> USE FrameLoopAssumption
<1>0. Saved'
  BY DEF IInv, Saved, UpdateGba, TimersOnly, HBlankStarts, NextLine, FrameEnds,
         Restarted, NextFrame
<1>a. SoundCpu(ClearPc) /\ ClearPc.halted = cpu.halted
  BY ClearPcSound DEF IInv, Registers
<1>b. SoundIrq(irq) /\ SoundCpu(cpu) /\ SoundLcd(lcd)
  BY DEF IInv, Registers
<1>c. ASSUME at = "loop" PROVE exchanged => cpu.halted
  BY <1>c DEF IInv, Replaced
<1>1. CASE TimersOnly
  <2> DEFINE u == UpdateTimers
  <2>1. Finish(irq, ClearPc, u.timer, VideoLeft, u.raised) /\ at = "loop" /\ lcd' = lcd
    BY <1>1 DEF TimersOnly
  <2>2. SoundIrq(irq') /\ SoundCpu(cpu') /\ Replaced'
    <3> HIDE DEF u
    <3> QED
      BY <1>a, <1>b, <1>c, <2>1, FinishStep
  <2> QED
    BY <1>0, <1>b, <2>1, <2>2 DEF IInv, Registers
<1>2. CASE HBlankStarts
  <2> DEFINE u == UpdateTimers
             S == DmaIrqs(dma, IF lcd.vblank THEN "none" ELSE "hblank")
             i == Flagged(irq, S)
             c == Raised(irq, ClearPc, S)
             R == u.raised \cup ({IRQ_HBLANK} \cap lcd.enabled)
             v == VideoLeft + HBlank
  <2>1. Finish(i, c, u.timer, v, R) /\ at = "loop"
    BY <1>2 DEF HBlankStarts
  <2>2. SoundIrq(i) /\ SoundCpu(c) /\ (exchanged => c.halted \/ c.changed_pc)
    BY <1>a, <1>b, <1>c, <2>1, FlaggedSound, RaisedSound
  <2>3. SoundIrq(irq') /\ SoundCpu(cpu') /\ Replaced'
    <3> HIDE DEF u, i, c, R, v
    <3> QED
      BY <2>1, <2>2, FinishStep
  <2>4. SoundLcd(lcd')
    BY <1>2, <1>b DEF HBlankStarts, SoundLcd, LcdStates
  <2> QED
    BY <1>0, <2>3, <2>4 DEF IInv, Registers
<1>3. CASE NextLine
  <2> DEFINE u == UpdateTimers
             y == lcd.vcount + 1
             S == DmaIrqs(dma, IF y = Visible THEN "vblank" ELSE "none")
             i == Flagged(irq, S)
             c == Raised(irq, ClearPc, S)
             R == u.raised \cup LineIrqs(y)
                    \cup (IF y = Visible THEN {IRQ_VBLANK} \cap lcd.enabled ELSE {})
             v == VideoLeft + HDraw
             b == lcd.vblank \/ y = Visible
  <2>1. /\ Finish(i, c, u.timer, v, R) /\ at = "loop"
        /\ lcd' = OnLine(y, b) /\ y # Lines
    BY <1>3 DEF NextLine
  <2>2. SoundIrq(i) /\ SoundCpu(c) /\ (exchanged => c.halted \/ c.changed_pc)
    BY <1>a, <1>b, <1>c, <2>1, FlaggedSound, RaisedSound
  <2>3. SoundIrq(irq') /\ SoundCpu(cpu') /\ Replaced'
    <3> HIDE DEF u, i, c, R, v, y, b
    <3> QED
      BY <2>1, <2>2, FinishStep
  <2>4. y \in 0..Lines - 1 /\ b \in BOOLEAN /\ (b <=> y >= Visible)
    BY <1>b, <2>1 DEF SoundLcd, LcdStates
  <2>5. SoundLcd(lcd')
    <3> HIDE DEF y, b
    <3> QED
      BY <1>b, <2>1, <2>4, OnLineSound
  <2> QED
    BY <1>0, <2>3, <2>5 DEF IInv, Registers
<1>4. CASE FrameEnds
  BY <1>0, <1>4, <1>a, <1>b, <1>c DEF FrameEnds, IInv, Registers, Replaced
<1>5. CASE Restarted
  BY <1>0, <1>5, <1>b DEF Restarted, Continue, machine, IInv, Registers, Replaced
<1>6. CASE NextFrame
  <2>1. PICK keys \in KeyIrqs :
          \/ /\ irq' = Flagged(irq, keys) /\ cpu' = Raised(irq, cpu, keys)
             /\ lcd' = lcd /\ Continue
          \/ /\ lcd' = OnLine(0, FALSE)
             /\ Finish(Flagged(irq, keys), Raised(irq, cpu, keys), timer, video_count,
                       irq_raised \cup LineIrqs(0))
    BY <1>6 DEF NextFrame
  <2> DEFINE i == Flagged(irq, keys)
             c == Raised(irq, cpu, keys)
             R == irq_raised \cup LineIrqs(0)
  <2>2. at = "check" /\ ~restart
    BY <1>6 DEF NextFrame
  <2>3. SoundIrq(i) /\ SoundCpu(c) /\ (exchanged => c.halted \/ c.changed_pc)
    BY <1>b, <2>2, FlaggedSound, RaisedSound DEF IInv, Replaced
  <2>4. CASE Finish(i, c, timer, video_count, R) /\ lcd' = OnLine(0, FALSE)
    <3>1. SoundIrq(irq') /\ SoundCpu(cpu') /\ Replaced'
      <4> HIDE DEF i, c, R
      <4> QED
        BY <2>3, <2>4, FinishStep
    <3>2. SoundLcd(lcd')
      <4>1. 0 \in 0..Lines - 1 /\ (FALSE <=> 0 >= Visible)
        OBVIOUS
      <4> QED
        BY <1>b, <2>4, <4>1, OnLineSound
    <3> QED
      BY <1>0, <3>1, <3>2 DEF IInv, Registers
  <2>5. CASE irq' = i /\ cpu' = c /\ lcd' = lcd /\ Continue
    <3>1. Replaced'
      BY <2>3, <2>5 DEF Continue, Replaced
    <3> QED
      BY <1>0, <1>b, <2>3, <2>5, <3>1 DEF IInv, Registers
  <2> QED
    BY <2>1, <2>4, <2>5
<1> QED
  BY <1>1, <1>2, <1>3, <1>4, <1>5, <1>6 DEF UpdateGba

(* The UI thread, in check_paused.                                         *)
LEMMA UiStep == IInv /\ Ui => IInv'
<1> SUFFICES ASSUME IInv, Ui PROVE IInv'
  OBVIOUS
<1> USE FrameLoopAssumption
<1> USE DEF UiVars, machine
<1>1. CASE Reset
  <2>1. SoundIrq(irq') /\ SoundCpu(cpu') /\ cpu'.changed_pc
    BY <1>1 DEF Reset, InitIrq, InitCpu, SoundIrq, SoundCpu
  <2>2. SoundLcd(lcd')
    BY <1>1, InitLcdSound DEF Reset
  <2>3. Saved' /\ Replaced'
    BY <1>1, <2>1 DEF Reset, IInv, Saved, Replaced
  <2> QED
    BY <2>1, <2>2, <2>3 DEF IInv, Registers
<1>2. ASSUME NEW s \in Slots, SaveState(s) PROVE IInv'
  <2>1. Registers' /\ Replaced'
    BY <1>2 DEF SaveState, IInv, Registers, Replaced
  <2>2. /\ DOMAIN snap' = Slots
        /\ \A k \in Slots \ {s} : snap'[k] = snap[k]
        /\ snap'[s].irq = irq /\ snap'[s].cpu = cpu /\ snap'[s].lcd = lcd
    BY <1>2 DEF SaveState, IInv, Saved
  <2>3. Saved'
    <3> SUFFICES ASSUME NEW k \in Slots, snap'[k].saved
                 PROVE  SoundIrq(snap'[k].irq) /\ SoundCpu(snap'[k].cpu) /\ SoundLcd(snap'[k].lcd)
      BY <2>2 DEF Saved
    <3> QED
      BY <2>2 DEF IInv, Registers, Saved
  <2> QED
    BY <2>1, <2>3 DEF IInv
<1>3. ASSUME NEW s \in Slots, LoadState(s) PROVE IInv'
  <2>1. SoundIrq(snap[s].irq) /\ SoundCpu(snap[s].cpu) /\ SoundLcd(snap[s].lcd)
    BY <1>3 DEF LoadState, IInv, Saved
  <2>2. SoundCpu(cpu') /\ cpu'.changed_pc
    BY <1>3, <2>1 DEF LoadState, LoadedCpu, SoundCpu
  <2>3. Registers'
    BY <1>3, <2>1, <2>2 DEF LoadState, Registers
  <2>4. Saved' /\ Replaced'
    BY <1>3, <2>2 DEF LoadState, IInv, Saved, Replaced
  <2> QED
    BY <2>3, <2>4 DEF IInv
<1>4. ASSUME NEW s \in Slots, LoadFails(s) PROVE IInv'
  BY <1>4 DEF LoadFails, IInv, Registers, Saved, Replaced
<1> QED
  BY <1>1, <1>2, <1>3, <1>4 DEF Ui

LEMMA StepInv == IInv /\ [Next]_vars => IInv'
<1>1. CASE Next
  BY <1>1, GameStep, UpdateStep, UiStep DEF Next
<1>2. CASE UNCHANGED vars
  BY <1>2 DEF vars, machine, IInv, Registers, Saved, Replaced
<1> QED
  BY <1>1, <1>2

LEMMA Invariance == Spec => []IInv
BY InitInv, StepInv, PTL DEF Spec

-----------------------------------------------------------------------------
(* The vertical-blank bit of DISPSTAT is set exactly from line Visible on, *)
(* in whatever order frames end, machines are reset and savestates loaded. *)
THEOREM DispstatTheorem == Spec => []DispstatFollowsVcount
<1>1. IInv => DispstatFollowsVcount
  BY DEF IInv, Registers, SoundLcd, DispstatFollowsVcount
<1> QED
  BY <1>1, Invariance, PTL

(* After the end of an iteration an interrupt that could have been taken   *)
(* is pending only if one was before.                                      *)
LEMMA FinishTaken ==
  ASSUME NEW i, NEW c, NEW t, NEW video, NEW S,
         SoundIrq(i), SoundCpu(c), Finish(i, c, t, video, S), Untaken'
  PROVE  Pending(i, i.REG_IF) /\ ~c.masked
<1>1. ~c.masked /\ ~Pending(i, S)
  BY RaisedSound DEF Finish, Untaken
<1>2. Pending(Flagged(i, S), Flagged(i, S).REG_IF)
  BY DEF Finish, Untaken
<1> QED
  BY <1>1, <1>2, FlaggedSound DEF Pending

(* The same of an interrupt raised before: by a DMA, or by a key.          *)
LEMMA RaisedTaken ==
  ASSUME NEW i, NEW c, NEW S, SoundIrq(i), SoundCpu(c),
         Pending(Flagged(i, S), Flagged(i, S).REG_IF), ~Raised(i, c, S).masked
  PROVE  Pending(i, i.REG_IF) /\ ~c.masked
BY RaisedSound, FlaggedSound DEF Pending

(* Whatever raises an interrupt that the game accepts, at whatever moment: *)
(* it is taken, unless a write to IE or IME, or a savestate, comes between.*)
THEOREM InterruptsTheorem == Spec => InterruptsTaken
<1> DEFINE Excused == irq'.REG_IE # irq.REG_IE \/ irq'.REG_IME # irq.REG_IME \/ exchanged'
<1>1. ASSUME IInv, Next, Untaken' PROVE Untaken \/ Excused
  <2>0. SoundIrq(irq) /\ SoundCpu(cpu)
    BY <1>1 DEF IInv, Registers
  <2>1. CASE Game
    <3>1. CASE WriteIE \/ WriteIME
      BY <1>1, <2>0, <3>1 DEF WriteIE, WriteIME, SoundIrq, Untaken, Pending
    <3>2. CASE Acknowledge
      BY <1>1, <2>0, <3>2 DEF Acknowledge, SoundIrq, Untaken, Pending
    <3>3. CASE WriteCPSR
      BY <1>1, <2>0, <3>3 DEF WriteCPSR, Unmasked, SoundCpu, Untaken, Pending
    <3>4. CASE StartDma
      <4>1. PICK d \in DmaSetups :
              /\ irq' = Flagged(irq, DmaIrqs(d, "immediately"))
              /\ cpu' = Raised(irq, cpu, DmaIrqs(d, "immediately"))
        BY <3>4 DEF StartDma
      <4> QED
        BY <1>1, <2>0, <4>1, RaisedTaken DEF Untaken
    <3>5. CASE Halt
      BY <1>1, <2>0, <3>5 DEF Halt, SoundCpu, Untaken
    <3>6. CASE WriteDispstat \/ StopDma
      BY <1>1, <3>6 DEF WriteDispstat, StopDma, Untaken
    <3>7. ASSUME NEW n \in Timers, StartTimer(n) \/ StopTimer(n) \/ SetReload(n)
          PROVE  Untaken
      BY <1>1, <3>7 DEF StartTimer, StopTimer, SetReload, Untaken
    <3> QED
      BY <2>1, <3>1, <3>2, <3>3, <3>4, <3>5, <3>6, <3>7 DEF Game
  <2>2. CASE SliceEnds
    BY <1>1, <2>2 DEF SliceEnds, machine, Untaken
  <2>3. CASE UpdateGba
    <3>a. SoundCpu(ClearPc) /\ ClearPc.masked = cpu.masked
      BY <2>0, ClearPcSound
    <3>1. CASE TimersOnly
      <4> DEFINE u == UpdateTimers
      <4>1. Finish(irq, ClearPc, u.timer, VideoLeft, u.raised)
        BY <3>1 DEF TimersOnly
      <4> HIDE DEF u
      <4> QED
        BY <1>1, <2>0, <3>a, <4>1, FinishTaken DEF Untaken
    <3>2. CASE HBlankStarts \/ NextLine
      <4>1. PICK S, t, v, R : Finish(Flagged(irq, S), Raised(irq, ClearPc, S), t, v, R)
        BY <3>2 DEF HBlankStarts, NextLine
      <4>2. Pending(Flagged(irq, S), Flagged(irq, S).REG_IF) /\ ~Raised(irq, ClearPc, S).masked
        BY <1>1, <2>0, <3>a, <4>1, FinishTaken, FlaggedSound, RaisedSound
      <4> QED
        BY <2>0, <3>a, <4>2, RaisedTaken DEF Untaken
    <3>3. CASE FrameEnds
      BY <1>1, <3>3, <3>a DEF FrameEnds, Untaken
    <3>4. CASE Restarted
      BY <1>1, <3>4 DEF Restarted, machine, Untaken
    <3>5. CASE NextFrame
      <4>1. PICK S : \/ irq' = Flagged(irq, S) /\ cpu' = Raised(irq, cpu, S)
                     \/ \E R : Finish(Flagged(irq, S), Raised(irq, cpu, S), timer,
                                      video_count, R)
        BY <3>5 DEF NextFrame
      <4>2. Pending(Flagged(irq, S), Flagged(irq, S).REG_IF) /\ ~Raised(irq, cpu, S).masked
        BY <1>1, <2>0, <4>1, FinishTaken, FlaggedSound, RaisedSound DEF Untaken
      <4> QED
        BY <2>0, <4>2, RaisedTaken DEF Untaken
    <3> QED
      BY <2>3, <3>1, <3>2, <3>3, <3>4, <3>5 DEF UpdateGba
  <2>4. CASE Ui
    <3>1. ASSUME NEW s \in Slots, SaveState(s) \/ LoadFails(s) PROVE Untaken
      BY <1>1, <3>1 DEF SaveState, LoadFails, machine, Untaken
    <3>2. Reset \/ (\E s \in Slots : LoadState(s)) => exchanged'
      BY DEF Reset, LoadState
    <3> QED
      BY <2>4, <3>1, <3>2 DEF Ui
  <2> QED
    BY <1>1, <2>1, <2>2, <2>3, <2>4 DEF Next
<1>2. UNCHANGED vars => (Untaken' => Untaken)
  BY DEF vars, machine, Untaken
<1>3. IInv /\ [Next]_vars => [Untaken' => Untaken \/ Excused]_vars
  BY <1>1, <1>2
<1> QED
  BY <1>3, Invariance, PTL DEF Spec, InterruptsTaken

(* Translated code of a machine that was replaced is never returned to.    *)
THEOREM NoReturnTheorem == Spec => NoReturnToOldCode
<1> DEFINE Announced == exchanged /\ InCode' => cpu'.changed_pc \/ entry = "alert"
<1>1. ASSUME IInv, Next PROVE Announced
  <2> SUFFICES ASSUME exchanged, at' = "code" PROVE cpu'.changed_pc
    BY DEF InCode
  <2>0. at # "code" /\ (cpu.halted \/ (at = "check" /\ restart /\ cpu.changed_pc))
    BY <1>1 DEF IInv, Replaced
  <2>a. SoundIrq(irq) /\ SoundCpu(cpu)
    BY <1>1 DEF IInv, Registers
  <2>b. SoundCpu(ClearPc) /\ ClearPc.halted = cpu.halted
    BY <2>a, ClearPcSound
  <2>1. CASE TimersOnly
    <3> DEFINE u == UpdateTimers
    <3>1. Finish(irq, ClearPc, u.timer, VideoLeft, u.raised) /\ at = "loop"
      BY <2>1 DEF TimersOnly
    <3> HIDE DEF u
    <3> QED
      BY <2>0, <2>a, <2>b, <3>1, FinishStep
  <2>2. CASE HBlankStarts \/ NextLine
    <3>1. PICK S, t, v, R : Finish(Flagged(irq, S), Raised(irq, ClearPc, S), t, v, R)
      BY <2>2 DEF HBlankStarts, NextLine
    <3>2. at = "loop"
      BY <2>2 DEF HBlankStarts, NextLine
    <3>3. /\ SoundIrq(Flagged(irq, S)) /\ SoundCpu(Raised(irq, ClearPc, S))
          /\ Raised(irq, ClearPc, S).halted \/ Raised(irq, ClearPc, S).changed_pc
      BY <2>0, <2>a, <2>b, <3>2, FlaggedSound, RaisedSound
    <3> QED
      BY <3>1, <3>3, FinishStep
  <2>3. CASE Restarted
    BY <2>0, <2>3 DEF Restarted, Continue, machine
  <2>4. CASE NextFrame
    <3>1. PICK S : \/ /\ cpu' = Raised(irq, cpu, S)
                      /\ Continue
                   \/ \E R : Finish(Flagged(irq, S), Raised(irq, cpu, S), timer,
                                    video_count, R)
      BY <2>4 DEF NextFrame
    <3>2. /\ SoundIrq(Flagged(irq, S)) /\ SoundCpu(Raised(irq, cpu, S))
          /\ Raised(irq, cpu, S).halted \/ Raised(irq, cpu, S).changed_pc
      BY <2>0, <2>a, FlaggedSound, RaisedSound
    <3> QED
      BY <3>1, <3>2, FinishStep DEF Continue
  <2>5. FrameEnds \/ Ui => at' = "check"
    BY DEF FrameEnds, Ui, Reset, SaveState, LoadState, LoadFails, UiVars
  <2>6. ~Game /\ ~SliceEnds
    BY <2>0 DEF Game, SliceEnds, InCode, StartTimer, StopTimer, SetReload, WriteDispstat,
                WriteIE, WriteIME, Acknowledge, WriteCPSR, StartDma, StopDma, Halt
  <2> QED
    BY <1>1, <2>1, <2>2, <2>3, <2>4, <2>5, <2>6 DEF Next, UpdateGba
<1>2. IInv /\ [Next]_vars => [Announced]_vars
  BY <1>1
<1> QED
  BY <1>2, Invariance, PTL DEF Spec, NoReturnToOldCode

-----------------------------------------------------------------------------
(* The clock: the timers, the slice and what the display's phase has left. *)

TimerStates == [status : {"inactive", "prescale", "cascade"}, count : Int,
                reload : Nat \ {0}, prescale : Nat \ {0}, irq : BOOLEAN]

(* A timer that counts is ahead of its overflow. One that counts cycles    *)
(* survives a slice that comes a second time, by a "continue": the slice   *)
(* is no longer than the timer's period, and neither will the next be,     *)
(* which is shorter than a line and than the count.                        *)
InTime(t, cycles) ==
  /\ t.status # "inactive" => t.count > 0
  /\ t.status = "prescale" =>
       /\ cycles <= Period(t)
       /\ t.count <= Period(t) \/ HDraw <= Period(t)
SoundClock(ts, cycles, video) ==
  /\ ts \in [Timers -> TimerStates]
  /\ \A n \in Timers : InTime(ts[n], cycles)
  /\ video \in 1..HDraw /\ cycles \in 1..video

Clock == SoundClock(timer, execute_cycles, video_count)
SavedClocks ==
  /\ DOMAIN snap = Slots
  /\ \A s \in Slots : snap[s].saved =>
       SoundClock(snap[s].timer, snap[s].execute_cycles, snap[s].video_count)

(* The slice was computed from these timers, or shortened since.           *)
Fresh ==
  ~stale /\ at # "check" =>
    \A n \in Timers : timer[n].status = "prescale" => execute_cycles <= timer[n].count

ClockInv == Clock /\ SavedClocks /\ Fresh

-----------------------------------------------------------------------------
(* What a slice does to one timer, and to all four.                        *)
LEMMA Product ==
  ASSUME NEW a \in Nat \ {0}, NEW b \in Nat \ {0}
  PROVE  a * b \in Nat \ {0} /\ a <= a * b
OBVIOUS

LEMMA ProductGrows ==
  ASSUME NEW a \in Nat \ {0}, NEW b \in Nat \ {0}, NEW c \in Nat \ {0}, a <= c
  PROVE  a * b <= c * b
OBVIOUS

LEMMA PeriodType ==
  ASSUME NEW t \in TimerStates
  PROVE  Period(t) \in Nat \ {0} /\ t.reload <= Period(t)
BY Product DEF Period, TimerStates

(* The timers on the way through update_timer(0), ..., update_timer(3):    *)
(* those before k are done, timer k may have been passed an overflow.      *)
Passed(t, cycles) ==
  /\ t.status = "prescale" => InTime(t, cycles)
  /\ t.status = "cascade" => t.count >= 0
Halfway == [timer : [Timers -> TimerStates], raised : SUBSET (irq_raised \cup Irqs)]
DoneBelow(s, k) ==
  /\ s \in Halfway
  /\ \A n \in Timers : IF n = k THEN Passed(s.timer[n], execute_cycles)
                       ELSE InTime(s.timer[n], execute_cycles)

(* The counter of a timer that has overflowed.                             *)
LEMMA Reloaded ==
  ASSUME NEW t \in TimerStates, NEW count \in Int, NEW cycles \in Nat, count <= 0,
         count + Period(t) > 0, cycles <= Period(t) \/ t.status # "prescale"
  PROVE  /\ [t EXCEPT !.count = count + Period(t)] \in TimerStates
         /\ InTime([t EXCEPT !.count = count + Period(t)], cycles)
<1> DEFINE p == Period(t)
           r == [t EXCEPT !.count = count + p]
<1>1. p \in Nat \ {0}
  BY PeriodType
<1> HIDE DEF p
<1>2. /\ r \in TimerStates /\ r.count = count + p
      /\ r.status = t.status /\ r.reload = t.reload /\ r.prescale = t.prescale
  BY <1>1 DEF TimerStates
<1>3. Period(r) = p
  BY <1>2 DEF Period, p
<1> HIDE DEF r
<1>4. InTime(r, cycles)
  BY <1>1, <1>2, <1>3 DEF InTime, p
<1> QED
  BY <1>2, <1>4 DEF r, p

LEMMA Counted ==
  ASSUME NEW t \in TimerStates, NEW count \in Int, NEW cycles \in Nat, count > 0,
         t.status = "prescale" => InTime(t, cycles) /\ count <= t.count
  PROVE  /\ [t EXCEPT !.count = count] \in TimerStates
         /\ InTime([t EXCEPT !.count = count], cycles)
<1> DEFINE r == [t EXCEPT !.count = count]
<1>1. /\ r \in TimerStates /\ r.count = count
      /\ r.status = t.status /\ r.reload = t.reload /\ r.prescale = t.prescale
  BY DEF TimerStates
<1>2. Period(r) = Period(t) /\ Period(t) \in Nat
  BY <1>1, PeriodType DEF Period
<1>3. t.count \in Int
  BY DEF TimerStates
<1> HIDE DEF r
<1>4. InTime(r, cycles)
  BY <1>1, <1>2, <1>3, FrameLoopAssumption DEF InTime
<1> QED
  BY <1>1, <1>4 DEF r

LEMMA UpdateTimerStep ==
  ASSUME NEW k \in 0..3, NEW s, DoneBelow(s, k), execute_cycles \in Nat
  PROVE  DoneBelow(UpdateTimer(s, k), k + 1)
<1> DEFINE t     == s.timer[k]
           count == IF t.status = "cascade" THEN t.count ELSE t.count - execute_cycles
           r     == [t EXCEPT !.count = count + Period(t)]
           fired == IF t.irq THEN s.raised \cup {IRQ_TIMER(k)} ELSE s.raised
           next  == [n \in Timers |->
                       IF n = k THEN r
                       ELSE IF n = k + 1 /\ s.timer[n].status = "cascade"
                       THEN [s.timer[n] EXCEPT !.count = @ - 1]
                       ELSE s.timer[n]]
<1>0. s \in Halfway /\ \A n \in Timers : s.timer[n] \in TimerStates
  BY DEF DoneBelow, Halfway
<1>1. CASE k \notin Timers \/ t.status = "inactive"
  <2>1. UpdateTimer(s, k) = s
    BY <1>1, Zenon DEF UpdateTimer
  <2>2. \A n \in Timers : InTime(s.timer[n], execute_cycles)
    BY <1>1 DEF DoneBelow, Passed, InTime
  <2>3. \A n \in Timers : InTime(s.timer[n], execute_cycles) => Passed(s.timer[n], execute_cycles)
    BY <1>0 DEF Passed, InTime, TimerStates
  <2> QED
    BY <1>0, <2>1, <2>2, <2>3 DEF DoneBelow
<1>2. CASE k \in Timers /\ t.status # "inactive"
  <2>0. /\ t \in TimerStates /\ Passed(t, execute_cycles)
        /\ t.status \in {"prescale", "cascade"} /\ t.count \in Int
    BY <1>0, <1>2 DEF DoneBelow, TimerStates
  <2>a. /\ count \in Int /\ count + Period(t) > 0
        /\ t.status = "prescale" => InTime(t, execute_cycles) /\ count <= t.count
        /\ execute_cycles <= Period(t) \/ t.status # "prescale"
    <3>1. Period(t) \in Nat \ {0}
      BY <2>0, PeriodType
    <3> HIDE DEF t
    <3> QED
      BY <2>0, <3>1 DEF Passed, InTime
  <2>b. \A n \in Timers \ {k} : InTime(s.timer[n], execute_cycles)
    BY DEF DoneBelow
  <2>1. CASE count > 0
    <3> DEFINE c == [t EXCEPT !.count = count]
               f == [s.timer EXCEPT ![k] = c]
    <3>1. UpdateTimer(s, k) = [s EXCEPT !.timer[k].count = count]
      <4>1. count = Left(t)
        BY DEF Left
      <4> HIDE DEF count
      <4> QED
        BY <1>2, <2>1, <4>1, Zenon DEF UpdateTimer
    <3>2. c \in TimerStates /\ InTime(c, execute_cycles)
      <4> HIDE DEF t, count
      <4> QED
        BY <2>0, <2>1, <2>a, Counted
    <3>3. UpdateTimer(s, k) = [s EXCEPT !.timer = f]
      BY <3>1
    <3> HIDE DEF c, t, count
    <3>4. f \in [Timers -> TimerStates] /\ \A n \in Timers : f[n] = IF n = k THEN c ELSE s.timer[n]
      BY <1>0, <3>2 DEF Halfway
    <3> HIDE DEF f
    <3>5. UpdateTimer(s, k) \in Halfway /\ UpdateTimer(s, k).timer = f
      BY <1>0, <3>3, <3>4 DEF Halfway
    <3>6. \A n \in Timers : InTime(f[n], execute_cycles)
      BY <2>b, <3>2, <3>4
    <3>7. \A n \in Timers : InTime(f[n], execute_cycles) => Passed(f[n], execute_cycles)
      BY <3>4 DEF Passed, InTime, TimerStates
    <3> QED
      BY <3>5, <3>6, <3>7 DEF DoneBelow
  <2>2. CASE ~(count > 0)
    <3>1. UpdateTimer(s, k) = [timer |-> next, raised |-> fired]
      <4>1. count = Left(t)
        BY DEF Left
      <4>2. Overflowed(s, k) = [timer |-> next, raised |-> fired]
        BY DEF Overflowed, Left
      <4> HIDE DEF count, next, fired
      <4> QED
        BY <1>2, <2>2, <4>1, <4>2, Zenon DEF UpdateTimer
    <3>2. fired \in SUBSET (irq_raised \cup Irqs)
      BY <1>0, <1>2 DEF Halfway, Irqs
    <3>3. r \in TimerStates /\ InTime(r, execute_cycles)
      <4> HIDE DEF t, count
      <4> QED
        BY <2>0, <2>2, <2>a, Reloaded
    <3> HIDE DEF r, t, count, fired
    <3>4. ASSUME NEW n \in Timers PROVE next[n] \in TimerStates
      BY <1>0, <3>3 DEF TimerStates
    <3>5. ASSUME NEW n \in Timers \ {k + 1} PROVE InTime(next[n], execute_cycles)
      BY <2>b, <3>3
    <3>6. ASSUME k + 1 \in Timers PROVE Passed(next[k + 1], execute_cycles)
      <4> DEFINE d == s.timer[k + 1]
      <4>1. d \in TimerStates /\ InTime(d, execute_cycles)
        BY <1>0, <2>b, <3>6
      <4>2. d.status = "cascade" => next[k + 1] = [d EXCEPT !.count = @ - 1]
        BY <3>6
      <4>3. d.status # "cascade" => next[k + 1] = d
        BY <3>6
      <4> HIDE DEF d, next
      <4> QED
        BY <4>1, <4>2, <4>3 DEF Passed, InTime, TimerStates
    <3>7. next \in [Timers -> TimerStates]
      BY <3>4
    <3> HIDE DEF next
    <3>8. UpdateTimer(s, k) \in Halfway /\ UpdateTimer(s, k).timer = next
      BY <3>1, <3>2, <3>7 DEF Halfway
    <3> QED
      BY <3>5, <3>6, <3>8 DEF DoneBelow
  <2> QED
    BY <2>1, <2>2
<1> QED
  BY <1>1, <1>2

LEMMA TimersUpdated ==
  ASSUME Clock
  PROVE  /\ UpdateTimers.timer \in [Timers -> TimerStates]
         /\ \A n \in Timers : InTime(UpdateTimers.timer[n], execute_cycles)
<1> DEFINE s0 == [timer |-> timer, raised |-> irq_raised]
           s1 == UpdateTimer(s0, 0)
           s2 == UpdateTimer(s1, 1)
           s3 == UpdateTimer(s2, 2)
           s4 == UpdateTimer(s3, 3)
<1>0. execute_cycles \in Nat /\ \A n \in Timers : timer[n] \in TimerStates
  BY DEF Clock, SoundClock
<1>1. DoneBelow(s0, 0)
  <2>1. s0 \in Halfway
    BY DEF Clock, SoundClock, Halfway
  <2>2. \A n \in Timers : InTime(timer[n], execute_cycles)
    BY DEF Clock, SoundClock
  <2>3. \A n \in Timers : InTime(timer[n], execute_cycles) => Passed(timer[n], execute_cycles)
    BY <1>0 DEF Passed, InTime, TimerStates
  <2> QED
    BY <2>1, <2>2, <2>3 DEF DoneBelow
<1> HIDE DEF s0
<1>2. DoneBelow(s1, 1)
  BY <1>0, <1>1, UpdateTimerStep
<1> HIDE DEF s1
<1>3. DoneBelow(s2, 2)
  BY <1>0, <1>2, UpdateTimerStep
<1> HIDE DEF s2
<1>4. DoneBelow(s3, 3)
  BY <1>0, <1>3, UpdateTimerStep
<1> HIDE DEF s3
<1>5. DoneBelow(s4, 4)
  BY <1>0, <1>4, UpdateTimerStep
<1>6. UpdateTimers = s4
  BY DEF UpdateTimers, s0, s1, s2, s3
<1> HIDE DEF s4
<1>7. 4 \notin Timers
  BY FrameLoopAssumption
<1> QED
  BY <1>5, <1>6, <1>7 DEF DoneBelow, Halfway

(* check_timer: the next event is no later than that of timer n.           *)
LEMMA SoonerBounds ==
  ASSUME NEW t \in [Timers -> TimerStates], NEW n \in 0..3, NEW c \in Nat \ {0},
         \A k \in Timers : t[k].status = "prescale" => t[k].count > 0
  PROVE  /\ Sooner(t, n, c) \in 1..c
         /\ n \in Timers /\ t[n].status = "prescale" => Sooner(t, n, c) <= t[n].count
<1>1. CASE n \in Timers
  <2>1. t[n] \in TimerStates
    BY <1>1
  <2>2. t[n].count \in Int
    BY <2>1 DEF TimerStates
  <2> QED
    BY <1>1, <2>2 DEF Sooner
<1>2. CASE n \notin Timers
  BY <1>2 DEF Sooner
<1> QED
  BY <1>1, <1>2

LEMMA NextEventBounds ==
  ASSUME NEW t \in [Timers -> TimerStates], NEW video \in Nat \ {0},
         \A k \in Timers : t[k].status = "prescale" => t[k].count > 0
  PROVE  /\ NextEvent(t, video) \in 1..video
         /\ \A n \in Timers : t[n].status = "prescale" => NextEvent(t, video) <= t[n].count
<1> DEFINE c0 == Sooner(t, 0, video)
           c1 == Sooner(t, 1, c0)
           c2 == Sooner(t, 2, c1)
           c3 == Sooner(t, 3, c2)
<1>1. NextEvent(t, video) = c3
  BY DEF NextEvent
<1>2. c0 \in 1..video /\ (0 \in Timers /\ t[0].status = "prescale" => c0 <= t[0].count)
  BY SoonerBounds
<1> HIDE DEF c0
<1>3. c1 \in 1..c0 /\ (1 \in Timers /\ t[1].status = "prescale" => c1 <= t[1].count)
  BY <1>2, SoonerBounds
<1> HIDE DEF c1
<1>4. c2 \in 1..c1 /\ (2 \in Timers /\ t[2].status = "prescale" => c2 <= t[2].count)
  <2>1. c1 \in Nat \ {0}
    BY <1>2, <1>3
  <2> QED
    BY <2>1, SoonerBounds
<1> HIDE DEF c2
<1>5. c3 \in 1..c2 /\ (3 \in Timers /\ t[3].status = "prescale" => c3 <= t[3].count)
  <2>1. c2 \in Nat \ {0}
    BY <1>2, <1>3, <1>4
  <2> QED
    BY <2>1, SoonerBounds
<1> HIDE DEF c3
<1>6. c3 \in Nat /\ c0 \in Nat /\ c1 \in Nat /\ c2 \in Nat /\ c3 <= c2 /\ c2 <= c1 /\ c1 <= c0
  BY <1>2, <1>3, <1>4, <1>5
<1>7. ASSUME NEW n \in Timers, t[n].status = "prescale" PROVE c3 <= t[n].count
  <2>1. n \in 0..3
    BY FrameLoopAssumption
  <2>2. t[n].count \in Int
    BY DEF TimerStates
  <2>3. CASE n = 0
    BY <1>2, <1>6, <1>7, <2>2, <2>3
  <2>4. CASE n = 1
    BY <1>3, <1>6, <1>7, <2>2, <2>4
  <2>5. CASE n = 2
    BY <1>4, <1>6, <1>7, <2>2, <2>5
  <2>6. CASE n = 3
    BY <1>5, <1>7, <2>6
  <2> QED
    BY <2>1, <2>3, <2>4, <2>5, <2>6
<1>8. c3 \in 1..video
  BY <1>2, <1>3, <1>4, <1>5
<1> QED
  BY <1>1, <1>7, <1>8

(* A new slice, from timers that were right for the last one.              *)
LEMMA NewSlice ==
  ASSUME NEW t \in [Timers -> TimerStates], NEW cycles \in Nat, NEW video \in 1..HDraw,
         \A n \in Timers : InTime(t[n], cycles)
  PROVE  /\ SoundClock(t, NextEvent(t, video), video)
         /\ \A n \in Timers : t[n].status = "prescale" => NextEvent(t, video) <= t[n].count
<1> DEFINE e == NextEvent(t, video)
<1>1. video \in Nat \ {0} /\ HDraw \in Nat
  BY FrameLoopAssumption
<1>2. \A k \in Timers : t[k].status = "prescale" => t[k].count > 0
  BY DEF InTime
<1>3. e \in 1..video /\ \A n \in Timers : t[n].status = "prescale" => e <= t[n].count
  BY <1>1, <1>2, NextEventBounds
<1> HIDE DEF e
<1>4. ASSUME NEW n \in Timers PROVE InTime(t[n], e)
  <2>1. t[n] \in TimerStates /\ InTime(t[n], cycles)
    OBVIOUS
  <2>2. Period(t[n]) \in Nat /\ t[n].count \in Int
    BY <2>1, PeriodType DEF TimerStates
  <2>3. e \in Nat /\ e <= HDraw
    BY <1>1, <1>3
  <2> QED
    BY <1>1, <1>3, <2>1, <2>2, <2>3 DEF InTime
<1> QED
  BY <1>3, <1>4 DEF SoundClock, e

-----------------------------------------------------------------------------
LEMMA ClockInit == Init => ClockInv
<1> SUFFICES ASSUME Init PROVE ClockInv
  OBVIOUS
<1> USE FrameLoopAssumption
<1>1. NoTimer \in TimerStates /\ InTime(NoTimer, HDraw)
  BY DEF NoTimer, TimerStates, InTime
<1>2. timer \in [Timers -> TimerStates] /\ \A n \in Timers : timer[n] = NoTimer
  BY <1>1 DEF Init
<1>3. Clock
  BY <1>1, <1>2 DEF Init, Clock, SoundClock
<1>4. Fresh
  BY <1>2 DEF Fresh, NoTimer
<1>5. SavedClocks
  BY DEF Init, NoSnap, SavedClocks
<1> QED
  BY <1>3, <1>4, <1>5 DEF ClockInv

(* The game's writes to one timer.                                         *)
LEMMA TimerWritten ==
  ASSUME ClockInv, NEW n \in Timers, NEW t \in TimerStates, NEW cycles \in 1..execute_cycles,
         timer' = [timer EXCEPT ![n] = t], execute_cycles' = cycles,
         InTime(t, cycles),
         Fresh => (~stale => (t.status = "prescale" => cycles <= t.count)),
         at = "code", UNCHANGED <<at, stale, snap, video_count>>
  PROVE  ClockInv'
<1>1. /\ timer \in [Timers -> TimerStates] /\ \A k \in Timers : InTime(timer[k], execute_cycles)
      /\ video_count \in 1..HDraw /\ execute_cycles \in 1..video_count
  BY DEF ClockInv, Clock, SoundClock
<1>2. /\ timer' \in [Timers -> TimerStates]
      /\ \A k \in Timers : timer'[k] = IF k = n THEN t ELSE timer[k]
  BY <1>1
<1>3. ASSUME NEW k \in Timers PROVE InTime(timer'[k], cycles)
  <2>1. timer[k] \in TimerStates /\ InTime(timer[k], execute_cycles)
    BY <1>1
  <2>2. Period(timer[k]) \in Nat
    BY <2>1, PeriodType
  <2>3. cycles \in Nat /\ execute_cycles \in Nat /\ cycles <= execute_cycles
    BY <1>1
  <2>4. InTime(timer[k], cycles)
    BY <2>1, <2>2, <2>3 DEF InTime
  <2> QED
    BY <1>2, <2>4
<1>4. video_count \in 1..HDraw /\ cycles \in 1..video_count
  BY <1>1
<1>5. Clock'
  BY <1>2, <1>3, <1>4 DEF Clock, SoundClock
<1>6. Fresh'
  <2> SUFFICES ASSUME ~stale, NEW k \in Timers, timer'[k].status = "prescale"
               PROVE  cycles <= timer'[k].count
    BY DEF Fresh
  <2>1. CASE k = n
    BY <1>2, <2>1 DEF ClockInv
  <2>2. CASE k # n
    <3>1. timer'[k] = timer[k] /\ timer[k] \in TimerStates
      BY <1>1, <1>2, <2>2
    <3>2. execute_cycles <= timer[k].count
      BY <3>1 DEF ClockInv, Fresh
    <3>3. timer[k].count \in Int
      BY <3>1 DEF TimerStates
    <3> QED
      BY <1>1, <3>1, <3>2, <3>3
  <2> QED
    BY <2>1, <2>2
<1>7. SavedClocks'
  BY DEF ClockInv, SavedClocks
<1> QED
  BY <1>5, <1>6, <1>7 DEF ClockInv

LEMMA ClockGame == ClockInv /\ (Game \/ SliceEnds) => ClockInv'
<1> SUFFICES ASSUME ClockInv, Game \/ SliceEnds PROVE ClockInv'
  OBVIOUS
<1> USE FrameLoopAssumption
<1> USE DEF InCode, LoopVars, machine
<1>0. /\ timer \in [Timers -> TimerStates] /\ \A k \in Timers : InTime(timer[k], execute_cycles)
      /\ video_count \in 1..HDraw /\ execute_cycles \in 1..video_count
  BY DEF ClockInv, Clock, SoundClock
<1>1. ASSUME NEW n \in Timers, StartTimer(n) PROVE ClockInv'
  <2>0. at = "code" /\ UNCHANGED <<at, stale, snap, video_count>> /\ timer[n] \in TimerStates
    BY <1>0, <1>1 DEF StartTimer
  <2>1. PICK setup \in TimerSetups :
          /\ timer' = [timer EXCEPT ![n] =
               [status |-> setup.status, count |-> timer[n].reload * setup.prescale,
                reload |-> timer[n].reload, prescale |-> setup.prescale, irq |-> setup.irq]]
          /\ execute_cycles' = SliceWith(timer[n].reload * setup.prescale)
    BY <1>0, <1>1 DEF StartTimer
  <2> DEFINE count == timer[n].reload * setup.prescale
             t == [status |-> setup.status, count |-> count, reload |-> timer[n].reload,
                   prescale |-> setup.prescale, irq |-> setup.irq]
             e == SliceWith(count)
  <2>2. /\ timer[n].reload \in Nat \ {0} /\ setup.prescale \in Nat \ {0}
        /\ setup.status \in {"prescale", "cascade"} /\ setup.irq \in BOOLEAN
    <3>1. setup \in [status : {"prescale", "cascade"}, prescale : Nat \ {0}, irq : BOOLEAN]
      OBVIOUS
    <3> QED
      BY <2>0, <3>1 DEF TimerStates
  <2>3. count \in Nat \ {0}
    BY <2>2, Product
  <2>4. e \in 1..execute_cycles /\ e <= count
    <3> HIDE DEF count
    <3> QED
      BY <1>0, <2>3 DEF SliceWith
  <2>5. t \in TimerStates /\ Period(t) = count
    <3>1. Period(t) = count
      BY DEF Period
    <3> HIDE DEF count
    <3> QED
      BY <2>2, <2>3, <3>1 DEF TimerStates
  <2>6. t.count = count /\ execute_cycles' = e /\ timer' = [timer EXCEPT ![n] = t]
    BY <2>1
  <2> HIDE DEF count, t, e
  <2>7. InTime(t, e)
    BY <2>3, <2>4, <2>5, <2>6 DEF InTime
  <2> QED
    BY <2>0, <2>4, <2>5, <2>6, <2>7, TimerWritten
<1>2. ASSUME NEW n \in Timers, StopTimer(n) PROVE ClockInv'
  <2> DEFINE t == [timer[n] EXCEPT !.status = "inactive"]
  <2>0. /\ at = "code" /\ UNCHANGED <<at, stale, snap, video_count, execute_cycles>>
        /\ timer[n] \in TimerStates
    BY <1>0, <1>2 DEF StopTimer
  <2>1. timer' = [timer EXCEPT ![n] = t]
    BY <1>0, <1>2 DEF StopTimer
  <2>2. t \in TimerStates /\ t.status = "inactive"
    BY <2>0 DEF TimerStates
  <2> HIDE DEF t
  <2>3. InTime(t, execute_cycles)
    BY <2>2 DEF InTime
  <2>4. execute_cycles \in 1..execute_cycles
    BY <1>0
  <2> QED
    BY <2>0, <2>1, <2>2, <2>3, <2>4, TimerWritten
<1>3. ASSUME NEW n \in Timers, SetReload(n) PROVE ClockInv'
  <2>0. /\ at = "code" /\ UNCHANGED <<at, stale, snap, video_count, execute_cycles>>
        /\ timer[n] \in TimerStates /\ InTime(timer[n], execute_cycles)
    BY <1>0, <1>3 DEF SetReload
  <2>1. PICK r \in Reloads :
          KeepsPace(timer[n], r) /\ timer' = [timer EXCEPT ![n].reload = r]
    BY <1>3 DEF SetReload
  <2> DEFINE t == [timer[n] EXCEPT !.reload = r]
  <2>2. timer' = [timer EXCEPT ![n] = t]
    BY <1>0, <2>1
  <2>3. r \in Nat \ {0} /\ timer[n].reload \in Nat \ {0} /\ timer[n].prescale \in Nat \ {0}
    <3>1. r \in 1..FullReload /\ FullReload \in Nat
      OBVIOUS
    <3>2. timer[n].reload \in Nat \ {0} /\ timer[n].prescale \in Nat \ {0}
      BY <2>0 DEF TimerStates
    <3> QED
      BY <3>1, <3>2
  <2>4. /\ t \in TimerStates /\ t.reload = r /\ t.prescale = timer[n].prescale
        /\ t.status = timer[n].status /\ t.count = timer[n].count
    BY <2>0, <2>3 DEF TimerStates
  <2> HIDE DEF t
  <2>5. Period(t) \in Nat /\ Period(timer[n]) \in Nat /\ r <= Period(t) /\ t.count \in Int
    BY <2>0, <2>4, PeriodType DEF TimerStates
  <2>6. r >= timer[n].reload => Period(timer[n]) <= Period(t)
    BY <2>3, <2>4, ProductGrows DEF Period
  <2>7. InTime(t, execute_cycles)
    <3>1. CASE t.status = "prescale"
      <4>1. r >= HDraw \/ r >= timer[n].reload
        BY <2>1, <2>4, <3>1 DEF KeepsPace
      <4>2. CASE r >= HDraw
        BY <1>0, <2>0, <2>3, <2>4, <2>5, <4>2 DEF InTime
      <4>3. CASE r >= timer[n].reload
        BY <1>0, <2>0, <2>4, <2>5, <2>6, <4>3 DEF InTime
      <4> QED
        BY <4>1, <4>2, <4>3
    <3>2. CASE t.status # "prescale"
      BY <2>0, <2>4, <3>2 DEF InTime
    <3> QED
      BY <3>1, <3>2
  <2>8. execute_cycles \in 1..execute_cycles
    BY <1>0
  <2>9. Fresh => (~stale => (t.status = "prescale" => execute_cycles <= t.count))
    BY <2>0, <2>4 DEF Fresh
  <2> QED
    BY <2>0, <2>2, <2>4, <2>7, <2>8, <2>9, TimerWritten
<1>4. CASE UNCHANGED <<timer, execute_cycles, video_count, stale, snap>>
  <2>1. at = "code"
    BY DEF Game, StartTimer, StopTimer, SetReload, WriteDispstat, WriteIE, WriteIME,
           Acknowledge, WriteCPSR, StartDma, StopDma, Halt, SliceEnds
  <2> QED
    BY <1>4, <2>1 DEF ClockInv, Clock, SavedClocks, Fresh
<1>5. ~(\E n \in Timers : StartTimer(n) \/ StopTimer(n) \/ SetReload(n))
        => UNCHANGED <<timer, execute_cycles, video_count, stale, snap>>
  BY DEF Game, WriteDispstat, WriteIE, WriteIME, Acknowledge, WriteCPSR, StartDma, StopDma,
         Halt, SliceEnds, Enters
<1> QED
  BY <1>1, <1>2, <1>3, <1>4, <1>5

(* The end of an iteration starts a new slice.                             *)
LEMMA ClockFinish ==
  ASSUME NEW i, NEW c, NEW t \in [Timers -> TimerStates], NEW video \in 1..HDraw, NEW S,
         \A n \in Timers : InTime(t[n], execute_cycles), execute_cycles \in Nat,
         SavedClocks, snap' = snap, Finish(i, c, t, video, S)
  PROVE  ClockInv'
<1>1. timer' = t /\ video_count' = video /\ execute_cycles' = NextEvent(t, video)
  BY DEF Finish
<1>2. /\ SoundClock(t, NextEvent(t, video), video)
      /\ \A n \in Timers : t[n].status = "prescale" => NextEvent(t, video) <= t[n].count
  BY NewSlice
<1>3. Clock' /\ Fresh'
  BY <1>1, <1>2 DEF Clock, Fresh
<1>4. SavedClocks'
  BY DEF SavedClocks
<1> QED
  BY <1>3, <1>4 DEF ClockInv

LEMMA ClockUpdate == ClockInv /\ UpdateGba => ClockInv'
<1> SUFFICES ASSUME ClockInv, UpdateGba PROVE ClockInv'
  OBVIOUS
<1> USE FrameLoopAssumption
<1> DEFINE u == UpdateTimers
<1>0. /\ timer \in [Timers -> TimerStates] /\ \A k \in Timers : InTime(timer[k], execute_cycles)
      /\ video_count \in 1..HDraw /\ execute_cycles \in 1..video_count
      /\ SavedClocks /\ execute_cycles \in Nat
  BY DEF ClockInv, Clock, SoundClock
<1>1. /\ u.timer \in [Timers -> TimerStates]
      /\ \A n \in Timers : InTime(u.timer[n], execute_cycles)
  BY TimersUpdated DEF ClockInv
<1> HIDE DEF u
<1>2. VideoLeft \in 0..HDraw /\ (VideoLeft <= 0 => VideoLeft = 0)
  BY <1>0 DEF VideoLeft
<1>3. CASE TimersOnly
  <2>1. PICK i, c, S : Finish(i, c, u.timer, VideoLeft, S)
    BY <1>3 DEF TimersOnly, u
  <2>2. VideoLeft \in 1..HDraw /\ snap' = snap
    BY <1>2, <1>3 DEF TimersOnly
  <2> QED
    BY <1>0, <1>1, <2>1, <2>2, ClockFinish
<1>4. CASE HBlankStarts
  <2>1. PICK i, c, S : Finish(i, c, u.timer, VideoLeft + HBlank, S)
    BY <1>4 DEF HBlankStarts, u
  <2>2. VideoLeft + HBlank \in 1..HDraw /\ snap' = snap
    BY <1>2, <1>4 DEF HBlankStarts
  <2> QED
    BY <1>0, <1>1, <2>1, <2>2, ClockFinish
<1>5. CASE NextLine
  <2>1. PICK i, c, S : Finish(i, c, u.timer, VideoLeft + HDraw, S)
    BY <1>5 DEF NextLine, u
  <2>2. VideoLeft + HDraw \in 1..HDraw /\ snap' = snap
    BY <1>2, <1>5 DEF NextLine
  <2> QED
    BY <1>0, <1>1, <2>1, <2>2, ClockFinish
<1>6. CASE FrameEnds
  <2>1. /\ at' = "check" /\ timer' = u.timer /\ video_count' = HDraw
        /\ UNCHANGED <<execute_cycles, snap, stale>>
    BY <1>2, <1>6 DEF FrameEnds, u
  <2>2. Clock'
    BY <1>0, <1>1, <2>1 DEF Clock, SoundClock
  <2> QED
    BY <1>0, <2>1, <2>2 DEF ClockInv, SavedClocks, Fresh
<1>7. CASE Restarted
  BY <1>7 DEF Restarted, Continue, machine, ClockInv, Clock, SavedClocks, Fresh
<1>8. CASE NextFrame
  <2>1. PICK i, c : \/ Continue /\ UNCHANGED <<timer, execute_cycles, video_count>>
                    \/ \E S : Finish(i, c, timer, video_count, S)
    BY <1>8 DEF NextFrame
  <2>2. snap' = snap
    BY <1>8 DEF NextFrame
  <2>3. CASE Continue /\ UNCHANGED <<timer, execute_cycles, video_count>>
    BY <2>2, <2>3 DEF Continue, ClockInv, Clock, SavedClocks, Fresh
  <2>4. CASE \E S : Finish(i, c, timer, video_count, S)
    BY <1>0, <2>2, <2>4, ClockFinish
  <2> QED
    BY <2>1, <2>3, <2>4
<1> QED
  BY <1>3, <1>4, <1>5, <1>6, <1>7, <1>8 DEF UpdateGba

(* The UI thread: what it puts in the place of the machine has a clock     *)
(* that was right at the end of some frame.                                *)
LEMMA ClockUi == ClockInv /\ Ui => ClockInv'
<1> SUFFICES ASSUME ClockInv, Ui PROVE ClockInv'
  OBVIOUS
<1> USE FrameLoopAssumption
<1> USE DEF UiVars, machine
<1>0. at = "check" /\ at' = "check"
  BY DEF Ui, Reset, SaveState, LoadState, LoadFails
<1>a. Fresh'
  BY <1>0 DEF Fresh
<1>1. CASE Reset
  <2>1. ASSUME NEW n \in Timers
        PROVE  timer'[n] \in TimerStates /\ timer'[n].status = "inactive"
    <3>1. timer[n] \in TimerStates
      BY DEF ClockInv, Clock, SoundClock
    <3>2. timer'[n] = [timer[n] EXCEPT !.status = "inactive", !.reload = FullReload]
      BY <1>1 DEF Reset
    <3> QED
      BY <3>1, <3>2 DEF TimerStates
  <2>2. timer' = [n \in Timers |-> timer'[n]]
    BY <1>1 DEF Reset
  <2>3. timer' \in [Timers -> TimerStates]
    BY <2>1, <2>2
  <2>4. \A n \in Timers : InTime(timer'[n], execute_cycles')
    BY <2>1 DEF InTime
  <2>5. execute_cycles' = HDraw /\ video_count' = HDraw /\ snap' = snap
    BY <1>1 DEF Reset
  <2> QED
    BY <1>a, <2>3, <2>4, <2>5 DEF ClockInv, Clock, SoundClock, SavedClocks
<1>2. ASSUME NEW s \in Slots, SaveState(s) PROVE ClockInv'
  <2>1. /\ DOMAIN snap' = Slots
        /\ \A k \in Slots \ {s} : snap'[k] = snap[k]
        /\ snap'[s].timer = timer /\ snap'[s].execute_cycles = execute_cycles
        /\ snap'[s].video_count = video_count
    BY <1>2 DEF SaveState, ClockInv, SavedClocks
  <2>2. SavedClocks'
    <3> SUFFICES ASSUME NEW k \in Slots, snap'[k].saved
                 PROVE  SoundClock(snap'[k].timer, snap'[k].execute_cycles, snap'[k].video_count)
      BY <2>1 DEF SavedClocks
    <3> QED
      BY <2>1 DEF ClockInv, Clock, SavedClocks
  <2> QED
    BY <1>2, <1>a, <2>2 DEF SaveState, ClockInv, Clock
<1>3. ASSUME NEW s \in Slots, LoadState(s) PROVE ClockInv'
  BY <1>3, <1>a DEF LoadState, ClockInv, Clock, SavedClocks
<1>4. ASSUME NEW s \in Slots, LoadFails(s) PROVE ClockInv'
  BY <1>4, <1>a DEF LoadFails, ClockInv, Clock, SavedClocks
<1> QED
  BY <1>1, <1>2, <1>3, <1>4 DEF Ui

LEMMA ClockInvariance == Spec => []ClockInv
<1>1. ClockInv /\ [Next]_vars => ClockInv'
  <2>1. CASE Next
    BY <2>1, ClockGame, ClockUpdate, ClockUi DEF Next
  <2>2. CASE UNCHANGED vars
    BY <2>2 DEF vars, machine, ClockInv, Clock, SavedClocks, Fresh
  <2> QED
    BY <2>1, <2>2
<1> QED
  BY <1>1, ClockInit, PTL DEF Spec

(* However the game starts, stops and reloads its timers, and whenever a   *)
(* frame ends in a reset or a savestate: no slice runs past the end of the *)
(* display's phase, and none that update_gba computed past an overflow.    *)
THEOREM SliceTheorem == Spec => []SliceEndsInTime
<1>1. ClockInv => SliceEndsInTime
  BY DEF ClockInv, Clock, SoundClock, Fresh, SliceEndsInTime
<1> QED
  BY <1>1, ClockInvariance, PTL

(* No timer is left behind, although the slice after a "continue" was      *)
(* computed from other counts.                                             *)
THEOREM TimersTheorem == Spec => []TimersKeepUp
<1>1. ClockInv => TimersKeepUp
  BY DEF ClockInv, Clock, SoundClock, InTime, Counting, TimersKeepUp
<1> QED
  BY <1>1, ClockInvariance, PTL
=============================================================================
