------------------------------ MODULE CpuModes ------------------------------
(***************************************************************************)
(* The guest's registers under the dynamic recompiler. They lie in the     *)
(* array reg, those of the current mode only: set_cpu_mode (cpu.c) swaps   *)
(* r13 and r14, and r8 to r14 for FIQ mode, with the banks in reg_mode.    *)
(* Translated code keeps six of them in host registers meanwhile, others   *)
(* in ARM than in Thumb code (arm_stub.S), and the condition flags in a    *)
(* seventh. Each stub that calls C code stores and loads them around the   *)
(* call; interrupts, SWI, MSR and the return from an exception change mode *)
(* there.                                                                  *)
(*                                                                         *)
(* Of the host registers reg_x5 is modelled, which is r14 in ARM and r5 in *)
(* Thumb code; r8 stands for r8 to r12, and a word for any value or        *)
(* address. An action is a guest instruction with the stubs it goes        *)
(* through, or the end of a slice. Which interrupt is pending, and whether *)
(* IE and IME let it through, is FrameLoop's affair: pending is an input.  *)
(*                                                                         *)
(* The guest keeps to what the machine was made for: interrupts stay       *)
(* masked in IRQ and FIQ mode, no SWI is executed in supervisor or FIQ     *)
(* mode, FIQ mode is left for the mode it was entered from, and an         *)
(* exception is returned from only where one saved its status. Two more    *)
(* habits the code relies on, and real games may not have, are constants:  *)
(* DmaInterrupts and LossyStores.                                          *)
(***************************************************************************)
CONSTANTS
  Words,           \* values of a register
  Zero, Stack,     \* 0, and where init_cpu puts the stacks
  Unset,           \* a saved status nothing was saved to
  GuestModes,      \* modes the guest gives itself
  DmaInterrupts,   \* whether transfers started by a store interrupt the guest
  LossyStores      \* whether an MSR leaves out a field that the stubs then lose

ASSUME CpuModesAssumption ==
  /\ Zero \in Words /\ Stack \in Words
  /\ DmaInterrupts \in BOOLEAN /\ LossyStores \in BOOLEAN
  /\ GuestModes \subseteq {"user", "irq", "fiq", "supervisor", "abort", "undefined"}

Modes == {"user", "irq", "fiq", "supervisor", "abort", "undefined"}
Registers == {"r5", "r8", "sp", "lr"}
Banked == {"r8", "sp", "lr"}
Psrs == [mode : Modes, masked : BOOLEAN, thumb : BOOLEAN, nzcv : Words]
Fields == {"c", "f"}   \* of a status: the control bits, the flags

VARIABLES
  reg,        \* reg[]
  mode,       \* reg[CPU_MODE]
  cpsr,       \* reg[REG_CPSR]; its flags are old while code runs
  reg_mode,   \* the banks
  spsr,
  reg_x5,     \* host registers
  reg_flags,
  entered,    \* history: the mode FIQ mode was entered from
  named       \* history: the fields the last instruction named, if an MSR

vars == <<reg, mode, cpsr, reg_mode, spsr, reg_x5, reg_flags, entered, named>>

-----------------------------------------------------------------------------
(* The machine in memory, as the C code sees it. *)
(* store_registers_arm and store_registers_thumb *)
Stored(thumb) == [reg EXCEPT ![IF thumb THEN "r5" ELSE "lr"] = reg_x5]

(* collapse_flags *)
Collapsed == [cpsr EXCEPT !.nzcv = reg_flags]

Machine(r, p) == [reg |-> r, mode |-> mode, cpsr |-> p, reg_mode |-> reg_mode, spsr |-> spsr]

(* A bug: the registers of ARM code are loaded whichever code resumes. *)
LoadedArm(m) == m.reg["lr"]

(* load_registers_arm, load_registers_thumb *)
Loaded(m) == IF m.cpsr.thumb THEN m.reg["r5"] ELSE m.reg["lr"]

Resumes(m) ==
  /\ reg' = m.reg /\ mode' = m.mode /\ cpsr' = m.cpsr
  /\ reg_mode' = m.reg_mode /\ spsr' = m.spsr
  /\ reg_x5' = Loaded(m)
  /\ entered' = IF m.mode = "fiq" /\ mode # "fiq" THEN mode ELSE entered

Swapped(m) == IF m = "fiq" THEN Banked ELSE {"sp", "lr"}

(* set_cpu_mode: entering FIQ mode retires r8 to r14 and loads two of      *)
(* them, leaving it retires two and loads r8 to r14.                       *)
SetCpuMode(new, m) ==
  IF m.mode = new THEN m
  ELSE LET banks == [m.reg_mode EXCEPT ![m.mode] =
                       [r \in Banked |-> IF r \in Swapped(new) THEN m.reg[r] ELSE @[r]]] IN
       [m EXCEPT !.mode = new,
                 !.reg_mode = banks,
                 !.reg = [r \in Registers |-> IF r \in Swapped(m.mode) THEN banks[new][r] ELSE @[r]]]

(* What raise_interrupt, check_for_interrupts and execute_store_cpsr_body *)
(* do alike. The return address goes to the bank set_cpu_mode loads.      *)
IrqStatus == [mode |-> "irq", masked |-> TRUE, thumb |-> FALSE, nzcv |-> Zero]

Interrupted(m, link) ==
  SetCpuMode("irq", [m EXCEPT !.reg_mode["irq"]["lr"] = link,
                              !.spsr["irq"] = m.cpsr,
                              !.cpsr = IrqStatus])

Interruptible(m, pending, link) ==
  IF pending /\ ~m.cpsr.masked THEN Interrupted(m, link) ELSE m

(* What the guest may make its status. *)
Proper(p) == p.mode \in {"irq", "fiq"} => p.masked
Statuses == {p \in Psrs : p.mode \in GuestModes /\ Proper(p)}
LeavesFiq(p) == mode = "fiq" => p.mode \in {"fiq", entered}

-----------------------------------------------------------------------------
(* Translated code works on the host register where a register has one. *)
Write(r, w) ==
  /\ IF r = (IF cpsr.thumb THEN "r5" ELSE "lr")
     THEN reg_x5' = w /\ UNCHANGED reg
     ELSE reg' = [reg EXCEPT ![r] = w] /\ UNCHANGED reg_x5
  /\ UNCHANGED <<mode, cpsr, reg_mode, spsr, reg_flags, entered>>

Compare(w) ==
  /\ reg_flags' = w
  /\ UNCHANGED <<reg, mode, cpsr, reg_mode, spsr, reg_x5, entered>>

(* BX to the other instruction set: arm_indirect_branch_dual. *)
Exchange ==
  /\ Resumes(Machine(Stored(cpsr.thumb), [cpsr EXCEPT !.thumb = ~@]))
  /\ UNCHANGED reg_flags

(* The end of a slice, and a halt: update_gba with all of it stored. The   *)
(* flags stay in the host register; where an interrupt is taken they are   *)
(* left to its handler.                                                    *)
Slice(pending, link) ==
  /\ Resumes(Interruptible(Machine(Stored(cpsr.thumb), Collapsed), pending, link))
  /\ UNCHANGED reg_flags

(* A store to DMA control that moves the data at once and asks for an      *)
(* interrupt: dma_transfer raises it within the store, when only the pc    *)
(* has been written back, and write_epilogue then stores the host          *)
(* registers, as those of the instruction set the handler is in.           *)
DmaStore(pending, link) ==
  LET raised == Interruptible(Machine(reg, cpsr), pending, link)
      inArm  == ~raised.cpsr.thumb
  IN
  /\ cpsr.masked \/ ~pending \/ DmaInterrupts
  /\ Resumes([raised EXCEPT !.cpsr.nzcv = reg_flags,
                            !.reg[IF inArm THEN "lr" ELSE "r5"] = reg_x5])
  /\ UNCHANGED reg_flags

(* What psr_masks makes of an MSR that names these fields, and the merging *)
(* of its operand with the old status.                                     *)
Merged(p, fields, old) ==
  LET control == IF "c" \in fields THEN p ELSE old
      flags   == IF "f" \in fields THEN p ELSE old
  IN  [control EXCEPT !.nzcv = flags.nzcv]

(* MSR CPSR: execute_store_cpsr. The old status is that of memory, and the *)
(* flags merged replace those of the host register: where the MSR leaves   *)
(* out the flags, the guest gets the ones last stored. Only with the       *)
(* control bits in the mask is the mode set and an interrupt looked for.   *)
StoreCpsr(fields, new, pending, link) ==
  LET m == Machine(Stored(FALSE), new) IN
  /\ ~cpsr.thumb /\ ~new.thumb /\ LeavesFiq(new)
  /\ "f" \in fields \/ cpsr.nzcv = reg_flags \/ LossyStores
  /\ Resumes(IF "c" \in fields
             THEN Interruptible(SetCpuMode(new.mode, m), pending, link) ELSE m)
  /\ reg_flags' = new.nzcv

(* MSR SPSR: execute_store_spsr stores all of it, whatever the mask. *)
StoreSpsr(fields, p) ==
  /\ ~cpsr.thumb /\ mode # "user"
  /\ fields = Fields \/ LossyStores
  /\ spsr' = [spsr EXCEPT ![mode] = p]
  /\ UNCHANGED <<reg, mode, cpsr, reg_mode, reg_x5, reg_flags, entered>>

(* The return from an exception, MOVS or SUBS to pc: execute_spsr_restore. *)
SpsrRestore(pending, link) ==
  LET p == spsr[mode] IN
  /\ ~cpsr.thumb /\ p # Unset
  /\ LeavesFiq(p)
  /\ Resumes(Interruptible(SetCpuMode(p.mode, Machine(Stored(FALSE), p)), pending, link))
  /\ reg_flags' = p.nzcv

(* execute_swi: interrupts stay as they are. *)
Swi(link) ==
  LET now == Collapsed
      m   == Machine(Stored(cpsr.thumb), [now EXCEPT !.mode = "supervisor", !.thumb = FALSE])
  IN
  /\ mode \notin {"supervisor", "fiq"}
  /\ Resumes(SetCpuMode("supervisor",
               [m EXCEPT !.reg_mode["supervisor"]["lr"] = link, !.spsr["supervisor"] = now]))
  /\ UNCHANGED reg_flags

(* init_cpu, while update_gba waits in check_paused: the stub it returns   *)
(* to loads the new registers, and goes on with the flags of before.       *)
StartPsr == [mode |-> "user", masked |-> FALSE, thumb |-> FALSE, nzcv |-> Zero]
StartReg == [r \in Registers |-> IF r = "sp" THEN Stack ELSE Zero]
Stacked == {"user", "irq", "fiq", "supervisor"}

Reset ==
  /\ reg' = StartReg /\ mode' = "user" /\ cpsr' = StartPsr
  /\ reg_mode' = [m \in Modes |-> IF m \in Stacked THEN [reg_mode[m] EXCEPT !["sp"] = Stack]
                                  ELSE reg_mode[m]]
  /\ reg_x5' = Zero
  /\ UNCHANGED <<spsr, reg_flags, entered>>

-----------------------------------------------------------------------------
(* init_cpu, and the start of execute_arm_translate. *)
Init ==
  /\ reg = StartReg /\ mode = "user" /\ cpsr = StartPsr
  /\ reg_mode = [m \in Modes |-> [r \in Banked |-> IF r = "sp" /\ m \in Stacked THEN Stack ELSE Zero]]
  /\ spsr = [m \in Modes |-> Unset]
  /\ reg_x5 = Zero /\ reg_flags = Zero
  /\ entered = "user" /\ named = {}

Instruction ==
  \/ \E w \in Words : Compare(w) \/ \E r \in Registers : Write(r, w)
  \/ Exchange

Call ==
  \E pending \in BOOLEAN, link \in Words :
    \/ Slice(pending, link)
    \/ DmaStore(pending, link)
    \/ SpsrRestore(pending, link)
    \/ Swi(link)

Msr(fields) ==
  \/ \E p \in Statuses : StoreSpsr(fields, p)
  \/ \E new \in {Merged(p, fields, cpsr) : p \in Statuses}, pending \in BOOLEAN, link \in Words :
       StoreCpsr(fields, new, pending, link)

Next ==
  \/ (Instruction \/ Call \/ Reset) /\ named' = {}
  \/ \E fields \in SUBSET Fields \ {{}} : Msr(fields) /\ named' = fields

Spec == Init /\ [][Next]_vars

-----------------------------------------------------------------------------
(* The type of the state; the mode the banks are switched to is that of    *)
(* the CPSR (set_cpu_mode, execute_store_cpsr_body).                       *)
MachineOK ==
  /\ reg \in [Registers -> Words]
  /\ mode \in Modes /\ cpsr \in Psrs /\ cpsr.mode = mode /\ Proper(cpsr)
  /\ reg_mode \in [Modes -> [Banked -> Words]]
  /\ spsr \in [Modes -> Psrs \cup {Unset}]
  /\ \A m \in Modes : spsr[m] # Unset => Proper(spsr[m])
  /\ reg_x5 \in Words /\ reg_flags \in Words
  /\ entered \in Modes \ {"fiq"}

TypeOK == MachineOK /\ named \subseteq Fields

(* What the guest sees as its registers while its code runs. *)
GuestR5 == IF cpsr.thumb THEN reg_x5 ELSE reg["r5"]
GuestR8 == IF mode = "fiq" THEN reg_mode[entered]["r8"] ELSE reg["r8"]
BankOf(m) ==
  [x \in Modes |-> IF x = m.mode THEN [sp |-> m.reg["sp"], lr |-> m.reg["lr"]]
                   ELSE [sp |-> m.reg_mode[x]["sp"], lr |-> m.reg_mode[x]["lr"]]]
GuestBank == BankOf(Machine(Stored(cpsr.thumb), cpsr))

Registry == INSTANCE BankedRegisters WITH
  psr <- Collapsed, r5 <- GuestR5, r8 <- GuestR8, bank <- GuestBank

(* The guest's registers behave as an ARM's: interrupts, SWIs and returns  *)
(* between any modes and both instruction sets lose no register of the     *)
(* interrupted code and come back with its status, and an MSR changes the  *)
(* fields it names and no others, wherever reg, reg_mode (set_cpu_mode)    *)
(* and the host registers (the stubs) hold them meanwhile. So it is as     *)
(* long as the guest neither lets a store interrupt it (DmaInterrupts) nor *)
(* leaves fields out of an MSR that are stale in memory (LossyStores).     *)
RegistersBanked == Registry!Spec

(* An interrupt saves the flags of the code it comes in: "interrupt needs  *)
(* current flags" (arm_stub.S:590).                                        *)
InterruptSeesFlags ==
  [][spsr'["irq"] # spsr["irq"] /\ mode # "irq" => spsr'["irq"].nzcv = reg_flags']_vars
=============================================================================
