--------------------------- MODULE CpuModes_proofs --------------------------
(***************************************************************************)
(* The swapping of registers by set_cpu_mode and the storing and loading   *)
(* of the host registers implement banked registers, for any values and    *)
(* any modes the guest uses.                                               *)
(***************************************************************************)
EXTENDS CpuModes, TLAPS

Machines ==
  [reg : [Registers -> Words], mode : Modes, cpsr : Psrs,
   reg_mode : [Modes -> [Banked -> Words]], spsr : [Modes -> Psrs \cup {Unset}]]

(* A machine is consistent when its banks are switched as its status says. *)
Sound(m) ==
  /\ m \in Machines /\ m.cpsr.mode = m.mode /\ Proper(m.cpsr)
  /\ \A x \in Modes : m.spsr[x] # Unset => Proper(m.spsr[x])

-----------------------------------------------------------------------------
(* set_cpu_mode changes the mode and no register of any mode. *)
LEMMA SwitchTypes ==
  ASSUME NEW m \in Machines, NEW new \in Modes
  PROVE  /\ SetCpuMode(new, m) \in Machines
         /\ SetCpuMode(new, m).mode = new
         /\ SetCpuMode(new, m).cpsr = m.cpsr
         /\ SetCpuMode(new, m).spsr = m.spsr
         /\ SetCpuMode(new, m).reg["r5"] = m.reg["r5"]
<1>1. CASE m.mode = new
  BY <1>1 DEF SetCpuMode
<1>2. CASE m.mode # new
  <2> DEFINE banks == [m.reg_mode EXCEPT ![m.mode] =
                 [r \in Banked |-> IF r \in Swapped(new) THEN m.reg[r] ELSE @[r]]]
             regs == [r \in Registers |-> IF r \in Swapped(m.mode) THEN banks[new][r] ELSE m.reg[r]]
  <2>1. banks \in [Modes -> [Banked -> Words]]
    BY DEF Machines, Banked, Registers
  <2>2. regs \in [Registers -> Words] /\ regs["r5"] = m.reg["r5"]
    BY <2>1 DEF Machines, Banked, Registers, Swapped
  <2>3. SetCpuMode(new, m) = [m EXCEPT !.mode = new, !.reg_mode = banks, !.reg = regs]
    BY <1>2 DEF SetCpuMode, Machines
  <2> HIDE DEF banks, regs
  <2> QED BY <2>1, <2>2, <2>3 DEF Machines
<1> QED BY <1>1, <1>2

LEMMA SwitchKeepsBanks ==
  ASSUME NEW m \in Machines, NEW new \in Modes
  PROVE  BankOf(SetCpuMode(new, m)) = BankOf(m)
<1>1. CASE m.mode = new
  BY <1>1 DEF SetCpuMode
<1>2. CASE m.mode # new
  <2> DEFINE banks == [m.reg_mode EXCEPT ![m.mode] =
                 [r \in Banked |-> IF r \in Swapped(new) THEN m.reg[r] ELSE @[r]]]
             regs == [r \in Registers |-> IF r \in Swapped(m.mode) THEN banks[new][r] ELSE m.reg[r]]
  <2>1. /\ \A x \in Modes \ {m.mode} : banks[x] = m.reg_mode[x]
        /\ banks[m.mode]["sp"] = m.reg["sp"] /\ banks[m.mode]["lr"] = m.reg["lr"]
    BY DEF Machines, Banked, Registers, Swapped
  <2>2. regs["sp"] = banks[new]["sp"] /\ regs["lr"] = banks[new]["lr"]
    BY DEF Banked, Registers, Swapped
  <2>3. SetCpuMode(new, m) = [m EXCEPT !.mode = new, !.reg_mode = banks, !.reg = regs]
    BY <1>2 DEF SetCpuMode, Machines
  <2> HIDE DEF banks, regs
  <2>4. /\ SetCpuMode(new, m).mode = new
        /\ SetCpuMode(new, m).reg_mode = banks /\ SetCpuMode(new, m).reg = regs
    BY <2>3 DEF Machines
  <2>5. ASSUME NEW x \in Modes
        PROVE  BankOf(SetCpuMode(new, m))[x] = BankOf(m)[x]
    BY <1>2, <2>1, <2>2, <2>4 DEF BankOf, Machines
  <2> QED BY <2>5 DEF BankOf
<1> QED BY <1>1, <1>2

(* r8 of the modes other than FIQ: in reg, or in the bank of the mode FIQ  *)
(* mode was entered from.                                                  *)
R8Of(m, from) == IF m.mode = "fiq" THEN m.reg_mode[from]["r8"] ELSE m.reg["r8"]

LEMMA SwitchKeepsR8 ==
  ASSUME NEW m \in Machines, NEW new \in Modes, NEW from \in Modes \ {"fiq"},
         m.mode = "fiq" => new \in {"fiq", from}
  PROVE  R8Of(SetCpuMode(new, m), IF new = "fiq" /\ m.mode # "fiq" THEN m.mode ELSE from)
           = R8Of(m, from)
<1>1. CASE m.mode = new
  BY <1>1 DEF SetCpuMode, R8Of
<1>2. CASE m.mode # new
  <2> DEFINE banks == [m.reg_mode EXCEPT ![m.mode] =
                 [r \in Banked |-> IF r \in Swapped(new) THEN m.reg[r] ELSE @[r]]]
             regs == [r \in Registers |-> IF r \in Swapped(m.mode) THEN banks[new][r] ELSE m.reg[r]]
  <2>1. /\ \A x \in Modes \ {m.mode} : banks[x] = m.reg_mode[x]
        /\ new = "fiq" => banks[m.mode]["r8"] = m.reg["r8"]
    BY DEF Machines, Banked, Registers, Swapped
  <2>2. regs["r8"] = IF m.mode = "fiq" THEN banks[new]["r8"] ELSE m.reg["r8"]
    BY DEF Banked, Registers, Swapped
  <2>3. SetCpuMode(new, m) = [m EXCEPT !.mode = new, !.reg_mode = banks, !.reg = regs]
    BY <1>2 DEF SetCpuMode, Machines
  <2> HIDE DEF banks, regs
  <2>4. /\ SetCpuMode(new, m).mode = new
        /\ SetCpuMode(new, m).reg_mode = banks /\ SetCpuMode(new, m).reg = regs
    BY <2>3 DEF Machines
  <2> QED BY <1>2, <2>1, <2>2, <2>4 DEF R8Of, Machines
<1> QED BY <1>1, <1>2

-----------------------------------------------------------------------------
(* An interrupt changes the link register and the saved status of IRQ mode. *)
LEMMA InterruptTypes ==
  ASSUME NEW m, Sound(m), ~m.cpsr.masked, NEW link \in Words
  PROVE  /\ Sound(Interrupted(m, link))
         /\ Interrupted(m, link).mode = "irq"
         /\ Interrupted(m, link).cpsr = IrqStatus
         /\ Interrupted(m, link).spsr = [m.spsr EXCEPT !["irq"] = m.cpsr]
         /\ Interrupted(m, link).reg["r5"] = m.reg["r5"]
<1> DEFINE n == [m EXCEPT !.reg_mode["irq"]["lr"] = link, !.spsr["irq"] = m.cpsr,
                          !.cpsr = IrqStatus]
<1>1. n \in Machines /\ n.mode = m.mode /\ n.reg = m.reg /\ n.cpsr = IrqStatus
      /\ n.spsr = [m.spsr EXCEPT !["irq"] = m.cpsr]
  BY CpuModesAssumption DEF Sound, Machines, Modes, Banked, IrqStatus, Psrs
<1>2. "irq" \in Modes
  BY DEF Modes
<1> HIDE DEF n
<1>3. /\ SetCpuMode("irq", n) \in Machines /\ SetCpuMode("irq", n).mode = "irq"
      /\ SetCpuMode("irq", n).cpsr = IrqStatus /\ SetCpuMode("irq", n).spsr = n.spsr
      /\ SetCpuMode("irq", n).reg["r5"] = m.reg["r5"]
  BY <1>1, <1>2, SwitchTypes
<1>4. Interrupted(m, link) = SetCpuMode("irq", n)
  BY DEF Interrupted, n
<1>5. Proper(IrqStatus) /\ IrqStatus.mode = "irq" /\ Proper(m.cpsr)
  BY DEF IrqStatus, Proper, Sound
<1>6. \A x \in Modes : n.spsr[x] # Unset => Proper(n.spsr[x])
  BY <1>1, <1>5 DEF Sound, Machines
<1> QED BY <1>1, <1>3, <1>4, <1>5, <1>6 DEF Sound

LEMMA InterruptBanks ==
  ASSUME NEW m, Sound(m), ~m.cpsr.masked, NEW link \in Words, NEW from \in Modes \ {"fiq"}
  PROVE  /\ BankOf(Interrupted(m, link)) = [BankOf(m) EXCEPT !["irq"].lr = link]
         /\ R8Of(Interrupted(m, link), from) = R8Of(m, from)
<1> DEFINE n == [m EXCEPT !.reg_mode["irq"]["lr"] = link, !.spsr["irq"] = m.cpsr,
                          !.cpsr = IrqStatus]
<1>1. /\ n \in Machines /\ n.mode = m.mode /\ n.reg = m.reg
      /\ n.reg_mode = [m.reg_mode EXCEPT !["irq"]["lr"] = link]
  BY CpuModesAssumption DEF Sound, Machines, Modes, Banked, IrqStatus, Psrs
<1>2. m.mode \notin {"irq", "fiq"} /\ m \in Machines
  BY DEF Sound, Proper
<1>3. "irq" \in Modes
  BY DEF Modes
<1>4. Interrupted(m, link) = SetCpuMode("irq", n)
  BY DEF Interrupted, n
<1> HIDE DEF n
<1>5. BankOf(n) = [BankOf(m) EXCEPT !["irq"].lr = link]
  <2>1. ASSUME NEW x \in Modes PROVE BankOf(n)[x] = [BankOf(m) EXCEPT !["irq"].lr = link][x]
    BY <1>1, <1>2, <1>3 DEF BankOf, Machines, Banked
  <2> QED BY <2>1 DEF BankOf
<1>6. BankOf(SetCpuMode("irq", n)) = BankOf(n)
  BY <1>1, <1>3, SwitchKeepsBanks
<1>7. R8Of(SetCpuMode("irq", n), from) = R8Of(n, from)
  BY <1>1, <1>2, <1>3, SwitchKeepsR8
<1>8. R8Of(n, from) = R8Of(m, from)
  BY <1>1, <1>2 DEF R8Of
<1> QED BY <1>4, <1>5, <1>6, <1>7, <1>8

-----------------------------------------------------------------------------
(* Translated code and the machine in memory: storing and loading. *)
LEMMA StoredMachine ==
  ASSUME MachineOK, NEW p \in Psrs
  PROVE  LET m == Machine(Stored(cpsr.thumb), p) IN
         /\ m \in Machines /\ m.mode = mode /\ m.cpsr = p /\ m.spsr = spsr
         /\ \A x \in Modes : m.spsr[x] # Unset => Proper(m.spsr[x])
         /\ BankOf(m) = GuestBank
         /\ m.reg["r5"] = GuestR5
         /\ R8Of(m, entered) = GuestR8
<1>1. Stored(cpsr.thumb) \in [Registers -> Words]
  BY DEF MachineOK, Stored, Registers
<1>2. /\ Stored(cpsr.thumb)["r5"] = GuestR5 /\ Stored(cpsr.thumb)["r8"] = reg["r8"]
  BY DEF MachineOK, Stored, Registers, GuestR5, Psrs
<1> DEFINE m == Machine(Stored(cpsr.thumb), p)
<1>4. m \in Machines
  BY <1>1 DEF Machine, Machines, MachineOK
<1>5. m.mode = mode /\ m.cpsr = p /\ m.spsr = spsr /\ m.reg = Stored(cpsr.thumb)
      /\ m.reg_mode = reg_mode
  BY DEF Machine
<1>6. BankOf(m) = GuestBank
  BY DEF BankOf, GuestBank, Machine
<1>7. R8Of(m, entered) = GuestR8
  BY <1>2, <1>5 DEF R8Of, GuestR8
<1>8. \A x \in Modes : spsr[x] # Unset => Proper(spsr[x])
  BY DEF MachineOK
<1> QED BY <1>2, <1>4, <1>5, <1>6, <1>7, <1>8

LEMMA ResumedMachine ==
  ASSUME MachineOK, NEW m, Sound(m), Resumes(m), reg_flags' \in Words
  PROVE  /\ MachineOK'
         /\ GuestBank' = BankOf(m)
         /\ GuestR5' = m.reg["r5"]
         /\ GuestR8' = R8Of(m, entered')
         /\ Collapsed' = [m.cpsr EXCEPT !.nzcv = reg_flags']
         /\ spsr' = m.spsr
<1>1. /\ m.reg \in [Registers -> Words] /\ m.mode \in Modes /\ m.cpsr \in Psrs
      /\ m.reg_mode \in [Modes -> [Banked -> Words]] /\ m.spsr \in [Modes -> Psrs \cup {Unset}]
      /\ m.cpsr.mode = m.mode /\ Proper(m.cpsr)
      /\ \A x \in Modes : m.spsr[x] # Unset => Proper(m.spsr[x])
  BY DEF Sound, Machines
<1>2. /\ reg' = m.reg /\ mode' = m.mode /\ cpsr' = m.cpsr /\ reg_mode' = m.reg_mode
      /\ spsr' = m.spsr
      /\ reg_x5' = (IF m.cpsr.thumb THEN m.reg["r5"] ELSE m.reg["lr"])
      /\ entered' = (IF m.mode = "fiq" /\ mode # "fiq" THEN mode ELSE entered)
  BY DEF Resumes, Loaded
<1>3. reg_x5' \in Words /\ entered' \in Modes \ {"fiq"}
  BY <1>1, <1>2 DEF MachineOK, Registers, Psrs
<1>5. MachineOK'
  BY <1>1, <1>2, <1>3 DEF MachineOK, Proper
<1>6. Stored(cpsr.thumb)' = m.reg
  BY <1>1, <1>2 DEF Stored, Registers, Psrs
<1>7. GuestBank' = BankOf(m)
  BY <1>2, <1>6 DEF GuestBank, BankOf, Machine
<1> QED BY <1>1, <1>2, <1>5, <1>7 DEF GuestR5, GuestR8, R8Of, Collapsed, Psrs

(* A call that gives the guest the status p, and the interrupt that lets in. *)
LEMMA Resumption ==
  ASSUME MachineOK, NEW p \in Psrs, Proper(p), LeavesFiq(p),
         NEW pending \in BOOLEAN, NEW link \in Words, reg_flags' = p.nzcv,
         Resumes(Interruptible(SetCpuMode(p.mode, Machine(Stored(cpsr.thumb), p)), pending, link))
  PROVE  MachineOK' /\ (Registry!SetStatus(p) \/ Registry!Interrupt(p, link))
<1> DEFINE s == Machine(Stored(cpsr.thumb), p)
           m == SetCpuMode(p.mode, s)
           from == IF p.mode = "fiq" /\ mode # "fiq" THEN mode ELSE entered
<1>1. /\ s \in Machines /\ s.mode = mode /\ s.cpsr = p /\ s.spsr = spsr
      /\ \A x \in Modes : s.spsr[x] # Unset => Proper(s.spsr[x])
      /\ BankOf(s) = GuestBank /\ s.reg["r5"] = GuestR5 /\ R8Of(s, entered) = GuestR8
  BY StoredMachine
<1>2. p.mode \in Modes /\ entered \in Modes \ {"fiq"} /\ mode \in Modes /\ p.nzcv \in Words
  BY DEF Psrs, MachineOK
<1>3. mode = "fiq" => p.mode \in {"fiq", entered}
  BY DEF LeavesFiq
<1>4. Resumes(Interruptible(m, pending, link))
  OBVIOUS
<1> HIDE DEF s
<1>5. /\ m \in Machines /\ m.mode = p.mode /\ m.cpsr = p /\ m.spsr = spsr
      /\ m.reg["r5"] = GuestR5 /\ BankOf(m) = GuestBank
  BY <1>1, <1>2, SwitchTypes, SwitchKeepsBanks
<1>6. R8Of(m, from) = GuestR8 /\ from \in Modes \ {"fiq"}
  BY <1>1, <1>2, <1>3, SwitchKeepsR8
<1>7. Sound(m)
  BY <1>1, <1>5 DEF Sound
<1> HIDE DEF m
<1>8. CASE pending /\ ~p.masked
  <2>1. Resumes(Interrupted(m, link))
    BY <1>4, <1>5, <1>8 DEF Interruptible
  <2>2. ~m.cpsr.masked
    BY <1>5, <1>8
  <2> DEFINE i == Interrupted(m, link)
  <2>3. /\ Sound(i) /\ i.mode = "irq" /\ i.cpsr = IrqStatus
        /\ i.spsr = [spsr EXCEPT !["irq"] = p] /\ i.reg["r5"] = GuestR5
    BY <1>5, <1>7, <2>2, InterruptTypes
  <2>4. BankOf(i) = [GuestBank EXCEPT !["irq"].lr = link] /\ R8Of(i, from) = GuestR8
    BY <1>5, <1>6, <1>7, <2>2, InterruptBanks
  <2>5. Resumes(i)
    BY <2>1
  <2> HIDE DEF i
  <2>6. /\ MachineOK' /\ GuestBank' = BankOf(i) /\ GuestR5' = i.reg["r5"]
        /\ GuestR8' = R8Of(i, entered') /\ Collapsed' = [i.cpsr EXCEPT !.nzcv = reg_flags']
        /\ spsr' = i.spsr
    BY <1>2, <2>3, <2>5, ResumedMachine
  <2>7. R8Of(i, entered') = R8Of(i, from)
    BY <2>3 DEF R8Of
  <2>8. Collapsed' = [mode |-> "irq", masked |-> TRUE, thumb |-> FALSE, nzcv |-> p.nzcv]
    <3>1. Collapsed' = [IrqStatus EXCEPT !.nzcv = p.nzcv]
      BY <2>3, <2>6
    <3> QED BY <3>1 DEF IrqStatus
  <2>9. Registry!Interrupt(p, link)
    BY <1>8, <2>3, <2>4, <2>6, <2>7, <2>8 DEF Registry!Interrupt, Registry!Enter
  <2> QED BY <2>6, <2>9
<1>9. CASE ~(pending /\ ~p.masked)
  <2>1. Resumes(m)
    BY <1>4, <1>5, <1>9 DEF Interruptible
  <2>2. /\ MachineOK' /\ GuestBank' = BankOf(m) /\ GuestR5' = m.reg["r5"]
        /\ GuestR8' = R8Of(m, entered') /\ Collapsed' = [m.cpsr EXCEPT !.nzcv = reg_flags']
        /\ spsr' = m.spsr
    BY <1>2, <1>7, <2>1, ResumedMachine
  <2>3. entered' = from
    BY <1>5, <2>1 DEF Resumes
  <2>4. Collapsed' = p
    BY <1>5, <2>2 DEF Psrs
  <2>5. Registry!SetStatus(p)
    BY <1>5, <1>6, <2>2, <2>3, <2>4 DEF Registry!SetStatus
  <2> QED BY <2>2, <2>5
<1> QED BY <1>8, <1>9

-----------------------------------------------------------------------------
LEMMA CurrentStatus ==
  ASSUME MachineOK
  PROVE  Collapsed \in Psrs /\ Proper(Collapsed) /\ LeavesFiq(Collapsed) /\ Collapsed.mode = mode
BY DEF MachineOK, Collapsed, Psrs, Proper, LeavesFiq

LEMMA SliceStep ==
  ASSUME MachineOK, NEW pending \in BOOLEAN, NEW link \in Words, Slice(pending, link)
  PROVE  MachineOK' /\ (Registry!Other \/ Registry!Interrupt(Collapsed, link))
<1> DEFINE p == Collapsed
           m == Machine(Stored(cpsr.thumb), p)
<1>1. p \in Psrs /\ Proper(p) /\ LeavesFiq(p) /\ p.mode = mode
  BY CurrentStatus
<1>2. SetCpuMode(p.mode, m) = m
  BY <1>1 DEF SetCpuMode, Machine
<1>3. Resumes(Interruptible(m, pending, link)) /\ UNCHANGED reg_flags
  BY DEF Slice
<1>4. reg_flags' = p.nzcv
  BY <1>3 DEF Collapsed, MachineOK, Psrs
<1> HIDE DEF p
<1>5. MachineOK' /\ (Registry!SetStatus(p) \/ Registry!Interrupt(p, link))
  BY <1>1, <1>2, <1>3, <1>4, Resumption
<1> QED BY <1>5 DEF p, Registry!SetStatus, Registry!Other, Registry!registers

LEMMA DmaStep ==
  ASSUME MachineOK, ~DmaInterrupts, NEW pending \in BOOLEAN, NEW link \in Words,
         DmaStore(pending, link)
  PROVE  MachineOK' /\ Registry!Other
<1> DEFINE p == Collapsed
           m == Machine(Stored(cpsr.thumb), p)
<1>1. p \in Psrs /\ Proper(p) /\ LeavesFiq(p) /\ p.mode = mode
  BY CurrentStatus
<1>2. Interruptible(Machine(reg, cpsr), pending, link) = Machine(reg, cpsr)
  BY DEF DmaStore, Interruptible, Machine
<1>3. [Machine(reg, cpsr) EXCEPT !.cpsr.nzcv = reg_flags,
         !.reg[IF ~cpsr.thumb THEN "lr" ELSE "r5"] = reg_x5] = m
  <2>1. ASSUME NEW k \in Registers
        PROVE  [Machine(reg, cpsr) EXCEPT !.cpsr.nzcv = reg_flags, !.reg[k] = reg_x5]
                 = Machine([reg EXCEPT ![k] = reg_x5], [cpsr EXCEPT !.nzcv = reg_flags])
    <3> DEFINE c == Machine(reg, cpsr)
               n == [c EXCEPT !.cpsr.nzcv = reg_flags, !.reg[k] = reg_x5]
    <3>1. /\ c \in Machines /\ c.reg = reg /\ c.cpsr = cpsr /\ c.mode = mode
          /\ c.reg_mode = reg_mode /\ c.spsr = spsr
      BY DEF Machine, Machines, MachineOK
    <3> HIDE DEF c
    <3>2. /\ n.reg = [reg EXCEPT ![k] = reg_x5] /\ n.cpsr = [cpsr EXCEPT !.nzcv = reg_flags]
          /\ n.mode = mode /\ n.reg_mode = reg_mode /\ n.spsr = spsr
      BY <3>1 DEF Machines
    <3>3. n \in Machines
      BY <3>1 DEF Machines, MachineOK, Psrs
    <3> HIDE DEF n
    <3>4. n = [reg |-> n.reg, mode |-> n.mode, cpsr |-> n.cpsr, reg_mode |-> n.reg_mode,
               spsr |-> n.spsr]
      BY <3>3 DEF Machines
    <3> QED BY <3>2, <3>4 DEF n, c, Machine
  <2>2. Stored(cpsr.thumb) = [reg EXCEPT ![IF ~cpsr.thumb THEN "lr" ELSE "r5"] = reg_x5]
    BY DEF Stored, MachineOK, Psrs
  <2>3. (IF ~cpsr.thumb THEN "lr" ELSE "r5") \in Registers
    BY DEF Registers
  <2> QED BY <2>1, <2>2, <2>3 DEF Collapsed
<1>4. Machine(reg, cpsr).cpsr = cpsr
  BY DEF Machine
<1>5. Resumes(m) /\ UNCHANGED reg_flags
  BY <1>2, <1>3, <1>4 DEF DmaStore
<1>8. Sound(m)
  BY <1>1, StoredMachine DEF Sound
<1>9. reg_flags' \in Words
  BY <1>5 DEF MachineOK
<1>10. SetCpuMode(p.mode, m) = m /\ m.mode = mode /\ m.cpsr = p /\ m.spsr = spsr
  BY <1>1 DEF SetCpuMode, Machine
<1>11. BankOf(m) = GuestBank /\ m.reg["r5"] = GuestR5 /\ R8Of(m, entered) = GuestR8
  BY <1>1, StoredMachine
<1>12. entered' = entered
  BY <1>5, <1>10 DEF Resumes
<1> HIDE DEF m
<1>13. /\ MachineOK' /\ GuestBank' = GuestBank /\ GuestR5' = GuestR5 /\ GuestR8' = GuestR8
       /\ Collapsed' = [p EXCEPT !.nzcv = reg_flags'] /\ spsr' = spsr
  BY <1>5, <1>8, <1>9, <1>10, <1>11, <1>12, ResumedMachine
<1>14. Collapsed' = Collapsed
  BY <1>5, <1>13 DEF Collapsed, MachineOK, Psrs
<1> QED BY <1>13, <1>14 DEF Registry!Other, Registry!registers

LEMMA WriteStep ==
  ASSUME MachineOK, NEW r \in Registers, NEW w \in Words, Write(r, w)
  PROVE  MachineOK' /\ (Registry!Other \/ Registry!Write(w))
<1> DEFINE now == Stored(cpsr.thumb)
<1>1. /\ now \in [Registers -> Words] /\ now["r5"] = GuestR5 /\ now["r8"] = reg["r8"]
  BY DEF MachineOK, Stored, Registers, GuestR5, Psrs
<1>2. UNCHANGED <<mode, cpsr, reg_mode, spsr, reg_flags, entered>>
  BY DEF Write
<1>3. now' = [now EXCEPT ![r] = w]
  <2>1. ASSUME NEW x \in Registers PROVE now'[x] = [now EXCEPT ![r] = w][x]
    BY <1>2 DEF Write, Stored, MachineOK, Registers
  <2>2. now' \in [Registers -> Words]
    BY <1>2 DEF Write, Stored, MachineOK, Registers
  <2> QED BY <1>1, <2>1, <2>2
<1>4. MachineOK'
  BY <1>2 DEF MachineOK, Write, Registers, Proper
<1>5. UNCHANGED <<Collapsed, spsr>> /\ Collapsed.mode = mode
  BY <1>2, CurrentStatus DEF Collapsed
<1>6. /\ GuestR5' = now'["r5"] /\ reg'["r8"] = now'["r8"]
  BY <1>2, <1>4 DEF MachineOK, Stored, Registers, GuestR5, Psrs
<1>7. ASSUME NEW x \in Modes
      PROVE  /\ GuestBank[x] = IF x = mode THEN [sp |-> now["sp"], lr |-> now["lr"]]
                                ELSE [sp |-> reg_mode[x]["sp"], lr |-> reg_mode[x]["lr"]]
             /\ GuestBank'[x] = IF x = mode THEN [sp |-> now'["sp"], lr |-> now'["lr"]]
                                ELSE [sp |-> reg_mode[x]["sp"], lr |-> reg_mode[x]["lr"]]
  BY <1>2 DEF GuestBank, BankOf, Machine
<1>8. DOMAIN GuestBank = Modes /\ DOMAIN GuestBank' = Modes
      /\ GuestBank = [x \in Modes |-> GuestBank[x]] /\ GuestBank' = [x \in Modes |-> GuestBank'[x]]
  BY DEF GuestBank, BankOf
<1>9. mode \in Modes
  BY DEF MachineOK
<1>10. GuestR8' = IF mode = "fiq" THEN GuestR8 ELSE now'["r8"]
  BY <1>2, <1>6 DEF GuestR8
<1>11. GuestR8 = IF mode = "fiq" THEN GuestR8 ELSE now["r8"]
  BY <1>1 DEF GuestR8
<1> HIDE DEF now
<1>12. CASE r = "r5"
  <2>1. GuestR5' = w /\ GuestR8' = GuestR8 /\ GuestBank' = GuestBank
    BY <1>1, <1>3, <1>6, <1>7, <1>8, <1>10, <1>11, <1>12 DEF Registers
  <2> QED BY <1>4, <1>5, <2>1 DEF Registry!Write
<1>13. CASE r = "r8"
  <2>1. GuestR5' = GuestR5 /\ GuestBank' = GuestBank
    BY <1>1, <1>3, <1>6, <1>7, <1>8, <1>13 DEF Registers
  <2>2. GuestR8' = IF mode = "fiq" THEN GuestR8 ELSE w
    BY <1>1, <1>3, <1>10, <1>13 DEF Registers
  <2> QED BY <1>4, <1>5, <2>1, <2>2 DEF Registry!Write, Registry!Other, Registry!registers
<1>14. CASE r \in {"sp", "lr"}
  <2>1. GuestR5' = GuestR5 /\ GuestR8' = GuestR8
    BY <1>1, <1>3, <1>6, <1>10, <1>11, <1>14 DEF Registers
  <2>2. CASE r = "sp"
    <3>1. ASSUME NEW x \in Modes PROVE GuestBank'[x] = [GuestBank EXCEPT ![mode].sp = w][x]
      BY <1>1, <1>3, <1>7, <1>8, <1>9, <2>2 DEF Registers
    <3>2. GuestBank' = [GuestBank EXCEPT ![mode].sp = w]
      BY <1>8, <3>1
    <3> QED BY <1>4, <1>5, <2>1, <3>2 DEF Registry!Write
  <2>3. CASE r = "lr"
    <3>1. ASSUME NEW x \in Modes PROVE GuestBank'[x] = [GuestBank EXCEPT ![mode].lr = w][x]
      BY <1>1, <1>3, <1>7, <1>8, <1>9, <2>3 DEF Registers
    <3>2. GuestBank' = [GuestBank EXCEPT ![mode].lr = w]
      BY <1>8, <3>1
    <3> QED BY <1>4, <1>5, <2>1, <3>2 DEF Registry!Write
  <2> QED BY <1>14, <2>2, <2>3
<1> QED BY <1>12, <1>13, <1>14 DEF Registers

LEMMA CompareStep ==
  ASSUME MachineOK, NEW w \in Words, Compare(w)
  PROVE  MachineOK' /\ Registry!Compare(w)
<1>1. reg_flags' = w /\ UNCHANGED <<reg, mode, cpsr, reg_mode, spsr, reg_x5, entered>>
  BY DEF Compare
<1>2. MachineOK'
  BY <1>1 DEF MachineOK, Proper
<1>3. UNCHANGED <<GuestR5, GuestR8, GuestBank, spsr>>
  BY <1>1 DEF GuestR5, GuestR8, GuestBank, BankOf, Machine, Stored
<1>4. Collapsed' = [Collapsed EXCEPT !.nzcv = w]
  BY <1>1 DEF Collapsed, MachineOK, Psrs
<1> QED BY <1>2, <1>3, <1>4 DEF Registry!Compare, Registry!SetStatus

(* What a call that lets no interrupt in does: it gives the guest status p. *)
LEMMA SetStatusStep ==
  ASSUME MachineOK, NEW p \in Psrs, Proper(p), p.mode = mode, reg_flags' \in Words,
         Resumes(Machine(Stored(cpsr.thumb), p))
  PROVE  MachineOK' /\ Registry!SetStatus([p EXCEPT !.nzcv = reg_flags'])
<1> DEFINE m == Machine(Stored(cpsr.thumb), p)
<1>1. /\ m \in Machines /\ m.mode = mode /\ m.cpsr = p /\ m.spsr = spsr
      /\ \A x \in Modes : m.spsr[x] # Unset => Proper(m.spsr[x])
      /\ BankOf(m) = GuestBank /\ m.reg["r5"] = GuestR5 /\ R8Of(m, entered) = GuestR8
  BY StoredMachine
<1>2. Resumes(m)
  OBVIOUS
<1> HIDE DEF m
<1>3. Sound(m)
  BY <1>1 DEF Sound
<1>4. entered' = entered
  BY <1>1, <1>2 DEF Resumes
<1>5. /\ MachineOK' /\ GuestBank' = BankOf(m) /\ GuestR5' = m.reg["r5"]
      /\ GuestR8' = R8Of(m, entered') /\ Collapsed' = [m.cpsr EXCEPT !.nzcv = reg_flags']
      /\ spsr' = m.spsr
  BY <1>2, <1>3, ResumedMachine
<1> QED BY <1>1, <1>4, <1>5 DEF Registry!SetStatus

LEMMA ExchangeStep ==
  ASSUME MachineOK, Exchange
  PROVE  MachineOK' /\ Registry!Exchange
<1> DEFINE p == [cpsr EXCEPT !.thumb = ~@]
<1>1. p \in Psrs /\ Proper(p) /\ p.mode = mode /\ reg_flags' = reg_flags /\ reg_flags \in Words
  BY DEF MachineOK, Psrs, Proper, Exchange
<1>2. Resumes(Machine(Stored(cpsr.thumb), p))
  BY DEF Exchange
<1>3. [p EXCEPT !.nzcv = reg_flags] = [Collapsed EXCEPT !.thumb = ~@]
  BY DEF Collapsed, MachineOK, Psrs
<1> HIDE DEF p
<1> QED BY <1>1, <1>2, <1>3, SetStatusStep DEF Registry!Exchange

(* What an MSR stores is a status the guest may have, and that of an ARM    *)
(* where the flags in memory are the guest's or the MSR names the flags.   *)
LEMMA MergedStatus ==
  ASSUME MachineOK, NEW fields \in SUBSET Fields, NEW p \in Statuses
  PROVE  LET new == Merged(p, fields, cpsr) IN
         /\ new \in Psrs /\ Proper(new)
         /\ "c" \notin fields => new.mode = mode
         /\ "f" \in fields \/ cpsr.nzcv = reg_flags
              => new = Registry!Stored(Collapsed, fields, p)
<1> DEFINE new == Merged(p, fields, cpsr)
<1>1. p \in Psrs /\ Proper(p) /\ cpsr \in Psrs /\ Proper(cpsr) /\ cpsr.mode = mode
  BY DEF Statuses, MachineOK
<1>2. /\ new \in Psrs
      /\ new.mode = IF "c" \in fields THEN p.mode ELSE cpsr.mode
      /\ new.masked = IF "c" \in fields THEN p.masked ELSE cpsr.masked
      /\ new.thumb = IF "c" \in fields THEN p.thumb ELSE cpsr.thumb
      /\ new.nzcv = IF "f" \in fields THEN p.nzcv ELSE cpsr.nzcv
  BY <1>1 DEF Merged, Psrs
<1>3. Proper(new)
  BY <1>1, <1>2 DEF Proper
<1>4. /\ Collapsed.mode = cpsr.mode /\ Collapsed.masked = cpsr.masked
      /\ Collapsed.thumb = cpsr.thumb /\ Collapsed.nzcv = reg_flags
  BY <1>1 DEF Collapsed, Psrs
<1>5. new = [mode |-> new.mode, masked |-> new.masked, thumb |-> new.thumb, nzcv |-> new.nzcv]
  BY <1>2 DEF Psrs
<1> HIDE DEF new
<1>6. ASSUME "f" \in fields \/ cpsr.nzcv = reg_flags
      PROVE  new = Registry!Stored(Collapsed, fields, p)
  BY <1>2, <1>4, <1>5, <1>6 DEF Registry!Stored
<1> QED BY <1>1, <1>2, <1>3, <1>6 DEF new

LEMMA StoreCpsrStep ==
  ASSUME MachineOK, NEW fields \in SUBSET Fields, NEW p \in Statuses,
         NEW pending \in BOOLEAN, NEW link \in Words,
         StoreCpsr(fields, Merged(p, fields, cpsr), pending, link)
  PROVE  MachineOK' /\ (LossyStores \/ Registry!StoreStatus(fields, p, link))
<1> DEFINE new == Merged(p, fields, cpsr)
<1>1. /\ new \in Psrs /\ Proper(new)
      /\ "c" \notin fields => new.mode = mode
      /\ "f" \in fields \/ cpsr.nzcv = reg_flags
           => new = Registry!Stored(Collapsed, fields, p)
  BY MergedStatus
<1>2. StoreCpsr(fields, new, pending, link)
  OBVIOUS
<1> HIDE DEF new
<1>3. /\ LeavesFiq(new) /\ ~new.thumb /\ ~cpsr.thumb /\ reg_flags' = new.nzcv
      /\ "f" \in fields \/ cpsr.nzcv = reg_flags \/ LossyStores
      /\ Stored(FALSE) = Stored(cpsr.thumb)
  BY <1>2 DEF StoreCpsr, Stored
<1>4. ~Collapsed.thumb
  BY <1>3 DEF Collapsed, MachineOK, Psrs
<1>5. CASE "c" \in fields
  <2>1. Resumes(Interruptible(SetCpuMode(new.mode, Machine(Stored(cpsr.thumb), new)), pending, link))
    BY <1>2, <1>3, <1>5 DEF StoreCpsr
  <2>2. MachineOK' /\ (Registry!SetStatus(new) \/ Registry!Interrupt(new, link))
    BY <1>1, <1>3, <2>1, Resumption
  <2> QED BY <1>1, <1>3, <1>4, <1>5, <2>2 DEF Registry!StoreStatus
<1>6. CASE "c" \notin fields
  <2>1. Resumes(Machine(Stored(cpsr.thumb), new))
    BY <1>2, <1>3, <1>6 DEF StoreCpsr
  <2>2. new.nzcv \in Words /\ [new EXCEPT !.nzcv = new.nzcv] = new
    BY <1>1 DEF Psrs
  <2>3. MachineOK' /\ Registry!SetStatus(new)
    BY <1>1, <1>3, <1>6, <2>1, <2>2, SetStatusStep
  <2> QED BY <1>1, <1>3, <1>4, <2>3 DEF Registry!StoreStatus
<1> QED BY <1>5, <1>6

LEMMA StoreSpsrStep ==
  ASSUME MachineOK, NEW fields \in SUBSET Fields, NEW p \in Statuses, StoreSpsr(fields, p)
  PROVE  MachineOK' /\ (LossyStores \/ Registry!StoreSaved(fields, p))
<1>1. /\ spsr' = [spsr EXCEPT ![mode] = p] /\ ~cpsr.thumb /\ mode # "user"
      /\ UNCHANGED <<reg, mode, cpsr, reg_mode, reg_x5, reg_flags, entered>>
      /\ p \in Psrs /\ Proper(p) /\ (fields = Fields \/ LossyStores)
  BY DEF StoreSpsr, Statuses
<1>2. MachineOK'
  BY <1>1 DEF MachineOK, Proper
<1>3. UNCHANGED <<GuestR5, GuestR8, GuestBank, Collapsed>> /\ Collapsed.mode = mode
  BY <1>1, CurrentStatus DEF GuestR5, GuestR8, GuestBank, BankOf, Machine, Stored, Collapsed
<1>4. ~Collapsed.thumb
  BY <1>1 DEF Collapsed, MachineOK, Psrs
<1>5. Registry!Fields = Fields
  BY DEF Registry!Fields, Fields
<1> QED BY <1>1, <1>2, <1>3, <1>4, <1>5 DEF Registry!StoreSaved

LEMMA SpsrRestoreStep ==
  ASSUME MachineOK, NEW pending \in BOOLEAN, NEW link \in Words, SpsrRestore(pending, link)
  PROVE  MachineOK' /\ Registry!Return
<1> DEFINE p == spsr[mode]
<1>1. p \in Psrs /\ Proper(p) /\ LeavesFiq(p) /\ p # Unset /\ ~cpsr.thumb /\ reg_flags' = p.nzcv
  BY DEF MachineOK, SpsrRestore
<1>2. Stored(FALSE) = Stored(cpsr.thumb)
  BY <1>1 DEF Stored
<1>3. Resumes(Interruptible(SetCpuMode(p.mode, Machine(Stored(cpsr.thumb), p)), pending, link))
  BY <1>2 DEF SpsrRestore
<1>4. spsr[Collapsed.mode] = p
  BY CurrentStatus
<1> HIDE DEF p
<1>5. MachineOK' /\ (Registry!SetStatus(p) \/ Registry!Interrupt(p, link))
  BY <1>1, <1>3, Resumption
<1> QED BY <1>1, <1>4, <1>5 DEF Registry!Return

LEMMA SwiStep ==
  ASSUME MachineOK, NEW link \in Words, Swi(link)
  PROVE  MachineOK' /\ Registry!Swi(link)
<1> DEFINE p == Collapsed
           q == [p EXCEPT !.mode = "supervisor", !.thumb = FALSE]
           s == Machine(Stored(cpsr.thumb), q)
           n == [s EXCEPT !.reg_mode["supervisor"]["lr"] = link, !.spsr["supervisor"] = p]
           m == SetCpuMode("supervisor", n)
<1>1. p \in Psrs /\ Proper(p) /\ p.mode = mode
  BY CurrentStatus
<1>2. mode \notin {"supervisor", "fiq"} /\ reg_flags' = reg_flags /\ reg_flags \in Words
      /\ "supervisor" \in Modes
  BY DEF Swi, MachineOK, Modes
<1>3. p.nzcv = reg_flags
  BY DEF Collapsed, MachineOK, Psrs
<1>4. Resumes(m)
  BY DEF Swi
<1> HIDE DEF p
<1>5. /\ q \in Psrs /\ Proper(q) /\ q.mode = "supervisor" /\ q.nzcv = reg_flags
      /\ q = [mode |-> "supervisor", masked |-> p.masked, thumb |-> FALSE, nzcv |-> p.nzcv]
  <2>1. q \in Psrs /\ q.mode = "supervisor" /\ q.nzcv = p.nzcv /\ ~q.thumb /\ q.masked = p.masked
    BY <1>1, <1>2 DEF Psrs
  <2>2. Proper(q)
    BY <2>1 DEF Proper
  <2> HIDE DEF q
  <2>3. q.thumb = FALSE
    BY <2>1 DEF Psrs
  <2>4. q = [mode |-> q.mode, masked |-> q.masked, thumb |-> q.thumb, nzcv |-> q.nzcv]
    BY <2>1 DEF Psrs
  <2> QED BY <1>3, <2>1, <2>2, <2>3, <2>4
<1> HIDE DEF q
<1>6. /\ s \in Machines /\ s.mode = mode /\ s.cpsr = q /\ s.spsr = spsr
      /\ \A x \in Modes : s.spsr[x] # Unset => Proper(s.spsr[x])
      /\ BankOf(s) = GuestBank /\ s.reg["r5"] = GuestR5 /\ R8Of(s, entered) = GuestR8
  BY <1>5, StoredMachine
<1> HIDE DEF s
<1>7. /\ n \in Machines /\ n.mode = mode /\ n.reg = s.reg /\ n.cpsr = q
      /\ n.reg_mode = [s.reg_mode EXCEPT !["supervisor"]["lr"] = link]
      /\ n.spsr = [spsr EXCEPT !["supervisor"] = p]
  BY <1>1, <1>2, <1>6 DEF Machines, Banked
<1> HIDE DEF n
<1>8. BankOf(n) = [GuestBank EXCEPT !["supervisor"].lr = link]
  <2>1. ASSUME NEW x \in Modes
        PROVE  BankOf(n)[x] = [BankOf(s) EXCEPT !["supervisor"].lr = link][x]
    BY <1>2, <1>6, <1>7 DEF BankOf, Machines, Banked
  <2>2. BankOf(n) = [BankOf(s) EXCEPT !["supervisor"].lr = link]
    BY <2>1 DEF BankOf
  <2> QED BY <1>6, <2>2
<1>9. R8Of(n, entered) = GuestR8 /\ entered \in Modes \ {"fiq"}
  BY <1>2, <1>6, <1>7 DEF R8Of, MachineOK
<1>10. \A x \in Modes : n.spsr[x] # Unset => Proper(n.spsr[x])
  BY <1>1, <1>6, <1>7 DEF MachineOK
<1>11. /\ m \in Machines /\ m.mode = "supervisor" /\ m.cpsr = q /\ m.spsr = n.spsr
       /\ m.reg["r5"] = GuestR5 /\ BankOf(m) = BankOf(n)
  BY <1>2, <1>6, <1>7, SwitchTypes, SwitchKeepsBanks
<1>12. R8Of(m, entered) = GuestR8
  BY <1>2, <1>7, <1>9, SwitchKeepsR8
<1> HIDE DEF m
<1>13. Sound(m)
  BY <1>5, <1>10, <1>11 DEF Sound
<1>14. /\ MachineOK' /\ GuestBank' = BankOf(m) /\ GuestR5' = m.reg["r5"]
       /\ GuestR8' = R8Of(m, entered') /\ Collapsed' = [m.cpsr EXCEPT !.nzcv = reg_flags']
       /\ spsr' = m.spsr
  BY <1>2, <1>4, <1>13, ResumedMachine
<1>15. entered' = entered
  BY <1>4, <1>11 DEF Resumes
<1>16. Collapsed' = q
  BY <1>2, <1>5, <1>11, <1>14 DEF Psrs
<1>17. Registry!Enter("supervisor", p, p.masked, link)
  BY <1>5, <1>7, <1>8, <1>11, <1>12, <1>14, <1>15, <1>16 DEF Registry!Enter
<1> QED BY <1>14, <1>17 DEF Registry!Swi, p

LEMMA ResetStep ==
  ASSUME MachineOK, Reset
  PROVE  MachineOK' /\ Registry!Reset
<1>1. StartReg \in [Registers -> Words] /\ StartPsr \in Psrs /\ StartPsr.mode = "user"
      /\ Proper(StartPsr) /\ "user" \in Modes /\ Zero \in Words
  BY CpuModesAssumption DEF StartReg, StartPsr, Psrs, Modes, Proper
<1>2. reg_mode' \in [Modes -> [Banked -> Words]]
  BY CpuModesAssumption DEF Reset, MachineOK, Banked
<1>3. MachineOK' /\ mode' = "user"
  BY <1>1, <1>2 DEF Reset, MachineOK, Proper
<1>4. /\ Collapsed' \in {p \in Registry!Psrs : p.mode = "user"}
      /\ GuestR5' \in Words /\ GuestR8' \in Words
      /\ GuestBank' \in [Registry!Modes -> Registry!Bank]
  <2>1. Registry!Modes = Modes /\ Registry!Psrs = Psrs
    BY DEF Registry!Modes, Modes, Registry!Psrs, Psrs
  <2>2. Collapsed' \in Psrs /\ Collapsed'.mode = "user"
    BY <1>3 DEF Collapsed, MachineOK, Psrs
  <2>3. GuestR5' \in Words /\ GuestR8' \in Words
    BY <1>3 DEF MachineOK, GuestR5, GuestR8, Registers, Banked, Psrs
  <2>4. ASSUME NEW x \in Modes PROVE GuestBank'[x] \in Registry!Bank
    BY <1>3 DEF MachineOK, GuestBank, BankOf, Machine, Stored, Registers, Banked, Registry!Bank
  <2>5. GuestBank' \in [Modes -> Registry!Bank]
    BY <2>4 DEF GuestBank, BankOf
  <2> QED BY <2>1, <2>2, <2>3, <2>5
<1>5. UNCHANGED spsr
  BY DEF Reset
<1> QED BY <1>3, <1>4, <1>5 DEF Registry!Reset

LEMMA InitStep ==
  ASSUME Init
  PROVE  MachineOK /\ Registry!Init
<1>1. StartReg \in [Registers -> Words] /\ StartPsr \in Psrs /\ StartPsr.mode = "user"
      /\ Proper(StartPsr) /\ "user" \in Modes \ {"fiq"} /\ Zero \in Words /\ Stack \in Words
  BY CpuModesAssumption DEF StartReg, StartPsr, Psrs, Modes, Proper
<1>2. MachineOK
  BY <1>1 DEF Init, MachineOK, Proper
<1>3. /\ Collapsed \in {p \in Registry!Psrs : p.mode = "user"}
      /\ GuestR5 \in Words /\ GuestR8 \in Words
      /\ GuestBank \in [Registry!Modes -> Registry!Bank]
  <2>1. Registry!Modes = Modes /\ Registry!Psrs = Psrs
    BY DEF Registry!Modes, Modes, Registry!Psrs, Psrs
  <2>2. Collapsed \in Psrs /\ Collapsed.mode = "user"
    BY <1>2 DEF Collapsed, MachineOK, Psrs, Init
  <2>3. GuestR5 \in Words /\ GuestR8 \in Words
    BY <1>2 DEF MachineOK, GuestR5, GuestR8, Registers, Banked, Psrs
  <2>4. ASSUME NEW x \in Modes PROVE GuestBank[x] \in Registry!Bank
    BY <1>2 DEF MachineOK, GuestBank, BankOf, Machine, Stored, Registers, Banked, Registry!Bank
  <2>5. GuestBank \in [Modes -> Registry!Bank]
    BY <2>4 DEF GuestBank, BankOf
  <2> QED BY <2>1, <2>2, <2>3, <2>5
<1>4. spsr = [m \in Registry!Modes |-> Unset]
  BY DEF Init, Registry!Modes, Modes
<1> QED BY <1>2, <1>3, <1>4 DEF Init, Registry!Init

-----------------------------------------------------------------------------
(* What a step shows of the registers: an ARM's, but for an MSR that loses *)
(* what it does not name.                                                  *)
LEMMA NextStep ==
  ASSUME ~DmaInterrupts, TypeOK, [Next]_vars
  PROVE  TypeOK' /\ (LossyStores \/ [Registry!Next]_(Registry!vars))
<1> USE DEF TypeOK
<1>1. CASE UNCHANGED vars
  BY <1>1 DEF vars, MachineOK, Proper, Registry!vars, Registry!registers, Collapsed, GuestR5,
              GuestR8, GuestBank, BankOf, Machine, Stored
<1>2. CASE (Instruction \/ Call \/ Reset) /\ named' = {}
  <2> SUFFICES MachineOK' /\ Registry!Instruction
    BY <1>2 DEF Registry!Next
  <2>1. ASSUME NEW w \in Words, Compare(w) PROVE MachineOK' /\ Registry!Instruction
    BY <2>1, CompareStep DEF Registry!Instruction
  <2>2. ASSUME NEW w \in Words, NEW r \in Registers, Write(r, w)
        PROVE  MachineOK' /\ Registry!Instruction
    BY <2>2, WriteStep DEF Registry!Instruction
  <2>3. CASE Exchange
    BY <2>3, ExchangeStep DEF Registry!Instruction
  <2>4. ASSUME NEW pending \in BOOLEAN, NEW link \in Words, Slice(pending, link)
        PROVE  MachineOK' /\ Registry!Instruction
    BY <2>4, SliceStep DEF Registry!Instruction
  <2>5. ASSUME NEW pending \in BOOLEAN, NEW link \in Words, DmaStore(pending, link)
        PROVE  MachineOK' /\ Registry!Instruction
    BY <2>5, DmaStep DEF Registry!Instruction
  <2>6. ASSUME NEW pending \in BOOLEAN, NEW link \in Words, SpsrRestore(pending, link)
        PROVE  MachineOK' /\ Registry!Instruction
    BY <2>6, SpsrRestoreStep DEF Registry!Instruction
  <2>7. ASSUME NEW link \in Words, Swi(link) PROVE MachineOK' /\ Registry!Instruction
    BY <2>7, SwiStep DEF Registry!Instruction
  <2>8. CASE Reset
    BY <2>8, ResetStep DEF Registry!Instruction
  <2> QED BY <1>2, <2>1, <2>2, <2>3, <2>4, <2>5, <2>6, <2>7, <2>8 DEF Instruction, Call
<1>3. ASSUME NEW fields \in SUBSET Fields \ {{}}, Msr(fields), named' = fields
      PROVE  TypeOK' /\ (LossyStores \/ Registry!Next)
  <2>1. MachineOK' /\ (LossyStores \/ \E p \in Registry!Psrs : Registry!Msr(fields, p))
    <3>1. ASSUME NEW p \in Statuses PROVE p \in Registry!Psrs
      BY DEF Statuses, Psrs, Modes, Registry!Psrs, Registry!Modes
    <3>2. ASSUME NEW p \in Statuses, StoreSpsr(fields, p)
          PROVE  MachineOK' /\ (LossyStores \/ Registry!Msr(fields, p))
      BY <3>2, StoreSpsrStep DEF Registry!Msr
    <3>3. ASSUME NEW p \in Statuses, NEW pending \in BOOLEAN, NEW link \in Words,
                 StoreCpsr(fields, Merged(p, fields, cpsr), pending, link)
          PROVE  MachineOK' /\ (LossyStores \/ Registry!Msr(fields, p))
      BY <3>3, StoreCpsrStep DEF Registry!Msr
    <3> QED BY <1>3, <3>1, <3>2, <3>3 DEF Msr
  <2>2. fields \in SUBSET Registry!Fields \ {{}} /\ fields \subseteq Fields
    BY DEF Registry!Fields, Fields
  <2> QED BY <1>3, <2>1, <2>2 DEF Registry!Next
<1> QED BY <1>1, <1>2, <1>3 DEF Next

-----------------------------------------------------------------------------
(* Without interrupts raised inside a store, the banks are at all times    *)
(* those of the mode in the CPSR (set_cpu_mode).                           *)
THEOREM Typed == ASSUME ~DmaInterrupts PROVE Spec => []TypeOK
<1>1. Init => TypeOK
  BY InitStep DEF TypeOK, Init
<1>2. TypeOK /\ [Next]_vars => TypeOK'
  BY NextStep
<1> QED BY <1>1, <1>2, PTL DEF Spec

(* Without interrupts raised inside a store, and without an MSR that       *)
(* leaves out fields stale in memory, the recompiled code's registers      *)
(* implement an ARM's banked registers (set_cpu_mode and the stubs of      *)
(* arm_stub.S): an MSR sets the fields it names and keeps the others.      *)
THEOREM Banking == ASSUME ~DmaInterrupts, ~LossyStores PROVE Spec => RegistersBanked
<1>1. Init => TypeOK /\ Registry!Init
  BY InitStep DEF TypeOK, Init
<1>2. TypeOK /\ [Next]_vars => TypeOK' /\ [Registry!Next]_(Registry!vars)
  BY NextStep
<1> QED BY <1>1, <1>2, PTL DEF Spec, RegistersBanked, Registry!Spec
=============================================================================
