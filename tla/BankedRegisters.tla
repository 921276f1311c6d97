-------------------------- MODULE BankedRegisters ---------------------------
(***************************************************************************)
(* The registers an ARM program sees: each mode has a stack pointer and a  *)
(* link register of its own, which nothing but a program in that mode or   *)
(* an exception into it changes; r5 stands for the registers all modes     *)
(* share, r8 for those FIQ mode has apart (only the shared one is kept     *)
(* here). An exception saves what the program status was and can be        *)
(* returned from.                                                          *)
(***************************************************************************)
CONSTANTS Words, Unset

VARIABLES
  psr,    \* the program status: mode, interrupts masked, Thumb, condition flags
  r5, r8,
  bank,   \* sp and lr of each mode
  spsr,   \* saved program status of each mode
  named   \* the fields the last instruction named, if it was an MSR

registers == <<psr, r5, r8, bank, spsr>>
vars == <<registers, named>>

Modes == {"user", "irq", "fiq", "supervisor", "abort", "undefined"}
Psrs == [mode : Modes, masked : BOOLEAN, thumb : BOOLEAN, nzcv : Words]
Fields == {"c", "f"}   \* of a status: the first three, the flags
Bank == [sp : Words, lr : Words]

Init ==
  /\ psr \in {p \in Psrs : p.mode = "user"}
  /\ r5 \in Words /\ r8 \in Words
  /\ bank \in [Modes -> Bank]
  /\ spsr = [m \in Modes |-> Unset]
  /\ named = {}

(* Any other instruction. *)
Other == UNCHANGED registers

Write(w) ==
  /\ \/ r5' = w /\ UNCHANGED <<r8, bank>>
     \/ psr.mode # "fiq" /\ r8' = w /\ UNCHANGED <<r5, bank>>
     \/ bank' = [bank EXCEPT ![psr.mode].sp = w] /\ UNCHANGED <<r5, r8>>
     \/ bank' = [bank EXCEPT ![psr.mode].lr = w] /\ UNCHANGED <<r5, r8>>
  /\ UNCHANGED <<psr, spsr>>

SetStatus(p) ==
  /\ psr' = p
  /\ UNCHANGED <<r5, r8, bank, spsr>>

Compare(w) == SetStatus([psr EXCEPT !.nzcv = w])

Exchange == SetStatus([psr EXCEPT !.thumb = ~@])

(* What an MSR with operand p that names these fields makes of the status  *)
(* old: the others keep their values.                                      *)
Stored(old, fields, p) ==
  [mode   |-> IF "c" \in fields THEN p.mode ELSE old.mode,
   masked |-> IF "c" \in fields THEN p.masked ELSE old.masked,
   thumb  |-> IF "c" \in fields THEN p.thumb ELSE old.thumb,
   nzcv   |-> IF "f" \in fields THEN p.nzcv ELSE old.nzcv]

(* MSR to the saved status. Where none was saved, all of it is stored.     *)
StoreSaved(fields, p) ==
  /\ psr.mode # "user" /\ ~psr.thumb
  /\ fields = Fields \/ spsr[psr.mode] # Unset
  /\ spsr' = [spsr EXCEPT ![psr.mode] = IF fields = Fields THEN p ELSE Stored(@, fields, p)]
  /\ UNCHANGED <<psr, r5, r8, bank>>

(* An exception into mode m out of status p. *)
Enter(m, p, masked, link) ==
  /\ psr' = [mode |-> m, masked |-> masked, thumb |-> FALSE, nzcv |-> p.nzcv]
  /\ spsr' = [spsr EXCEPT ![m] = p]
  /\ bank' = [bank EXCEPT ![m].lr = link]
  /\ UNCHANGED <<r5, r8>>

Interrupt(p, link) == ~p.masked /\ Enter("irq", p, TRUE, link)

(* MSR, an ARM instruction: the control bits it writes may let an          *)
(* interrupt in.                                                           *)
StoreStatus(fields, p, link) ==
  LET new == Stored(psr, fields, p) IN
  /\ ~psr.thumb /\ ~new.thumb
  /\ \/ SetStatus(new)
     \/ "c" \in fields /\ Interrupt(new, link)

Swi(link) == Enter("supervisor", psr, psr.masked, link)

(* The return from an exception, to p or into the interrupt p lets in. *)
Return ==
  LET p == spsr[psr.mode] IN
  p # Unset /\ (SetStatus(p) \/ \E link \in Words : Interrupt(p, link))

Reset ==
  /\ psr' \in {p \in Psrs : p.mode = "user"}
  /\ r5' \in Words /\ r8' \in Words
  /\ bank' \in [Modes -> Bank]
  /\ UNCHANGED spsr

Msr(fields, p) == StoreSaved(fields, p) \/ \E link \in Words : StoreStatus(fields, p, link)

Instruction ==
  \/ Other
  \/ \E w \in Words : Write(w) \/ Compare(w)
  \/ Exchange
  \/ \E link \in Words : Interrupt(psr, link) \/ Swi(link)
  \/ Return
  \/ Reset

Next ==
  \/ named' = {} /\ Instruction
  \/ \E fields \in SUBSET Fields \ {{}} :
       named' = fields /\ \E p \in Psrs : Msr(fields, p)

Spec == Init /\ [][Next]_vars
=============================================================================
