---------------------------- MODULE MCCpuModes ------------------------------
EXTENDS CpuModes, FiniteSetsExt

(* Few words differ from Zero. Every value is a copy of one that was       *)
(* written, so that a marked word shows any register that moved.           *)
CONSTANT Marks

Marked ==
  Cardinality({r \in Registers : reg[r] # Zero})
  + Cardinality({<<m, r>> \in Modes \X Banked : reg_mode[m][r] # Zero})
  + Cardinality({m \in Modes : spsr[m] # Unset /\ spsr[m].nzcv # Zero})
  + (IF reg_x5 # Zero THEN 1 ELSE 0) + (IF reg_flags # Zero THEN 1 ELSE 0)
FewMarks == Marked <= Marks

(* No exception enters FIQ mode. *)
NoFiqReturn == spsr["fiq"] = Unset

(* The history variable named labels the step into a state: no action      *)
(* reads it, and each step is checked with its own label.                  *)
Unlabelled == <<reg, mode, cpsr, reg_mode, spsr, reg_x5, reg_flags, entered>>
=============================================================================
