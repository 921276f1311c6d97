--------------------------- MODULE MachineHandoff ---------------------------
(***************************************************************************)
(* What the control code of emulator.cpp promises about the emulated       *)
(* machine (registers, memories, gamepak, sound and video state): it has   *)
(* one owner at a time, the emulator thread or the UI thread; the UI       *)
(* thread may exchange the whole machine while it owns it (reset, load a   *)
(* ROM, load a state); and the emulator thread, when it gets such a        *)
(* machine, starts again from the machine's own registers and hands        *)
(* nothing back before it has done so.                                     *)
(***************************************************************************)

VARIABLES
  owner,  \* the thread that may read and write the machine
  fresh   \* the emulator thread's registers and locals are this machine's

vars == <<owner, fresh>>

Threads == {"ui", "emu"}

TypeOK ==
  /\ owner \in Threads
  /\ fresh \in BOOLEAN

(* The emulator thread waits for its first start: no machine is loaded.    *)
Init ==
  /\ owner = "ui"
  /\ fresh = FALSE

(* The UI thread puts another machine in the place of the current one.     *)
Replace ==
  /\ owner = "ui"
  /\ fresh' = FALSE
  /\ UNCHANGED owner

(* The UI thread hands the machine to the emulator thread.                 *)
Lend ==
  /\ owner = "ui"
  /\ owner' = "emu"
  /\ UNCHANGED fresh

(* The emulator thread drops what it knows of an earlier machine.          *)
Restart ==
  /\ owner = "emu"
  /\ ~fresh
  /\ fresh' = TRUE
  /\ UNCHANGED owner

(* The emulator thread parks: its last machine is back in memory.          *)
GiveBack ==
  /\ owner = "emu"
  /\ fresh
  /\ owner' = "ui"
  /\ UNCHANGED fresh

Next == Replace \/ Lend \/ Restart \/ GiveBack

Safety == Init /\ [][Next]_vars

Spec == Safety /\ WF_vars(Restart)
=============================================================================
