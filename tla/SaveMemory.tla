----------------------------- MODULE SaveMemory -----------------------------
(***************************************************************************)
(* The save memory of a game (gamepak_backup) and its .sav file:           *)
(* src/jni/gbalib/memory.c.                                                *)
(*                                                                         *)
(* The cartridge chip is guessed from what the game does: write_backup and *)
(* read_backup tell SRAM from flash, a DMA to 0x0D000000 tells EEPROM, and *)
(* the guess decides how many bytes save_backup writes, a few frames       *)
(* (write_backup_delay) after the last write. reset_gba, load_gamepak,     *)
(* load_state and the death of the process come at any moment between.     *)
(*                                                                         *)
(* Data: gamepak_backup is cut at the five sizes a .sav file can have, and *)
(* a region is only known as the game's own data or as another game's.     *)
(* Everything here runs on the emulator thread, or on the UI thread while  *)
(* that one is parked (EmulatorControl!MachineExclusive).                  *)
(***************************************************************************)
EXTENDS Integers

CONSTANTS
  Games,
  Cartridges, \* which games the user may have, with the chips in them
  NoGame,   \* no game is loaded
  Slots,    \* savestate slots
  Delay     \* write_backup_delay

Kinds == {"sram", "flash64", "flash128", "eeprom512", "eeprom8k"}

ASSUME SaveMemoryAssumption ==
  /\ Cartridges \subseteq UNION {[S -> Kinds] : S \in SUBSET Games}
  /\ NoGame \notin Games
  /\ Delay \in Nat \ {0}

(* Regions end at 0x200, 0x2000, 0x8000, 0x10000 and 0x20000.              *)
Regions == 1..5
Absent  == -1       \* there is no .sav file
Far     == Delay + 2 \* backup_update after 0 - 1 wrapped: 2^32 frames away

VARIABLES
  kind,          \* the games the user has and their chips
  game,          \* the loaded game
  chip,          \* backup_type, sram_size, flash_*, eeprom_size
  backup_update, \* frames until the file is written; Delay + 1 when idle
  data,          \* the regions of gamepak_backup with data of this game
  junk,          \* the regions with bytes another game left
  file,          \* the size of each game's .sav file, in regions
  onFile,        \* the regions whose data the file has
  fileJunk,      \* the regions of the file with another game's bytes
  driver,        \* the game's flash library: its phase and the bank it chose
  snap,          \* the savestates
  spoiled        \* history: the games that met one of the hazards below

vars == <<kind, game, chip, backup_update, data, junk, file, onFile, fileJunk,
          driver, snap, spoiled>>
fileVars == <<file, onFile, fileJunk>>

InitChip == [backup_type |-> "none", sram_size |-> "32KB",
             flash_mode |-> "base", flash_command_position |-> 0,
             flash_bank |-> 0, flash_size |-> "64KB", eeprom_size |-> "512B"]
InitDriver == [phase |-> "idle", bank |-> 0]
NoSnap == [game |-> NoGame, chip |-> InitChip, driver |-> InitDriver, old |-> FALSE]

Init ==
  /\ kind \in Cartridges
  /\ game = NoGame
  /\ chip = InitChip
  /\ backup_update = 0
  /\ data = {}
  /\ junk = {}
  /\ file = [g \in Games |-> Absent]
  /\ onFile = [g \in Games |-> {}]
  /\ fileJunk = [g \in Games |-> {}]
  /\ driver = InitDriver
  /\ snap = [s \in Slots |-> NoSnap]
  /\ spoiled = {}

Pending == backup_update \in 1..Delay

-----------------------------------------------------------------------------
(* The game's accesses. *)

(* Game data goes to the regions R, and the file no longer has it.         *)
Write(R) ==
  /\ data' = data \cup R
  /\ onFile' = [onFile EXCEPT ![game] = @ \ R]

(* if(backup_type == BACKUP_NONE) backup_type = BACKUP_SRAM;               *)
Detected(t) == IF t = "none" THEN "sram" ELSE t

Flash == {g \in DOMAIN kind : kind[g] \in {"flash64", "flash128"}}

ReadBackup ==
  /\ game \in Games
  /\ kind[game] \in {"sram", "flash64", "flash128"}
  /\ chip' = [chip EXCEPT !.backup_type = Detected(@)]
  /\ UNCHANGED <<game, backup_update, data, junk, fileVars, driver, snap, spoiled>>

(* The region of an address of the 64KB window.                            *)
Addresses == {"0000", "2AAA", "5555", "8000"}
Region(bank, a) ==
  IF bank = 1 THEN 5 ELSE CASE a = "0000" -> 1 [] a = "8000" -> 4 [] OTHER -> 3
(* The 4KB sector at the address.                                          *)
Sector(bank, a) == IF bank = 0 /\ a = "0000" THEN {1, 2} ELSE {Region(bank, a)}

(* The commands of the flash chip, as <<flash_mode, value, new flash_mode>>*)
Commands == {<<"base", "90", "id">>, <<"base", "80", "erase">>,
             <<"id", "F0", "base">>, <<"base", "A0", "write">>,
             <<"base", "B0", "bankswitch">>, <<"erase", "10", "base">>}
ModesAfter(m, v) ==
  LET found == {c \in Commands : c[1] = m /\ c[2] = v}
  IN IF found = {} THEN {m} ELSE {c[3] : c \in found}

(* A 128KB chip is erased or programmed while it is still taken for 64KB.  *)
Undersized == kind[game] = "flash128" /\ chip.flash_size = "64KB"

(* A bug: 0x5555 takes commands in every mode.                             *)
AlwaysCommand(a) == a = "5555"
TakesCommand(a) == a = "5555" /\ chip.flash_mode # "write"

(* if(backup_type == BACKUP_NONE) backup_type = BACKUP_SRAM comes first.   *)
Touched == [chip EXCEPT !.backup_type = Detected(@)]

(* write_backup, first branch: 0x5555 takes commands unless a byte is to   *)
(* be programmed there. An SRAM byte is stored without a write-back.       *)
WriteAt5555(v) ==
  LET pos     == chip.flash_command_position
      unlock  == pos = 0 /\ v = "AA"
      command == pos = 2
      erase   == command /\ v = "10" /\ chip.flash_mode = "erase"
      sram    == ~unlock /\ Touched.backup_type = "sram"
      all     == IF chip.flash_size = "64KB" THEN 1..4 ELSE 1..5
  IN /\ \E m \in (IF command THEN ModesAfter(chip.flash_mode, v)
                             ELSE {chip.flash_mode}) :
          chip' = [Touched EXCEPT
            !.backup_type = IF unlock THEN "flash" ELSE @,
            !.flash_mode = m,
            !.flash_command_position =
               IF unlock THEN 1 ELSE IF command THEN 0 ELSE @,
            !.flash_size = IF command /\ v = "B0" THEN "128KB" ELSE @]
     /\ backup_update' = IF erase THEN Delay ELSE backup_update
     /\ Write(IF erase THEN all ELSE IF sram THEN {3} ELSE {})
     /\ junk' = IF erase THEN junk \ all ELSE junk
     /\ spoiled' = IF sram \/ (erase /\ Undersized)
                       \/ (unlock /\ kind[game] = "sram")
                    THEN spoiled \cup {game} ELSE spoiled

(* The other branches, in the order of the code.                           *)
Unlock ==
  /\ chip' = [Touched EXCEPT !.flash_command_position = 2]
  /\ UNCHANGED <<backup_update, data, onFile, junk, spoiled>>

EraseSector(a) ==
  /\ chip' = [Touched EXCEPT !.flash_mode = "base", !.flash_command_position = 0]
  /\ Write(Sector(chip.flash_bank, a))
  /\ backup_update' = Delay
  /\ spoiled' = IF Undersized THEN spoiled \cup {game} ELSE spoiled
  /\ UNCHANGED junk

SwitchBank(v) ==
  /\ chip' = [Touched EXCEPT !.flash_mode = "base",
                             !.flash_bank = IF v = "bank1" THEN 1 ELSE 0]
  /\ UNCHANGED <<backup_update, data, onFile, junk, spoiled>>

(* A bug: no write-back for a programmed byte.                             *)
ProgramUnsaved(a) ==
  /\ chip' = [Touched EXCEPT !.flash_mode = "base"]
  /\ Write({Region(chip.flash_bank, a)})
  /\ UNCHANGED <<backup_update, junk, spoiled>>

ProgramByte(a) ==
  /\ chip' = [Touched EXCEPT !.flash_mode = "base"]
  /\ Write({Region(chip.flash_bank, a)})
  /\ backup_update' = Delay
  /\ spoiled' = IF Undersized THEN spoiled \cup {game} ELSE spoiled
  /\ UNCHANGED junk

SramWrite(a) ==
  /\ chip' = [Touched EXCEPT !.sram_size = IF a = "8000" THEN "64KB" ELSE @]
  /\ Write({Region(0, a)})
  /\ backup_update' = Delay
  /\ UNCHANGED <<junk, spoiled>>

WriteBackup(a, v) ==
  LET pos  == chip.flash_command_position
      mode == chip.flash_mode
  IN IF TakesCommand(a) THEN WriteAt5555(v)
     ELSE IF a = "2AAA" /\ v = "55" /\ pos = 1 THEN Unlock
     ELSE IF pos = 2 /\ mode = "erase" /\ v = "30" THEN EraseSector(a)
     ELSE IF pos = 0 /\ mode = "bankswitch" /\ a = "0000"
             /\ chip.flash_size = "128KB" THEN SwitchBank(v)
     ELSE IF pos = 0 /\ mode = "write" THEN ProgramByte(a)
     ELSE IF Touched.backup_type = "sram" THEN SramWrite(a)
     ELSE /\ chip' = Touched
          /\ UNCHANGED <<backup_update, data, onFile, junk, spoiled>>

(* A game with SRAM stores anything anywhere in its 32KB.                  *)
SramGameWrites ==
  /\ game \in Games /\ kind[game] = "sram"
  /\ \E a \in Addresses \ {"8000"}, v \in {"AA", "data"} : WriteBackup(a, v)
  /\ UNCHANGED <<game, file, fileJunk, driver, snap>>

(* The command sequences of a flash library, one write at a time:          *)
(* <<phase, address, value, next phase>>.                                  *)
Protocol ==
  {<<"idle", "5555", "AA", "unlock1">>, <<"unlock1", "2AAA", "55", "unlock2">>,
   <<"unlock2", "5555", "90", "id">>, <<"unlock2", "5555", "A0", "program">>,
   <<"unlock2", "5555", "80", "erase">>, <<"unlock2", "5555", "B0", "bank">>,
   <<"bank", "0000", "bank0", "idle">>, <<"bank", "0000", "bank1", "idle">>,
   <<"erase", "5555", "AA", "erase1">>, <<"erase1", "2AAA", "55", "erase2">>,
   <<"erase2", "5555", "10", "idle">>,
   <<"id", "5555", "AA", "id1">>, <<"id1", "2AAA", "55", "id2">>,
   <<"id2", "5555", "F0", "idle">>}
  \cup {<<"program", a, v, "idle">> : a \in Addresses, v \in {"AA", "55", "data"}}
  \cup {<<"erase2", a, "30", "idle">> : a \in {"0000", "8000"}}

FlashGameWrites ==
  /\ game \in Flash
  /\ \E w \in Protocol :
       /\ driver.phase = w[1]
       /\ w[3] = "B0" => kind[game] = "flash128"
       /\ WriteBackup(w[2], w[3])
       /\ driver' = [phase |-> w[4],
                     bank |-> IF w[1] = "bank" THEN (IF w[3] = "bank1" THEN 1 ELSE 0)
                              ELSE driver.bank]
  /\ UNCHANGED <<game, file, fileJunk, snap>>

(* A bug: only the 17 bits of a read request tell the size.               *)
EepromSizeByRead(R) ==
  /\ game \in Games /\ kind[game] \in {"eeprom512", "eeprom8k"}
  /\ chip' = [chip EXCEPT !.backup_type = "eeprom",
       !.eeprom_size = IF R = {} /\ kind[game] = "eeprom8k" THEN "8KB" ELSE @]
  /\ Write(R)
  /\ backup_update' = IF R = {} THEN backup_update ELSE Delay
  /\ UNCHANGED <<game, junk, file, fileJunk, driver, snap, spoiled>>

(* A whole EEPROM command, which is one DMA transfer: trigger_dma sees the *)
(* 17 or 81 bits of an 8KB chip, write_eeprom takes the bits.              *)
EepromCommand(R) ==
  /\ game \in Games /\ kind[game] \in {"eeprom512", "eeprom8k"}
  /\ chip' = [chip EXCEPT !.backup_type = "eeprom",
               !.eeprom_size = IF kind[game] = "eeprom8k" THEN "8KB" ELSE @]
  /\ Write(R)
  /\ backup_update' = IF R = {} THEN backup_update ELSE Delay
  /\ UNCHANGED <<game, junk, file, fileJunk, driver, snap, spoiled>>

EepromRead  == EepromCommand({})
EepromWrite ==
  \E r \in 1..2 : EepromCommand({r}) /\ (r = 2 => kind[game] = "eeprom8k")

-----------------------------------------------------------------------------
(* The end of a frame: update_backup and save_backup.                      *)

BackupSize ==
  CASE chip.backup_type = "sram"   -> IF chip.sram_size = "32KB" THEN 3 ELSE 4
    [] chip.backup_type = "flash"  -> IF chip.flash_size = "64KB" THEN 4 ELSE 5
    [] chip.backup_type = "eeprom" -> IF chip.eeprom_size = "512B" THEN 1 ELSE 2

(* fopen(name, "wb") truncates; so much of the chip then gets written. *)
WriteFile(size) ==
  /\ file' = [file EXCEPT ![game] = size]
  /\ onFile' = [onFile EXCEPT ![game] = data \cap 1..size]
  /\ fileJunk' = [fileJunk EXCEPT ![game] = junk \cap 1..size]

(* Where the file cannot be opened, or the disk is full, nobody is told. *)
SaveBackup ==
  IF chip.backup_type = "none"
  THEN UNCHANGED <<fileVars, spoiled>>
  ELSE \/ WriteFile(BackupSize) /\ UNCHANGED spoiled
       \/ /\ UNCHANGED fileVars \/ \E size \in 0..BackupSize - 1 : WriteFile(size)
          /\ spoiled' = spoiled \cup {game}

(* A bug: the idle value is one too small.                                 *)
CountdownStuck ==
  IF backup_update \in Delay..Delay + 1 THEN backup_update
  ELSE IF backup_update \in {0, Far} THEN Far
  ELSE backup_update - 1

Countdown ==
  IF backup_update = Delay + 1 THEN backup_update
  ELSE IF backup_update \in {0, Far} THEN Far
  ELSE backup_update - 1

UpdateBackup ==
  /\ game \in Games
  /\ IF Countdown = 0
     THEN backup_update' = Delay + 1 /\ SaveBackup
     ELSE backup_update' = Countdown /\ UNCHANGED <<fileVars, spoiled>>
  /\ UNCHANGED <<game, chip, data, junk, driver, snap>>

-----------------------------------------------------------------------------
(* The UI thread, with the emulator parked, and the end of the process.    *)

(* A write-back is pending while the machine under it is exchanged.        *)
SpoilIfPending(G) == spoiled' = IF Pending THEN spoiled \cup (G \cap Games) ELSE spoiled

(* init_memory, from reset_gba. *)
ResetChip(c) ==
  [c EXCEPT !.backup_type = "none", !.sram_size = "32KB", !.flash_size = "64KB",
            !.flash_bank = 0, !.flash_command_position = 0,
            !.eeprom_size = "512B", !.flash_mode = "base"]

(* load_backup guesses the chip from the size of the file. In case 0x10000 *)
(* it is sram_size that gets FLASH_SIZE_64KB, which is 0: 32KB.            *)
ChipFromFile(c, size) ==
  CASE size = Absent -> [c EXCEPT !.backup_type = "none"]
    [] size = 0 -> c
    [] size = 1 -> [c EXCEPT !.backup_type = "eeprom", !.eeprom_size = "512B"]
    [] size = 2 -> [c EXCEPT !.backup_type = "eeprom", !.eeprom_size = "8KB"]
    [] size = 3 -> [c EXCEPT !.backup_type = "sram", !.sram_size = "32KB"]
    [] size = 4 -> [c EXCEPT !.backup_type = "flash", !.sram_size = "32KB"]
    [] size = 5 -> [c EXCEPT !.backup_type = "flash", !.flash_size = "128KB"]

(* A bug: gamepak_backup is not filled when there is no file.              *)
JunkKept(g) == ((junk \cup data) \ 1..file[g]) \cup fileJunk[g]

(* load_backup reads the file over gamepak_backup, or fills all of it.     *)
JunkAfterLoad(g) ==
  IF file[g] = Absent THEN {}
  ELSE ((junk \cup data) \ 1..file[g]) \cup fileJunk[g]

LoadROM(g) ==
  /\ game' = g
  /\ chip' = ResetChip(ChipFromFile(chip, file[g]))
  /\ data' = onFile[g]
  /\ junk' = JunkAfterLoad(g)
  /\ driver' = InitDriver
  /\ SpoilIfPending({game, g})
  /\ UNCHANGED <<backup_update, fileVars, snap>>

Reset ==
  /\ game \in Games
  /\ chip' = ResetChip(chip)
  /\ driver' = InitDriver
  /\ SpoilIfPending({game})
  /\ UNCHANGED <<game, backup_update, data, junk, fileVars, snap>>

UnloadROM ==
  /\ game \in Games
  /\ game' = NoGame
  /\ SpoilIfPending({game})
  /\ UNCHANGED <<chip, backup_update, data, junk, fileVars, driver, snap>>

(* memory_write_mem_savestate and memory_read_savestate end with the same  *)
(* check of flash_bank_ptr, which both banks pass.                         *)
(* A bug: the upper bank is taken for out of range.                        *)
BankBelowUpper(b) == b = 0
BankInRange(b) == b \in {0, 1}
Checked(c) == IF BankInRange(c.flash_bank) THEN c ELSE [c EXCEPT !.flash_bank = 0]

SaveState(s) ==
  /\ game \in Games
  /\ snap' = [snap EXCEPT ![s] =
               [game |-> game, chip |-> chip, driver |-> driver, old |-> FALSE]]
  /\ chip' = Checked(chip)
  /\ UNCHANGED <<game, backup_update, data, junk, fileVars, driver, spoiled>>

LoadState(s) ==
  /\ game \in Games
  /\ snap[s].game = game
  /\ chip' = Checked(snap[s].chip)
  /\ driver' = snap[s].driver
  /\ spoiled' = IF Pending \/ snap[s].old THEN spoiled \cup {game} ELSE spoiled
  /\ UNCHANGED <<game, backup_update, data, junk, fileVars, snap>>

(* The process dies. If it was in save_backup the file is cut short. The   *)
(* next process has gamepak_backup elsewhere: the pointer flash_bank_ptr   *)
(* of a savestate is out of its range, or by chance is not.                *)
Kill ==
  /\ game' = NoGame
  /\ chip' = InitChip
  /\ backup_update' = 0
  /\ data' = {}
  /\ junk' = {}
  /\ driver' = InitDriver
  /\ IF game \in Games /\ backup_update = 1 /\ chip.backup_type # "none"
     THEN UNCHANGED fileVars \/ \E size \in 0..BackupSize : WriteFile(size)
     ELSE UNCHANGED fileVars
  /\ \E bank \in [Slots -> 0..1] :
       snap' = [s \in Slots |->
         [snap[s] EXCEPT !.old = snap[s].game \in Games,
            !.chip.flash_bank = IF snap[s].chip.flash_bank = 0 THEN 0 ELSE bank[s]]]
  /\ SpoilIfPending({game})

-----------------------------------------------------------------------------
GameStep ==
  ReadBackup \/ SramGameWrites \/ FlashGameWrites \/ EepromRead \/ EepromWrite

Frame == UpdateBackup /\ UNCHANGED kind

Next ==
  /\ \/ GameStep
     \/ Frame
     \/ \E g \in DOMAIN kind : LoadROM(g)
     \/ Reset
     \/ UnloadROM
     \/ \E s \in Slots : SaveState(s) \/ LoadState(s)
     \/ Kill
  /\ UNCHANGED kind

Spec == Init /\ [][Next]_vars

(* The frames of a running game go on. *)
FairSpec == Spec /\ WF_vars(Frame)

-----------------------------------------------------------------------------
Chips == [backup_type : {"none", "sram", "flash", "eeprom"},
          sram_size : {"32KB", "64KB"},
          flash_mode : {"base", "erase", "id", "write", "bankswitch"},
          flash_command_position : 0..2,
          flash_bank : 0..1,
          flash_size : {"64KB", "128KB"},
          eeprom_size : {"512B", "8KB"}]
Phases == {"idle", "unlock1", "unlock2", "program", "bank", "erase", "erase1",
           "erase2", "id", "id1", "id2"}
Drivers == [phase : Phases, bank : 0..1]

TypeOK ==
  /\ kind \in Cartridges
  /\ game \in Games \cup {NoGame}
  /\ chip \in Chips
  /\ backup_update \in 0..Far
  /\ data \subseteq Regions
  /\ junk \subseteq Regions
  /\ file \in [Games -> {Absent} \cup 0..5]
  /\ onFile \in [Games -> SUBSET Regions]
  /\ fileJunk \in [Games -> SUBSET Regions]
  /\ driver \in Drivers
  /\ snap \in [Slots -> [game : Games \cup {NoGame}, chip : Chips,
                         driver : Drivers, old : BOOLEAN]]
  /\ spoiled \subseteq Games

Sound(g) == g \in Games \ spoiled

(* Whatever the game stored is in its .sav file as soon as the countdown   *)
(* is over, whichever chip it has and however its accesses, frames, resets *)
(* and savestates fall, except after the hazards that "spoiled" records.   *)
Durable == Sound(game) /\ ~Pending => data \subseteq onFile[game]

(* A game that stops storing and keeps running gets its last data written. *)
WrittenInTheEnd ==
  <>[][Frame]_vars /\ <>[](game \in Games) => <>[]~Pending

(* The size of a game's own chip, and of its file. *)
KindSize(g) ==
  CASE kind[g] = "sram" -> 3 [] kind[g] = "flash64" -> 4 [] kind[g] = "flash128" -> 5
    [] kind[g] = "eeprom512" -> 1 [] kind[g] = "eeprom8k" -> 2
KindRegions(g) == 1..KindSize(g)

(* gamepak_backup is not cleared between two games. Still no game finds in *)
(* its chip, or in its file, the bytes of the game that ran before it.     *)
NoForeignBytes ==
  /\ Sound(game) => junk \cap KindRegions(game) = {}
  /\ \A g \in DOMAIN kind : Sound(g) => fileJunk[g] \cap KindRegions(g) = {}

(* save_backup opens the file with "wb" and writes as many bytes as the    *)
(* chip is believed to have: it never cuts off data the file already had.  *)
FileNeverShrinks ==
  [][\A g \in Games \ spoiled' : file'[g] >= file[g]]_vars

(* flash_mode and flash_command_position stay in step with the library of  *)
(* a flash game, over resets, savestates and bytes that look like commands *)
(* (0xAA programmed at 0x5555), so that no command is lost or invented.    *)
ModeOf(phase) ==
  CASE phase \in {"idle", "unlock1", "unlock2"} -> "base"
    [] phase = "program" -> "write"
    [] phase = "bank" -> "bankswitch"
    [] phase \in {"erase", "erase1", "erase2"} -> "erase"
    [] phase \in {"id", "id1", "id2"} -> "id"
PositionOf(phase) ==
  IF phase \in {"unlock1", "erase1", "id1"} THEN 1
  ELSE IF phase \in {"unlock2", "erase2", "id2"} THEN 2 ELSE 0

InStep ==
  game \in Flash =>
    /\ chip.flash_mode = ModeOf(driver.phase)
    /\ chip.flash_command_position = PositionOf(driver.phase)
    /\ driver.phase # "idle" => chip.backup_type = "flash"

(* Bytes go to the bank the game has chosen, over savestates too, unless   *)
(* the savestate was written by an earlier process.                        *)
BankKept == game \in Flash /\ Sound(game) => chip.flash_bank = driver.bank
=============================================================================
