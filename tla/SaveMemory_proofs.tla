------------------------- MODULE SaveMemory_proofs --------------------------
(***************************************************************************)
(* What a game stores stays its own and reaches its file, for any games,   *)
(* chips, savestates and any delay of the write-back.                      *)
(***************************************************************************)
EXTENDS SaveMemory, TLAPS

-----------------------------------------------------------------------------
(* The inductive invariant. *)

(* Only games the user has are played or saved. *)
Loaded ==
  /\ game \in DOMAIN kind \cup {NoGame}
  /\ \A s \in Slots : snap[s].game \in DOMAIN kind \cup {NoGame}

(* The commands of the library and the mode of the chip c go together. *)
FollowsLibrary(c, d) ==
  /\ c.flash_mode = ModeOf(d.phase)
  /\ c.flash_command_position = PositionOf(d.phase)
  /\ d.phase # "idle" => c.backup_type = "flash"
  /\ d.phase = "bank" => c.flash_size = "128KB"

(* The chip c was not taken for a larger one than the game g has. *)
Fits(g, c, d) ==
  /\ kind[g] = "sram" =>
       /\ c.sram_size = "32KB"
       /\ Sound(g) => /\ c.backup_type \in {"none", "sram"}
                      /\ c.flash_mode = "base" /\ c.flash_command_position = 0
  /\ kind[g] = "flash64" => c.flash_size = "64KB" /\ d.bank = 0
  /\ kind[g] = "eeprom512" => c.eeprom_size = "512B"
  /\ g \in Flash => FollowsLibrary(c, d)

ChipFits == game # NoGame => Fits(game, chip, driver)

SnapsFit ==
  \A s \in Slots :
    LET x == snap[s] IN
    x.game # NoGame =>
      /\ Fits(x.game, x.chip, x.driver)
      /\ x.game \in Flash /\ Sound(x.game) /\ ~x.old => x.chip.flash_bank = x.driver.bank

(* The chip of the game g is known for what it is. *)
Known(g, c) ==
  /\ kind[g] = "sram" => c.backup_type = "sram"
  /\ kind[g] \in {"flash64", "flash128"} => c.backup_type = "flash"
  /\ kind[g] = "flash128" => c.flash_size = "128KB"
  /\ kind[g] \in {"eeprom512", "eeprom8k"} => c.backup_type = "eeprom"
  /\ kind[g] = "eeprom8k" => c.eeprom_size = "8KB"

Playing ==
  Sound(game) =>
    /\ data \subseteq KindRegions(game) /\ junk \cap KindRegions(game) = {}
    /\ IF Pending THEN Known(game, chip) ELSE data \subseteq onFile[game]

OwnFile(g) ==
  /\ file[g] \in {Absent, KindSize(g)}
  /\ onFile[g] \subseteq KindRegions(g)
  /\ fileJunk[g] \cap KindRegions(g) = {}

Files == \A g \in DOMAIN kind : Sound(g) => OwnFile(g)

Inv == TypeOK /\ Loaded /\ ChipFits /\ BankKept /\ SnapsFit /\ Playing /\ Files

-----------------------------------------------------------------------------
(* Types. *)

LEMMA DelayPositive == Delay \in Nat \ {0} /\ Far \in Nat /\ NoGame \notin Games
  BY SaveMemoryAssumption DEF Far

LEMMA KindsOf == TypeOK => DOMAIN kind \subseteq Games /\ \A g \in DOMAIN kind : kind[g] \in Kinds
  BY SaveMemoryAssumption DEF TypeOK

FlashModes == {"base", "erase", "id", "write", "bankswitch"}

ChipOf(t, s, m, p, b, f, e) ==
  [backup_type |-> t, sram_size |-> s, flash_mode |-> m, flash_command_position |-> p,
   flash_bank |-> b, flash_size |-> f, eeprom_size |-> e]

LEMMA ModesAfterTypes ==
  ASSUME NEW m \in FlashModes, NEW v
  PROVE  ModesAfter(m, v) \subseteq FlashModes
  BY DEF ModesAfter, Commands, FlashModes

LEMMA ChipTypes ==
  /\ InitChip \in Chips /\ InitDriver \in Drivers
  /\ \A c \in Chips : ResetChip(c) = InitChip /\ Checked(c) = c
<1>1. InitChip \in Chips /\ InitDriver \in Drivers
  BY DEF InitChip, InitDriver, Chips, Drivers, Phases
<1>2. ASSUME NEW c \in Chips, NEW d, d = ResetChip(c) PROVE d = InitChip
  BY <1>2 DEF Chips, ResetChip, InitChip
<1>3. ASSUME NEW c \in Chips PROVE Checked(c) = c
  BY DEF Chips, Checked, BankInRange
<1> QED BY <1>1, <1>2, <1>3

LEMMA TouchedTypes ==
  chip \in Chips => /\ Touched \in Chips
                    /\ Touched.flash_mode = chip.flash_mode
                    /\ Touched.flash_command_position = chip.flash_command_position
                    /\ Touched.flash_bank = chip.flash_bank
                    /\ Touched.flash_size = chip.flash_size
                    /\ Touched.sram_size = chip.sram_size
                    /\ Touched.eeprom_size = chip.eeprom_size
                    /\ Touched.backup_type = Detected(chip.backup_type)
  BY DEF Touched, Detected, Chips

(* What write_backup does to the types, whatever the game. *)
LEMMA WriteTypes ==
  ASSUME TypeOK, game \in Games, NEW a \in Addresses, NEW v, WriteBackup(a, v)
  PROVE  /\ chip' \in Chips
         /\ backup_update' \in 0..Far
         /\ data' \subseteq Regions /\ junk' \subseteq Regions
         /\ onFile' \in [Games -> SUBSET Regions]
         /\ spoiled \subseteq spoiled' /\ spoiled' \subseteq Games
<1> USE DelayPositive
<1> DEFINE Wrote(R) == R \subseteq Regions /\ Write(R)
<1>0. ASSUME NEW R, Wrote(R) PROVE data' \subseteq Regions /\ onFile' \in [Games -> SUBSET Regions]
  BY <1>0 DEF Write, TypeOK
<1>1. Touched \in Chips /\ Delay \in 0..Far
  BY TouchedTypes DEF TypeOK, Far
<1>2. \A bank \in 0..1 : Region(bank, a) \in Regions /\ Sector(bank, a) \subseteq Regions
  BY DEF Region, Sector, Regions, Addresses
<1>3. chip.flash_bank \in 0..1 /\ chip.flash_mode \in FlashModes
  BY DEF TypeOK, Chips, FlashModes
<1>4. CASE WriteAt5555(v)
  <2>1. \E R : Wrote(R)
    BY <1>4 DEF WriteAt5555, Regions
  <2> DEFINE t == IF chip.flash_command_position = 0 /\ v = "AA" THEN "flash"
                  ELSE Touched.backup_type
             p == IF chip.flash_command_position = 0 /\ v = "AA" THEN 1
                  ELSE IF chip.flash_command_position = 2 THEN 0
                  ELSE Touched.flash_command_position
             f == IF chip.flash_command_position = 2 /\ v = "B0" THEN "128KB"
                  ELSE Touched.flash_size
  <2>2. PICK m \in FlashModes :
          chip' = [Touched EXCEPT !.backup_type = t, !.flash_mode = m,
                                  !.flash_command_position = p, !.flash_size = f]
    BY <1>3, <1>4, ModesAfterTypes DEF WriteAt5555
  <2>3. /\ t \in {"none", "sram", "flash", "eeprom"} /\ p \in 0..2 /\ f \in {"64KB", "128KB"}
        /\ Touched.sram_size \in {"32KB", "64KB"} /\ Touched.flash_bank \in 0..1
        /\ Touched.eeprom_size \in {"512B", "8KB"}
    BY <1>1 DEF Chips
  <2> HIDE DEF t, p, f
  <2>6. chip' = ChipOf(t, Touched.sram_size, m, p, Touched.flash_bank, f, Touched.eeprom_size)
    BY <1>1, <2>2 DEF Chips, ChipOf
  <2>4. chip' \in Chips
    BY <2>3, <2>6 DEF Chips, ChipOf, FlashModes
  <2>5. backup_update' \in 0..Far /\ junk' \subseteq Regions
        /\ spoiled \subseteq spoiled' /\ spoiled' \subseteq Games
    BY <1>1, <1>4 DEF WriteAt5555, TypeOK
  <2> QED BY <1>0, <2>1, <2>4, <2>5
<1>5. CASE Unlock
  <2>1. chip' \in Chips
    BY <1>1, <1>5 DEF Unlock, Chips
  <2> QED BY <1>5, <2>1 DEF Unlock, TypeOK
<1>6. CASE EraseSector(a)
  <2>1. Wrote(Sector(chip.flash_bank, a))
    BY <1>2, <1>3, <1>6 DEF EraseSector
  <2>2. chip' = ChipOf(Touched.backup_type, Touched.sram_size, "base", 0, Touched.flash_bank,
                       Touched.flash_size, Touched.eeprom_size)
    BY <1>1, <1>6 DEF EraseSector, Chips, ChipOf
  <2>3. chip' \in Chips
    BY <1>1, <2>2 DEF Chips, ChipOf
  <2> QED BY <1>0, <1>1, <1>6, <2>1, <2>3 DEF EraseSector, TypeOK
<1>7. CASE SwitchBank(v)
  <2>1. chip' = ChipOf(Touched.backup_type, Touched.sram_size, "base",
                       Touched.flash_command_position, IF v = "bank1" THEN 1 ELSE 0,
                       Touched.flash_size, Touched.eeprom_size)
    BY <1>1, <1>7 DEF SwitchBank, Chips, ChipOf
  <2>2. chip' \in Chips
    BY <1>1, <2>1 DEF Chips, ChipOf
  <2> QED BY <1>7, <2>2 DEF SwitchBank, TypeOK
<1>8. CASE ProgramByte(a)
  <2>1. Wrote({Region(chip.flash_bank, a)})
    BY <1>2, <1>3, <1>8 DEF ProgramByte
  <2>2. chip' \in Chips
    BY <1>1, <1>8 DEF ProgramByte, Chips
  <2> QED BY <1>0, <1>1, <1>8, <2>1, <2>2 DEF ProgramByte, TypeOK
<1>9. CASE SramWrite(a)
  <2>1. Wrote({Region(0, a)})
    BY <1>2, <1>9 DEF SramWrite
  <2>2. chip' \in Chips
    BY <1>1, <1>9 DEF SramWrite, Chips
  <2> QED BY <1>0, <1>1, <1>9, <2>1, <2>2 DEF SramWrite, TypeOK
<1>10. CASE chip' = Touched /\ UNCHANGED <<backup_update, data, onFile, junk, spoiled>>
  BY <1>1, <1>10 DEF TypeOK
<1> QED BY <1>4, <1>5, <1>6, <1>7, <1>8, <1>9, <1>10 DEF WriteBackup

LEMMA SizeTypes ==
  TypeOK /\ chip.backup_type # "none" => BackupSize \in 1..5
  BY DEF TypeOK, Chips, BackupSize

Snaps == [game : Games \cup {NoGame}, chip : Chips, driver : Drivers, old : BOOLEAN]

(* The savestates of a process that has died. *)
Aged(x, b) ==
  [x EXCEPT !.old = x.game \in Games,
            !.chip.flash_bank = IF x.chip.flash_bank = 0 THEN 0 ELSE b]

LEMMA OldSnap ==
  ASSUME NEW x \in Snaps, NEW b \in 0..1, NEW y, y = Aged(x, b)
  PROVE  /\ y \in Snaps /\ y.game = x.game /\ y.driver = x.driver
         /\ y.old = (x.game \in Games)
         /\ y.chip = [x.chip EXCEPT !.flash_bank = IF @ = 0 THEN 0 ELSE b]
<1>1. y.game = x.game /\ y.driver = x.driver /\ y.old = (x.game \in Games)
  BY DEF Snaps, Aged
<1>2. y.chip = [x.chip EXCEPT !.flash_bank = IF @ = 0 THEN 0 ELSE b]
  BY DEF Snaps, Aged
<1>3. y.chip \in Chips
  BY <1>2 DEF Snaps, Chips
<1>4. y = [game |-> y.game, chip |-> y.chip, driver |-> y.driver, old |-> y.old]
  BY DEF Snaps, Aged
<1> HIDE DEF Snaps
<1>5. y.game \in Games \cup {NoGame} /\ y.driver \in Drivers /\ y.old \in BOOLEAN
  BY <1>1 DEF Snaps
<1> QED BY <1>1, <1>2, <1>3, <1>4, <1>5 DEF Snaps

LEMMA GameTypes == TypeOK /\ GameStep /\ UNCHANGED kind => TypeOK'
<1> SUFFICES ASSUME TypeOK, GameStep, UNCHANGED kind PROVE TypeOK'
  OBVIOUS
<1> USE DelayPositive
<1>1. CASE ReadBackup
  <2>1. chip' \in Chips
    BY <1>1, TouchedTypes DEF ReadBackup, TypeOK, Touched
  <2> QED BY <1>1, <2>1 DEF ReadBackup, fileVars, TypeOK
<1>2. CASE SramGameWrites
  <2>1. PICK a \in Addresses : \E v : WriteBackup(a, v)
    BY <1>2 DEF SramGameWrites
  <2> QED BY <1>2, <2>1, WriteTypes DEF SramGameWrites, TypeOK
<1>3. CASE FlashGameWrites
  <2>1. PICK w \in Protocol :
          /\ WriteBackup(w[2], w[3])
          /\ driver' = [phase |-> w[4],
                        bank |-> IF w[1] = "bank" THEN (IF w[3] = "bank1" THEN 1 ELSE 0)
                                 ELSE driver.bank]
    BY <1>3 DEF FlashGameWrites
  <2>2. w[2] \in Addresses /\ w[4] \in Phases
    BY DEF Protocol, Addresses, Phases
  <2>3. driver' \in Drivers
    BY <2>1, <2>2 DEF TypeOK, Drivers
  <2>4. game \in Games
    BY <1>3, KindsOf DEF FlashGameWrites, Flash
  <2> QED BY <1>3, <2>1, <2>2, <2>3, <2>4, WriteTypes DEF FlashGameWrites, TypeOK
<1>4. ASSUME NEW R \in SUBSET Regions, EepromCommand(R) PROVE TypeOK'
  <2>1. chip' = ChipOf("eeprom", chip.sram_size, chip.flash_mode, chip.flash_command_position,
                       chip.flash_bank, chip.flash_size,
                       IF kind[game] = "eeprom8k" THEN "8KB" ELSE chip.eeprom_size)
    BY <1>4 DEF EepromCommand, TypeOK, Chips, ChipOf
  <2>2. chip' \in Chips
    BY <2>1 DEF TypeOK, Chips, ChipOf
  <2>3. data' \subseteq Regions /\ onFile' \in [Games -> SUBSET Regions]
    BY <1>4 DEF EepromCommand, Write, TypeOK
  <2>4. backup_update' \in 0..Far
    BY <1>4 DEF EepromCommand, TypeOK, Far
  <2> QED BY <1>4, <2>2, <2>3, <2>4 DEF EepromCommand, TypeOK
<1>5. CASE EepromRead
  BY <1>4, <1>5 DEF EepromRead
<1>6. CASE EepromWrite
  BY <1>4, <1>6 DEF EepromWrite, Regions
<1> QED BY <1>1, <1>2, <1>3, <1>5, <1>6 DEF GameStep

WrittenTypes ==
  /\ file' \in [Games -> {Absent} \cup 0..5]
  /\ onFile' \in [Games -> SUBSET Regions] /\ fileJunk' \in [Games -> SUBSET Regions]

LEMMA WrittenFile ==
  ASSUME TypeOK, NEW size \in 0..5, WriteFile(size)
  PROVE  WrittenTypes
<1> DEFINE D == data \cap 1..size
           J == junk \cap 1..size
<1>1. D \subseteq Regions /\ J \subseteq Regions
  BY DEF TypeOK
<1>2. /\ file' = [file EXCEPT ![game] = size] /\ onFile' = [onFile EXCEPT ![game] = D]
      /\ fileJunk' = [fileJunk EXCEPT ![game] = J]
  BY DEF WriteFile
<1> HIDE DEF D, J
<1> QED BY <1>1, <1>2 DEF WrittenTypes, TypeOK

LEMMA FrameTypes == TypeOK /\ Frame => TypeOK'
<1> SUFFICES ASSUME TypeOK, Frame PROVE TypeOK'
  OBVIOUS
<1>1. backup_update' \in 0..Far
  BY DelayPositive DEF Frame, UpdateBackup, Countdown, TypeOK, Far
<1>2. CASE SaveBackup
  <2>1. CASE UNCHANGED fileVars
    <3>1. spoiled' \subseteq Games
      BY <1>2 DEF SaveBackup, TypeOK, Frame, UpdateBackup
    <3> QED BY <1>1, <2>1, <3>1 DEF Frame, UpdateBackup, fileVars, TypeOK
  <2>2. CASE ~UNCHANGED fileVars
    <3>1. BackupSize \in 1..5 /\ spoiled' \subseteq Games
      BY <1>2, <2>2, SizeTypes DEF SaveBackup, TypeOK, Frame, UpdateBackup
    <3>2. PICK size \in 0..5 : WriteFile(size)
      BY <1>2, <2>2, <3>1 DEF SaveBackup
    <3>3. WrittenTypes
      BY <3>1, <3>2, WrittenFile
    <3> QED BY <1>1, <3>1, <3>3 DEF WrittenTypes, Frame, UpdateBackup, TypeOK
  <2> QED BY <2>1, <2>2
<1>3. CASE UNCHANGED <<fileVars, spoiled>>
  BY <1>1, <1>3 DEF Frame, UpdateBackup, fileVars, TypeOK
<1> QED BY <1>2, <1>3 DEF Frame, UpdateBackup

LEMMA FileTypes ==
  ASSUME NEW c \in Chips, NEW size \in {Absent} \cup 0..5
  PROVE  ChipFromFile(c, size) \in Chips
<1> SUFFICES ASSUME NEW d, d = ChipFromFile(c, size) PROVE d \in Chips
  OBVIOUS
<1>1. PICK t \in {"none", "sram", "flash", "eeprom"}, e \in {"512B", "8KB"},
           r \in {"32KB", "64KB"}, f \in {"64KB", "128KB"} :
        d = ChipOf(t, r, c.flash_mode, c.flash_command_position, c.flash_bank, f, e)
  <2>1. CASE size = Absent
    <3>1. d = ChipOf("none", c.sram_size, c.flash_mode, c.flash_command_position,
                     c.flash_bank, c.flash_size, c.eeprom_size)
      BY <2>1 DEF ChipFromFile, Absent, Chips, ChipOf
    <3> QED BY <3>1 DEF Chips
  <2>2. CASE size = 0
    <3>1. d = ChipOf(c.backup_type, c.sram_size, c.flash_mode, c.flash_command_position,
                     c.flash_bank, c.flash_size, c.eeprom_size)
      BY <2>2 DEF ChipFromFile, Absent, Chips, ChipOf
    <3> QED BY <3>1 DEF Chips
  <2>3. CASE size = 1
    <3>1. d = [c EXCEPT !.backup_type = "eeprom", !.eeprom_size = "512B"]
      BY <2>3 DEF ChipFromFile, Absent
    <3>2. d = ChipOf("eeprom", c.sram_size, c.flash_mode, c.flash_command_position,
                     c.flash_bank, c.flash_size, "512B")
      BY <3>1 DEF Chips, ChipOf
    <3> QED BY <3>2 DEF Chips
  <2>4. CASE size = 2
    <3>1. d = [c EXCEPT !.backup_type = "eeprom", !.eeprom_size = "8KB"]
      BY <2>4 DEF ChipFromFile, Absent
    <3>2. d = ChipOf("eeprom", c.sram_size, c.flash_mode, c.flash_command_position,
                     c.flash_bank, c.flash_size, "8KB")
      BY <3>1 DEF Chips, ChipOf
    <3> QED BY <3>2 DEF Chips
  <2>5. CASE size = 3
    <3>1. d = [c EXCEPT !.backup_type = "sram", !.sram_size = "32KB"]
      BY <2>5 DEF ChipFromFile, Absent
    <3>2. d = ChipOf("sram", "32KB", c.flash_mode, c.flash_command_position,
                     c.flash_bank, c.flash_size, c.eeprom_size)
      BY <3>1 DEF Chips, ChipOf
    <3> QED BY <3>2 DEF Chips
  <2>6. CASE size = 4
    <3>1. d = [c EXCEPT !.backup_type = "flash", !.sram_size = "32KB"]
      BY <2>6 DEF ChipFromFile, Absent
    <3>2. d = ChipOf("flash", "32KB", c.flash_mode, c.flash_command_position,
                     c.flash_bank, c.flash_size, c.eeprom_size)
      BY <3>1 DEF Chips, ChipOf
    <3> QED BY <3>2 DEF Chips
  <2>7. CASE size = 5
    <3>1. d = [c EXCEPT !.backup_type = "flash", !.flash_size = "128KB"]
      BY <2>7 DEF ChipFromFile, Absent
    <3>2. d = ChipOf("flash", c.sram_size, c.flash_mode, c.flash_command_position,
                     c.flash_bank, "128KB", c.eeprom_size)
      BY <3>1 DEF Chips, ChipOf
    <3> QED BY <3>2 DEF Chips
  <2> QED BY <2>1, <2>2, <2>3, <2>4, <2>5, <2>6, <2>7
<1> QED BY <1>1 DEF Chips, ChipOf

LEMMA UiTypes ==
  TypeOK /\ UNCHANGED kind /\ (\/ \E g \in DOMAIN kind : LoadROM(g)
                               \/ Reset \/ UnloadROM \/ Kill
                               \/ \E s \in Slots : SaveState(s) \/ LoadState(s))
  => TypeOK'
<1> SUFFICES ASSUME TypeOK, UNCHANGED kind PROVE
      (\/ \E g \in DOMAIN kind : LoadROM(g)
       \/ Reset \/ UnloadROM \/ Kill
       \/ \E s \in Slots : SaveState(s) \/ LoadState(s)) => TypeOK'
  OBVIOUS
<1>0. \A G : SpoilIfPending(G) => spoiled' \subseteq Games
  BY DEF SpoilIfPending, TypeOK
<1> USE ChipTypes
<1>1. ASSUME NEW g \in DOMAIN kind, LoadROM(g) PROVE TypeOK'
  <2>1. ChipFromFile(chip, file[g]) \in Chips
    BY FileTypes, KindsOf DEF TypeOK
  <2>2. chip' = InitChip /\ driver' = InitDriver /\ data' = onFile[g] /\ junk' = JunkAfterLoad(g)
    BY <1>1, <2>1 DEF LoadROM
  <2>3. JunkAfterLoad(g) \subseteq Regions /\ onFile[g] \subseteq Regions /\ g \in Games
    BY KindsOf DEF JunkAfterLoad, TypeOK
  <2> QED BY <1>0, <1>1, <2>2, <2>3 DEF LoadROM, fileVars, TypeOK
<1>2. CASE Reset
  BY <1>0, <1>2 DEF Reset, fileVars, TypeOK
<1>3. CASE UnloadROM
  BY <1>0, <1>3 DEF UnloadROM, fileVars, TypeOK
<1>4. CASE Kill
  <2>1. /\ file' \in [Games -> {Absent} \cup 0..5]
        /\ onFile' \in [Games -> SUBSET Regions] /\ fileJunk' \in [Games -> SUBSET Regions]
    <3>1. CASE UNCHANGED fileVars
      BY <3>1 DEF fileVars, TypeOK
    <3>2. CASE ~UNCHANGED fileVars
      <4>1. BackupSize \in 1..5 /\ game \in Games
        BY <1>4, <3>2, SizeTypes DEF Kill
      <4>2. PICK size \in 0..BackupSize : WriteFile(size)
        BY <1>4, <3>2 DEF Kill
      <4>3. size \in 0..5
        BY <4>1, <4>2
      <4> QED BY <1>0, <4>2, <4>3, WrittenFile DEF WrittenTypes
    <3> QED BY <3>1, <3>2
  <2>2. snap' \in [Slots -> Snaps]
    <3>1. PICK bank \in [Slots -> 0..1] :
            snap' = [s \in Slots |->
              [snap[s] EXCEPT !.old = snap[s].game \in Games,
                 !.chip.flash_bank = IF snap[s].chip.flash_bank = 0 THEN 0 ELSE bank[s]]]
      BY <1>4 DEF Kill
    <3>2. ASSUME NEW s \in Slots
          PROVE  [snap[s] EXCEPT !.old = snap[s].game \in Games,
                    !.chip.flash_bank = IF snap[s].chip.flash_bank = 0 THEN 0 ELSE bank[s]] \in Snaps
      <4>1. snap[s] \in Snaps /\ bank[s] \in 0..1
        BY DEF TypeOK, Snaps
      <4> QED BY <4>1, OldSnap DEF Aged
    <3> QED BY <3>1, <3>2
  <2>3. backup_update' \in 0..Far /\ spoiled' \subseteq Games /\ chip' \in Chips /\ driver' \in Drivers
    <3>1. /\ backup_update' = 0 /\ chip' = InitChip /\ driver' = InitDriver
          /\ SpoilIfPending({game})
      BY <1>4 DEF Kill
    <3> QED BY <1>0, <3>1, DelayPositive
  <2> QED BY <1>4, <2>1, <2>2, <2>3 DEF Kill, TypeOK, Snaps
<1>5. ASSUME NEW s \in Slots, SaveState(s) PROVE TypeOK'
  <2>1. [game |-> game, chip |-> chip, driver |-> driver, old |-> FALSE] \in Snaps
    BY DEF TypeOK, Snaps
  <2>2. snap' \in [Slots -> Snaps]
    BY <1>5, <2>1 DEF SaveState, TypeOK, Snaps
  <2> QED BY <1>5, <2>2 DEF SaveState, fileVars, TypeOK, Snaps
<1>6. ASSUME NEW s \in Slots, LoadState(s) PROVE TypeOK'
  <2>1. snap[s].chip \in Chips /\ snap[s].driver \in Drivers
    BY DEF TypeOK
  <2>2. spoiled' \subseteq Games
    BY <1>6 DEF LoadState, TypeOK
  <2> QED BY <1>6, <2>1, <2>2 DEF LoadState, fileVars, TypeOK
<1> QED BY <1>1, <1>2, <1>3, <1>4, <1>5, <1>6

LEMMA TypeStep == TypeOK /\ [Next]_vars => TypeOK'
<1> SUFFICES ASSUME TypeOK, [Next]_vars PROVE TypeOK'
  OBVIOUS
<1>1. CASE UNCHANGED vars
  BY <1>1 DEF vars, fileVars, TypeOK
<1>2. CASE Next
  BY <1>2, GameTypes, FrameTypes, UiTypes DEF Next
<1> QED BY <1>1, <1>2

-----------------------------------------------------------------------------
(* The game's writes. *)

LEMMA CommandModes ==
  /\ ModesAfter("base", "90") = {"id"} /\ ModesAfter("base", "80") = {"erase"}
  /\ ModesAfter("base", "A0") = {"write"} /\ ModesAfter("base", "B0") = {"bankswitch"}
  /\ ModesAfter("id", "F0") = {"base"} /\ ModesAfter("erase", "10") = {"base"}
<1>1. \A m, v : ModesAfter(m, v) =
        IF <<m, v>> \in {<<c[1], c[2]>> : c \in Commands}
        THEN {c[3] : c \in {d \in Commands : d[1] = m /\ d[2] = v}} ELSE {m}
  BY DEF ModesAfter, Commands
<1> QED BY <1>1 DEF Commands

(* What a write of the library's may do to the data: nothing, or something *)
(* that is announced to update_backup.                                     *)
Announced ==
  \/ UNCHANGED <<backup_update, data, onFile, junk, spoiled>>
  \/ /\ backup_update' = Delay
     /\ Undersized => game \in spoiled'
     /\ spoiled \subseteq spoiled' /\ junk' \subseteq junk
     /\ \E R : Write(R) /\ (chip.flash_bank = 0 \/ kind[game] = "flash128" => R \subseteq KindRegions(game))

FlashResult ==
  /\ FollowsLibrary(chip', driver')
  /\ chip'.backup_type = "flash"
  /\ chip'.flash_size = chip.flash_size \/ (kind[game] = "flash128" /\ chip'.flash_size = "128KB")
  /\ chip.flash_bank = driver.bank => chip'.flash_bank = driver'.bank
  /\ kind[game] = "flash64" => driver'.bank = driver.bank
  /\ Announced

(* The sequences of Protocol, by what write_backup makes of them. *)
LEMMA ProtocolSteps ==
  ASSUME NEW w \in Protocol
  PROVE  \/ /\ w[2] = "5555" /\ w[3] = "AA"
            /\ <<w[1], w[4]>> \in {<<"idle", "unlock1">>, <<"erase", "erase1">>, <<"id", "id1">>}
         \/ /\ w[2] = "2AAA" /\ w[3] = "55"
            /\ <<w[1], w[4]>> \in {<<"unlock1", "unlock2">>, <<"erase1", "erase2">>, <<"id1", "id2">>}
         \/ /\ w[2] = "5555"
            /\ <<w[1], w[3], w[4]>> \in {<<"unlock2", "90", "id">>, <<"unlock2", "A0", "program">>,
                 <<"unlock2", "80", "erase">>, <<"unlock2", "B0", "bank">>, <<"id2", "F0", "idle">>}
         \/ w = <<"erase2", "5555", "10", "idle">>
         \/ w[1] = "bank" /\ w[2] = "0000" /\ w[3] \in {"bank0", "bank1"} /\ w[4] = "idle"
         \/ w[1] = "program" /\ w[2] \in Addresses /\ w[4] = "idle"
         \/ w[1] = "erase2" /\ w[2] \in {"0000", "8000"} /\ w[3] = "30" /\ w[4] = "idle"
<1>1. CASE \E a \in Addresses, v \in {"AA", "55", "data"} : w = <<"program", a, v, "idle">>
  BY <1>1
<1>2. CASE \E a \in {"0000", "8000"} : w = <<"erase2", a, "30", "idle">>
  BY <1>2
<1> QED BY <1>1, <1>2 DEF Protocol

LEMMA FlashStep ==
  ASSUME TypeOK, game \in Flash, FollowsLibrary(chip, driver),
         kind[game] = "flash64" => chip.flash_size = "64KB",
         FlashGameWrites
  PROVE  FlashResult
<1>1. PICK w \in Protocol :
        /\ driver.phase = w[1] /\ (w[3] = "B0" => kind[game] = "flash128")
        /\ WriteBackup(w[2], w[3])
        /\ driver' = [phase |-> w[4],
                      bank |-> IF w[1] = "bank" THEN (IF w[3] = "bank1" THEN 1 ELSE 0)
                               ELSE driver.bank]
  BY DEF FlashGameWrites
<1>2. /\ driver'.phase = w[4]
      /\ driver'.bank = IF w[1] = "bank" THEN (IF w[3] = "bank1" THEN 1 ELSE 0) ELSE driver.bank
  BY <1>1
<1>3. /\ chip.flash_mode = ModeOf(w[1]) /\ chip.flash_command_position = PositionOf(w[1])
      /\ w[1] # "idle" => chip.backup_type = "flash"
      /\ w[1] = "bank" => chip.flash_size = "128KB"
  BY <1>1 DEF FollowsLibrary
<1>4. chip \in Chips /\ Touched \in Chips
  BY TouchedTypes DEF TypeOK
<1>5. w[1] # "idle" => Touched.backup_type = "flash"
  BY <1>3, <1>4, TouchedTypes DEF Detected
<1>6. KindRegions(game) = IF kind[game] = "flash128" THEN 1..5 ELSE 1..4
  BY DEF KindRegions, KindSize, Flash
<1> DEFINE Chip(mode, pos, size, bank) ==
      /\ chip'.backup_type = "flash" /\ chip'.flash_mode = mode
      /\ chip'.flash_command_position = pos /\ chip'.flash_size = size /\ chip'.flash_bank = bank
<1> HIDE DEF Chip
<1>7. ASSUME NEW mode, NEW pos, NEW size, NEW bank, Chip(mode, pos, size, bank),
             mode = ModeOf(w[4]), pos = PositionOf(w[4]), w[4] = "bank" => size = "128KB",
             size = chip.flash_size \/ (kind[game] = "flash128" /\ size = "128KB"),
             chip.flash_bank = driver.bank => bank = driver'.bank,
             w[1] = "bank" => kind[game] = "flash128",
             Announced
      PROVE  FlashResult
  BY <1>2, <1>7 DEF FlashResult, FollowsLibrary, Chip
(* The first byte of a command, and the second. *)
<1>8. CASE /\ w[2] = "5555" /\ w[3] = "AA"
           /\ <<w[1], w[4]>> \in {<<"idle", "unlock1">>, <<"erase", "erase1">>, <<"id", "id1">>}
  <2>1. chip.flash_command_position = 0 /\ chip.flash_mode # "write"
    BY <1>3, <1>8 DEF ModeOf, PositionOf
  <2>2. WriteAt5555("AA")
    BY <1>1, <1>8, <2>1 DEF WriteBackup, TakesCommand
  <2>3. Chip(chip.flash_mode, 1, chip.flash_size, chip.flash_bank)
    BY <1>4, <2>1, <2>2, TouchedTypes DEF WriteAt5555, Chips, Chip
  <2>4. Announced
    BY <2>1, <2>2 DEF WriteAt5555, Write, TypeOK, Flash, Announced
  <2> QED BY <1>2, <1>3, <1>7, <1>8, <2>3, <2>4 DEF ModeOf, PositionOf
<1>9. CASE /\ w[2] = "2AAA" /\ w[3] = "55"
           /\ <<w[1], w[4]>> \in {<<"unlock1", "unlock2">>, <<"erase1", "erase2">>, <<"id1", "id2">>}
  <2>1. chip.flash_command_position = 1
    BY <1>3, <1>9 DEF PositionOf
  <2>2. Unlock
    BY <1>1, <1>9, <2>1 DEF WriteBackup, TakesCommand
  <2>3. Chip(chip.flash_mode, 2, chip.flash_size, chip.flash_bank)
    BY <1>4, <1>5, <1>9, <2>2, TouchedTypes DEF Unlock, Chips, Chip
  <2>4. Announced
    BY <2>2 DEF Unlock, Announced
  <2> QED BY <1>2, <1>3, <1>7, <1>9, <2>3, <2>4 DEF ModeOf, PositionOf
(* The command. *)
<1>10. CASE /\ w[2] = "5555"
            /\ <<w[1], w[3], w[4]>> \in {<<"unlock2", "90", "id">>, <<"unlock2", "A0", "program">>,
                 <<"unlock2", "80", "erase">>, <<"unlock2", "B0", "bank">>, <<"id2", "F0", "idle">>}
  <2>1. /\ chip.flash_command_position = 2
        /\ chip.flash_mode = IF w[1] = "id2" THEN "id" ELSE "base"
    BY <1>3, <1>10 DEF ModeOf, PositionOf
  <2>2. WriteAt5555(w[3])
    BY <1>1, <1>10, <2>1 DEF WriteBackup, TakesCommand
  <2>3. ModesAfter(chip.flash_mode, w[3]) = {ModeOf(w[4])}
    BY <1>10, <2>1, CommandModes DEF ModeOf
  <2>4. Chip(ModeOf(w[4]), 0, IF w[3] = "B0" THEN "128KB" ELSE chip.flash_size, chip.flash_bank)
    BY <1>4, <1>5, <1>10, <2>1, <2>2, <2>3, TouchedTypes DEF WriteAt5555, Chips, Chip
  <2>5. Announced
    BY <1>5, <1>10, <2>1, <2>2 DEF WriteAt5555, Write, TypeOK, Flash, Announced
  <2> QED BY <1>1, <1>2, <1>3, <1>7, <1>10, <2>4, <2>5 DEF ModeOf, PositionOf
<1>11. CASE w = <<"erase2", "5555", "10", "idle">>
  <2>1. chip.flash_command_position = 2 /\ chip.flash_mode = "erase"
    BY <1>3, <1>11 DEF ModeOf, PositionOf
  <2>2. WriteAt5555("10")
    BY <1>1, <1>11, <2>1 DEF WriteBackup, TakesCommand
  <2>3. Chip("base", 0, chip.flash_size, chip.flash_bank)
    BY <1>4, <1>5, <1>11, <2>1, <2>2, CommandModes, TouchedTypes DEF WriteAt5555, Chips, Chip
  <2>4. Announced
    <3> DEFINE all == IF chip.flash_size = "64KB" THEN 1..4 ELSE 1..5
    <3>1. backup_update' = Delay /\ Write(all) /\ junk' = junk \ all
          /\ (Undersized => game \in spoiled') /\ spoiled \subseteq spoiled'
      BY <2>1, <2>2 DEF WriteAt5555
    <3>2. all \subseteq KindRegions(game)
      BY <1>6, chip.flash_size = "64KB" \/ kind[game] = "flash128" DEF Flash
    <3> QED BY <3>1, <3>2 DEF Announced
  <2> QED BY <1>2, <1>3, <1>7, <1>11, <2>3, <2>4 DEF ModeOf, PositionOf
(* What comes after a command. *)
<1>12. CASE w[1] = "bank" /\ w[2] = "0000" /\ w[3] \in {"bank0", "bank1"} /\ w[4] = "idle"
  <2>1. chip.flash_command_position = 0 /\ chip.flash_mode = "bankswitch"
    BY <1>3, <1>12 DEF ModeOf, PositionOf
  <2>2. SwitchBank(w[3])
    BY <1>1, <1>3, <1>12, <2>1 DEF WriteBackup, TakesCommand
  <2>3. Chip("base", 0, "128KB", driver'.bank)
    BY <1>2, <1>3, <1>4, <1>5, <1>12, <2>1, <2>2, TouchedTypes DEF SwitchBank, Chips, Chip
  <2>4. Announced
    BY <2>2 DEF SwitchBank, Announced
  <2>5. kind[game] = "flash128"
    BY <1>3, <1>12 DEF Flash
  <2> QED BY <1>2, <1>3, <1>7, <1>12, <2>3, <2>4, <2>5 DEF ModeOf, PositionOf
<1>13. CASE w[1] = "program" /\ w[2] \in Addresses /\ w[4] = "idle"
  <2>1. chip.flash_command_position = 0 /\ chip.flash_mode = "write"
    BY <1>3, <1>13 DEF ModeOf, PositionOf
  <2>2. ProgramByte(w[2])
    BY <1>1, <1>13, <2>1 DEF WriteBackup, TakesCommand
  <2>3. Chip("base", 0, chip.flash_size, chip.flash_bank)
    BY <1>4, <1>5, <1>13, <2>1, <2>2, TouchedTypes DEF ProgramByte, Chips, Chip
  <2>4. chip.flash_bank = 0 \/ kind[game] = "flash128" =>
          {Region(chip.flash_bank, w[2])} \subseteq KindRegions(game)
    BY <1>4, <1>6, <1>13 DEF Region, Addresses, Chips
  <2>5. Announced
    BY <2>2, <2>4 DEF ProgramByte, Announced
  <2> QED BY <1>2, <1>3, <1>7, <1>13, <2>3, <2>5 DEF ModeOf, PositionOf
<1>14. CASE w[1] = "erase2" /\ w[2] \in {"0000", "8000"} /\ w[3] = "30" /\ w[4] = "idle"
  <2>1. chip.flash_command_position = 2 /\ chip.flash_mode = "erase"
    BY <1>3, <1>14 DEF ModeOf, PositionOf
  <2>2. EraseSector(w[2])
    BY <1>1, <1>14, <2>1 DEF WriteBackup, TakesCommand
  <2>3. Chip("base", 0, chip.flash_size, chip.flash_bank)
    BY <1>4, <1>5, <1>14, <2>1, <2>2, TouchedTypes DEF EraseSector, Chips, Chip
  <2>4. chip.flash_bank = 0 \/ kind[game] = "flash128" =>
          Sector(chip.flash_bank, w[2]) \subseteq KindRegions(game)
    BY <1>4, <1>6, <1>14 DEF Sector, Region, Chips
  <2>5. Announced
    BY <2>2, <2>4 DEF EraseSector, Announced
  <2> QED BY <1>2, <1>3, <1>7, <1>14, <2>3, <2>5 DEF ModeOf, PositionOf
<1> QED BY <1>8, <1>9, <1>10, <1>11, <1>12, <1>13, <1>14, ProtocolSteps

(* What write_backup leaves alone, whatever the game. *)
LEMMA WriteLeaves ==
  ASSUME TypeOK, game \in Games, NEW a \in Addresses \ {"8000"}, NEW v, WriteBackup(a, v)
  PROVE  /\ chip'.sram_size = chip.sram_size
         /\ \A g \in Games \ {game} : onFile'[g] = onFile[g]
<1>1. chip \in Chips /\ Touched \in Chips /\ Touched.sram_size = chip.sram_size
  BY TouchedTypes DEF TypeOK
<1>2. \A R : Write(R) => \A g \in Games \ {game} : onFile'[g] = onFile[g]
  BY DEF Write, TypeOK
<1>3. CASE WriteAt5555(v)
  <2>1. chip'.sram_size = Touched.sram_size /\ \E R : Write(R)
    BY <1>1, <1>3 DEF WriteAt5555, Chips
  <2> QED BY <1>1, <1>2, <2>1
<1>4. CASE Unlock
  BY <1>1, <1>4 DEF Unlock, Chips
<1>5. CASE EraseSector(a)
  <2>1. chip'.sram_size = Touched.sram_size /\ \E R : Write(R)
    BY <1>1, <1>5 DEF EraseSector, Chips
  <2> QED BY <1>1, <1>2, <2>1
<1>6. CASE SwitchBank(v)
  BY <1>1, <1>6 DEF SwitchBank, Chips
<1>7. CASE ProgramByte(a)
  <2>1. chip'.sram_size = Touched.sram_size /\ \E R : Write(R)
    BY <1>1, <1>7 DEF ProgramByte, Chips
  <2> QED BY <1>1, <1>2, <2>1
<1>8. CASE SramWrite(a)
  <2>1. chip'.sram_size = Touched.sram_size /\ \E R : Write(R)
    BY <1>1, <1>8 DEF SramWrite, Chips
  <2> QED BY <1>1, <1>2, <2>1
<1>9. CASE chip' = Touched /\ UNCHANGED <<backup_update, data, onFile, junk, spoiled>>
  BY <1>1, <1>9
<1> QED BY <1>3, <1>4, <1>5, <1>6, <1>7, <1>8, <1>9 DEF WriteBackup

(* What an access of the game's leaves behind. *)
Stored ==
  /\ junk' \subseteq junk
  /\ \/ /\ UNCHANGED <<backup_update, data, onFile>>
        /\ Known(game, chip) => Known(game, chip')
     \/ /\ backup_update' = Delay /\ Known(game, chip')
        /\ \E R \in SUBSET KindRegions(game) : Write(R)

Accessed ==
  /\ game \in DOMAIN kind
  /\ UNCHANGED <<kind, game, file, fileJunk, snap>>
  /\ spoiled \subseteq spoiled' /\ ChipFits' /\ BankKept'
  /\ \A g \in Games \ {game} : onFile'[g] = onFile[g]
  /\ game \notin spoiled' => Stored

LEMMA SramAccess == Inv /\ SramGameWrites /\ UNCHANGED kind => Accessed
<1> SUFFICES ASSUME Inv, SramGameWrites, UNCHANGED kind PROVE Accessed
  OBVIOUS
<1>1. PICK a \in Addresses \ {"8000"}, v \in {"AA", "data"} : WriteBackup(a, v)
  BY DEF SramGameWrites
<1>2. /\ TypeOK /\ Fits(game, chip, driver) /\ game \in DOMAIN kind /\ game \in Games
      /\ kind[game] = "sram" /\ game # NoGame /\ game \notin Flash
      /\ UNCHANGED <<game, file, fileJunk, driver, snap>>
  BY DelayPositive DEF SramGameWrites, Inv, Loaded, ChipFits, Flash
<1>3. spoiled \subseteq spoiled'
  BY <1>1, <1>2, WriteTypes
<1>4. chip'.sram_size = "32KB" /\ \A g \in Games \ {game} : onFile'[g] = onFile[g]
  BY <1>1, <1>2, WriteLeaves DEF Fits
<1>5. ASSUME game \notin spoiled'
      PROVE  Stored /\ chip'.backup_type = "sram" /\ chip'.flash_mode = "base"
             /\ chip'.flash_command_position = 0
  <2>1. /\ chip.backup_type \in {"none", "sram"} /\ chip.flash_mode = "base"
        /\ chip.flash_command_position = 0
    BY <1>2, <1>3, <1>5 DEF Fits, Sound
  <2>2. chip \in Chips /\ Touched \in Chips /\ Touched.backup_type = "sram"
    BY <1>2, <2>1, TouchedTypes DEF TypeOK, Detected
  <2>3. a # "5555"
    <3> SUFFICES ASSUME a = "5555" PROVE FALSE
      OBVIOUS
    <3>1. WriteAt5555(v)
      BY <1>1, <2>1 DEF WriteBackup, TakesCommand
    <3> QED BY <1>2, <1>5, <2>1, <2>2, <3>1 DEF WriteAt5555
  <2>4. SramWrite(a)
    BY <1>1, <2>1, <2>2, <2>3 DEF WriteBackup, TakesCommand
  <2>5. /\ chip'.backup_type = "sram" /\ chip'.flash_mode = "base"
        /\ chip'.flash_command_position = 0
    BY <1>2, <2>1, <2>2, <2>4, TouchedTypes DEF SramWrite, Chips
  <2>6. {Region(0, a)} \subseteq KindRegions(game)
    BY <1>2, <2>3 DEF Region, Addresses, KindRegions, KindSize
  <2>7. Known(game, chip')
    BY <1>2, <2>5 DEF Known
  <2> QED BY <2>4, <2>5, <2>6, <2>7 DEF SramWrite, Stored
<1>6. Fits(game, chip, driver)' /\ BankKept'
  BY <1>2, <1>4, <1>5 DEF Fits, Sound, BankKept, Flash
<1> QED BY <1>2, <1>3, <1>4, <1>5, <1>6 DEF Accessed, ChipFits

LEMMA FlashAccess == Inv /\ FlashGameWrites /\ UNCHANGED kind => Accessed
<1> SUFFICES ASSUME Inv, FlashGameWrites, UNCHANGED kind PROVE Accessed
  OBVIOUS
<1>1. /\ TypeOK /\ game \in Flash /\ game \in Games /\ game \in DOMAIN kind /\ game # NoGame
      /\ Fits(game, chip, driver)
      /\ UNCHANGED <<game, file, fileJunk, snap>>
  BY DelayPositive, KindsOf DEF FlashGameWrites, Inv, Loaded, ChipFits, Flash
<1>2. FlashResult
  BY <1>1, FlashStep DEF Fits
<1>3. spoiled \subseteq spoiled' /\ \A g \in Games \ {game} : onFile'[g] = onFile[g]
  BY <1>1, <1>2 DEF FlashResult, Announced, Write, TypeOK
<1>4. kind[game] \in {"flash64", "flash128"}
  BY <1>1 DEF Flash
<1>5. Fits(game, chip, driver)'
  BY <1>1, <1>2, <1>4 DEF Fits, FlashResult, Flash, FollowsLibrary
<1>6. BankKept'
  BY <1>1, <1>2, <1>3 DEF BankKept, FlashResult, Sound, Flash, Inv
<1>7. ASSUME game \notin spoiled' PROVE Stored
  <2>1. chip.flash_bank = 0 \/ kind[game] = "flash128"
    BY <1>1, <1>3, <1>4, <1>7 DEF Inv, BankKept, Sound, Fits
  <2>2. Known(game, chip) => Known(game, chip')
    BY <1>2, <1>4 DEF Known, FlashResult
  <2>3. CASE UNCHANGED <<backup_update, data, onFile, junk, spoiled>>
    BY <2>2, <2>3 DEF Stored
  <2>4. CASE ~UNCHANGED <<backup_update, data, onFile, junk, spoiled>>
    <3>1. /\ backup_update' = Delay /\ junk' \subseteq junk /\ ~Undersized
          /\ \E R \in SUBSET KindRegions(game) : Write(R)
      BY <1>2, <1>7, <2>1, <2>4 DEF FlashResult, Announced
    <3>2. Known(game, chip')
      BY <1>1, <1>2, <1>4, <3>1 DEF Known, FlashResult, Undersized, TypeOK, Chips
    <3> QED BY <3>1, <3>2 DEF Stored
  <2> QED BY <2>3, <2>4
<1> QED BY <1>1, <1>3, <1>5, <1>6, <1>7 DEF Accessed, ChipFits

LEMMA EepromAccess ==
  ASSUME Inv, UNCHANGED kind, NEW R, EepromCommand(R), R \subseteq KindRegions(game)
  PROVE  Accessed
<1>1. /\ TypeOK /\ game \in Games /\ game \in DOMAIN kind /\ game # NoGame /\ game \notin Flash
      /\ kind[game] \in {"eeprom512", "eeprom8k"} /\ Fits(game, chip, driver)
      /\ UNCHANGED <<game, junk, file, fileJunk, driver, snap, spoiled>> /\ Write(R)
  BY DelayPositive DEF EepromCommand, Inv, Loaded, ChipFits, Flash
<1>2. /\ chip'.backup_type = "eeprom"
      /\ chip'.eeprom_size = IF kind[game] = "eeprom8k" THEN "8KB" ELSE chip.eeprom_size
  BY <1>1 DEF EepromCommand, TypeOK, Chips
<1>3. Fits(game, chip, driver)' /\ BankKept' /\ Known(game, chip')
  BY <1>1, <1>2 DEF Fits, BankKept, Flash, Known
<1>4. \A g \in Games \ {game} : onFile'[g] = onFile[g]
  BY <1>1 DEF Write, TypeOK
<1>5. Stored
  <2>1. CASE R = {}
    <3>1. UNCHANGED <<backup_update, data, onFile>>
      BY <1>1, <2>1 DEF Write, EepromCommand, TypeOK
    <3> QED BY <1>1, <1>3, <3>1 DEF Stored
  <2>2. CASE R # {}
    BY <1>1, <1>3, <2>2 DEF Stored, EepromCommand
  <2> QED BY <2>1, <2>2
<1> QED BY <1>1, <1>3, <1>4, <1>5 DEF Accessed, ChipFits

LEMMA Access == Inv /\ GameStep /\ UNCHANGED kind => Accessed
<1> SUFFICES ASSUME Inv, GameStep, UNCHANGED kind PROVE Accessed
  OBVIOUS
<1>1. CASE ReadBackup
  <2>1. /\ TypeOK /\ game \in Games /\ game \in DOMAIN kind /\ game # NoGame
        /\ Fits(game, chip, driver)
        /\ UNCHANGED <<game, backup_update, data, junk, file, onFile, fileJunk, driver, snap, spoiled>>
    BY <1>1, DelayPositive DEF ReadBackup, Inv, Loaded, ChipFits, fileVars
  <2>2. chip' = Touched
    BY <1>1 DEF ReadBackup, Touched
  <2>3. Fits(game, chip, driver)' /\ BankKept' /\ (Known(game, chip) => Known(game, chip'))
    BY <2>1, <2>2, TouchedTypes DEF Fits, FollowsLibrary, BankKept, Flash, Sound, Known, Detected, Inv, TypeOK
  <2> QED BY <2>1, <2>3 DEF Accessed, ChipFits, Stored
<1>2. CASE EepromRead
  BY <1>2, EepromAccess DEF EepromRead
<1>3. CASE EepromWrite
  <2>1. PICK r \in 1..2 : EepromCommand({r}) /\ (r = 2 => kind[game] = "eeprom8k")
    BY <1>3 DEF EepromWrite
  <2>2. {r} \subseteq KindRegions(game)
    BY <2>1 DEF EepromCommand, KindRegions, KindSize
  <2> QED BY <2>1, <2>2, EepromAccess
<1> QED BY <1>1, <1>2, <1>3, SramAccess, FlashAccess DEF GameStep

-----------------------------------------------------------------------------
(* The invariant is kept. *)

(* What holds of a chip goes on to hold while fewer games are sound. *)
LEMMA FitsStays ==
  UNCHANGED kind /\ spoiled \subseteq spoiled'
    => \A g, c, d : Fits(g, c, d) => Fits(g, c, d)'
  BY DEF Fits, Sound, Flash, FollowsLibrary

LEMMA SnapsStay ==
  SnapsFit /\ UNCHANGED <<kind, snap>> /\ spoiled \subseteq spoiled' => SnapsFit'
  BY FitsStays DEF SnapsFit, Sound, Flash, Fits, FollowsLibrary

LEMMA AccessKeeps == Inv /\ TypeOK' /\ GameStep /\ UNCHANGED kind => Inv'
<1> SUFFICES ASSUME Inv, TypeOK', GameStep, UNCHANGED kind PROVE Inv'
  OBVIOUS
<1>1. Accessed /\ game \in Games /\ Delay \in Nat \ {0}
  BY Access, KindsOf, DelayPositive DEF Inv, Accessed
<1>2. Loaded' /\ SnapsFit'
  BY <1>1, SnapsStay DEF Inv, Loaded, Accessed
<1>3. ASSUME game \notin spoiled' PROVE Stored /\ Sound(game)
  BY <1>1, <1>3 DEF Accessed, Sound
<1>4. onFile'[game] \subseteq onFile[game] \/ game \in spoiled'
  BY <1>3 DEF Stored, Write, Inv, TypeOK
<1>5. Files'
  <2> SUFFICES ASSUME NEW g \in DOMAIN kind, g \in Games, g \notin spoiled' PROVE OwnFile(g)'
    BY KindsOf DEF Files, Sound, Inv, Accessed
  <2>1. OwnFile(g)
    BY <1>1 DEF Inv, Files, Accessed, Sound
  <2>2. onFile'[g] \subseteq onFile[g]
    BY <1>1, <1>4 DEF Accessed
  <2> QED BY <1>1, <2>1, <2>2 DEF OwnFile, KindRegions, KindSize, Accessed
<1>6. Playing'
  <2> SUFFICES ASSUME game \notin spoiled'
               PROVE  /\ data' \subseteq KindRegions(game)' /\ junk' \cap KindRegions(game)' = {}
                      /\ IF Pending' THEN Known(game, chip)' ELSE data' \subseteq onFile'[game]
    BY <1>1 DEF Playing, Sound, Accessed
  <2>1. /\ data \subseteq KindRegions(game) /\ junk \cap KindRegions(game) = {}
        /\ IF Pending THEN Known(game, chip) ELSE data \subseteq onFile[game]
        /\ UNCHANGED <<kind, game>> /\ KindRegions(game)' = KindRegions(game)
    BY <1>1, <1>3 DEF Inv, Playing, Accessed, KindRegions, KindSize
  <2>2. CASE UNCHANGED <<backup_update, data, onFile>> /\ (Known(game, chip) => Known(game, chip'))
    BY <1>3, <2>1, <2>2 DEF Stored, Pending, Known
  <2>3. CASE /\ backup_update' = Delay /\ Known(game, chip')
             /\ \E R \in SUBSET KindRegions(game) : Write(R)
    BY <1>1, <1>3, <2>1, <2>3 DEF Stored, Pending, Known, Write
  <2> QED BY <1>3, <2>2, <2>3 DEF Stored
<1> QED BY <1>1, <1>2, <1>5, <1>6 DEF Inv, Accessed

(* The file is written at the size of the game's own chip. *)
LEMMA SizeKnown ==
  ASSUME Inv, game \in DOMAIN kind, Sound(game), Known(game, chip)
  PROVE  chip.backup_type # "none" /\ BackupSize = KindSize(game)
<1>1. kind[game] \in Kinds /\ game \in Games /\ game # NoGame /\ chip \in Chips
  BY KindsOf, DelayPositive DEF Inv, TypeOK
<1>2. Fits(game, chip, driver)
  BY <1>1 DEF Inv, ChipFits
<1> QED BY <1>1, <1>2 DEF Fits, Known, Kinds, BackupSize, KindSize, Chips

LEMMA FrameKeeps == Inv /\ TypeOK' /\ Frame => Inv'
<1> SUFFICES ASSUME Inv, TypeOK', Frame PROVE Inv'
  OBVIOUS
<1>1. /\ UNCHANGED <<kind, game, chip, data, junk, driver, snap>>
      /\ TypeOK /\ game \in DOMAIN kind /\ game \in Games
  BY DelayPositive DEF Frame, UpdateBackup, Inv, Loaded
<1>2. spoiled \subseteq spoiled'
  BY DEF Frame, UpdateBackup, SaveBackup
<1>3. Loaded' /\ SnapsFit' /\ ChipFits' /\ BankKept'
  <2>1. Loaded' /\ SnapsFit'
    BY <1>1, <1>2, SnapsStay DEF Inv, Loaded
  <2>2. ChipFits' /\ BankKept'
    BY <1>1, <1>2 DEF Inv, ChipFits, BankKept, Fits, FollowsLibrary, Sound, Flash
  <2> QED BY <2>1, <2>2
<1>4. Countdown = 0 => backup_update = 1 /\ Pending
  BY <1>1, DelayPositive DEF Countdown, TypeOK, Pending, Far
<1>5. Countdown # 0 => (backup_update' \in 1..Delay <=> Pending)
  BY <1>1, DelayPositive DEF Frame, UpdateBackup, Countdown, TypeOK, Pending, Far
<1>6. CASE UNCHANGED <<fileVars, spoiled>> /\ Countdown # 0
  BY <1>1, <1>3, <1>5, <1>6
     DEF Inv, Files, OwnFile, Playing, Pending, Sound, Known, KindRegions, KindSize, fileVars
<1>7. CASE Countdown = 0
  <2>1. SaveBackup /\ ~Pending'
    BY <1>7, DelayPositive DEF Frame, UpdateBackup, Pending
  <2>2. ASSUME NEW g \in DOMAIN kind, g # game, Sound(g)' PROVE OwnFile(g)'
    <3>1. OwnFile(g) /\ g \in Games
      BY <1>1, <1>2, <2>2, KindsOf DEF Inv, Files, Sound
    <3>2. file'[g] = file[g] /\ onFile'[g] = onFile[g] /\ fileJunk'[g] = fileJunk[g]
      BY <1>1, <2>1, <2>2, <3>1 DEF SaveBackup, WriteFile, fileVars, TypeOK
    <3> QED BY <1>1, <3>1, <3>2 DEF OwnFile, KindRegions, KindSize
  <2>3. ASSUME game \notin spoiled'
        PROVE  OwnFile(game)' /\ data \subseteq onFile'[game]
               /\ data \subseteq KindRegions(game) /\ junk \cap KindRegions(game) = {}
    <3>1. /\ Sound(game) /\ Known(game, chip)
          /\ data \subseteq KindRegions(game) /\ junk \cap KindRegions(game) = {}
      BY <1>1, <1>2, <1>4, <1>7, <2>3 DEF Inv, Playing, Sound
    <3>2. chip.backup_type # "none" /\ BackupSize = KindSize(game)
      BY <1>1, <3>1, SizeKnown
    <3>3. /\ file' = [file EXCEPT ![game] = BackupSize]
          /\ onFile' = [onFile EXCEPT ![game] = data \cap 1..BackupSize]
          /\ fileJunk' = [fileJunk EXCEPT ![game] = junk \cap 1..BackupSize]
      BY <1>1, <2>1, <2>3, <3>2 DEF SaveBackup, WriteFile
    <3>4. /\ file'[game] = KindSize(game) /\ onFile'[game] = data \cap KindRegions(game)
          /\ fileJunk'[game] = junk \cap KindRegions(game)
      BY <1>1, <3>2, <3>3 DEF KindRegions, TypeOK
    <3>5. KindSize(game)' = KindSize(game) /\ KindRegions(game)' = KindRegions(game)
      BY <1>1 DEF KindRegions, KindSize
    <3> QED BY <1>1, <3>1, <3>4, <3>5 DEF OwnFile
  <2>4. Files'
    BY <1>1, <2>2, <2>3 DEF Files, Sound
  <2>5. Playing'
    BY <1>1, <2>1, <2>3 DEF Playing, Sound, KindRegions, KindSize
  <2> QED BY <1>3, <2>4, <2>5 DEF Inv
<1> QED BY <1>6, <1>7 DEF Frame, UpdateBackup

(* A write-back that is pending when the machine under it is exchanged is  *)
(* recorded; without one the file has all the data.                        *)
LEMMA SpoilKeeps ==
  ASSUME NEW G, SpoilIfPending(G)
  PROVE  spoiled \subseteq spoiled' /\ (Pending => G \cap Games \subseteq spoiled')
  BY DEF SpoilIfPending

LEMMA FreshChip ==
  ASSUME NEW g, g \in DOMAIN kind
  PROVE  Fits(g, InitChip, InitDriver) /\ InitChip.flash_bank = InitDriver.bank
  BY DEF Fits, InitChip, InitDriver, FollowsLibrary, ModeOf, PositionOf

LEMMA OwnFilesStay ==
  Files /\ UNCHANGED <<kind, file, onFile, fileJunk>> /\ spoiled \subseteq spoiled' => Files'
  BY DEF Files, OwnFile, KindRegions, KindSize, Sound

LEMMA LoadKeeps ==
  ASSUME Inv, TypeOK', UNCHANGED kind, NEW g \in DOMAIN kind, LoadROM(g)
  PROVE  Inv'
<1>1. /\ game' = g /\ driver' = InitDriver /\ data' = onFile[g] /\ junk' = JunkAfterLoad(g)
      /\ UNCHANGED <<backup_update, file, onFile, fileJunk, snap>>
      /\ SpoilIfPending({game, g}) /\ TypeOK /\ g \in Games
  BY KindsOf DEF LoadROM, fileVars, Inv
<1>2. chip' = InitChip
  <2>1. ChipFromFile(chip, file[g]) \in Chips
    BY <1>1, FileTypes DEF TypeOK
  <2> QED BY <2>1, ChipTypes DEF LoadROM
<1>3. spoiled \subseteq spoiled' /\ (g \notin spoiled' => ~Pending)
  BY <1>1, SpoilKeeps
<1>4. Loaded' /\ SnapsFit' /\ Files'
  BY <1>1, <1>3, SnapsStay, OwnFilesStay DEF Inv, Loaded
<1>5. ChipFits' /\ BankKept'
  <2>1. Fits(g, chip', driver') /\ chip'.flash_bank = driver'.bank
    BY <1>1, <1>2, FreshChip
  <2> QED BY <1>1, <1>3, <2>1 DEF ChipFits, BankKept, Fits, FollowsLibrary, Sound, Flash
<1>6. Playing'
  <2> SUFFICES ASSUME g \notin spoiled'
               PROVE  /\ data' \subseteq KindRegions(g) /\ junk' \cap KindRegions(g) = {}
                      /\ data' \subseteq onFile'[g] /\ ~Pending'
    BY <1>1 DEF Playing, Sound, KindRegions, KindSize
  <2>1. OwnFile(g)
    BY <1>1, <1>3 DEF Inv, Files, Sound
  <2>2. junk' \cap KindRegions(g) = {}
    <3>1. junk' = IF file[g] = Absent THEN {} ELSE ((junk \cup data) \ 1..file[g]) \cup fileJunk[g]
      BY <1>1 DEF JunkAfterLoad
    <3>2. file[g] # Absent => KindRegions(g) = 1..file[g]
      BY <2>1 DEF OwnFile, KindRegions
    <3>3. fileJunk[g] \cap KindRegions(g) = {}
      BY <2>1 DEF OwnFile
    <3> QED BY <3>1, <3>2, <3>3
  <2> QED BY <1>1, <1>3, <2>1, <2>2 DEF OwnFile, Pending
<1> QED BY <1>4, <1>5, <1>6 DEF Inv

LEMMA ResetKeeps == Inv /\ TypeOK' /\ Reset /\ UNCHANGED kind => Inv'
<1> SUFFICES ASSUME Inv, TypeOK', Reset, UNCHANGED kind PROVE Inv'
  OBVIOUS
<1>1. /\ driver' = InitDriver /\ chip' = InitChip /\ SpoilIfPending({game})
      /\ UNCHANGED <<game, backup_update, data, junk, file, onFile, fileJunk, snap>>
      /\ game \in DOMAIN kind /\ game \in Games
  BY ChipTypes, DelayPositive DEF Reset, fileVars, Inv, TypeOK, Loaded
<1>2. spoiled \subseteq spoiled' /\ (game \notin spoiled' => ~Pending)
  BY <1>1, SpoilKeeps
<1>3. Loaded' /\ SnapsFit' /\ Files'
  BY <1>1, <1>2, SnapsStay, OwnFilesStay DEF Inv, Loaded
<1>4. ChipFits' /\ BankKept'
  <2>1. Fits(game, chip', driver') /\ chip'.flash_bank = driver'.bank
    BY <1>1, FreshChip
  <2> QED BY <1>1, <1>2, <2>1 DEF ChipFits, BankKept, Fits, FollowsLibrary, Sound, Flash
<1>5. Playing'
  BY <1>1, <1>2 DEF Inv, Playing, Sound, Pending, KindRegions, KindSize
<1> QED BY <1>3, <1>4, <1>5 DEF Inv

LEMMA UnloadKeeps == Inv /\ TypeOK' /\ UnloadROM /\ UNCHANGED kind => Inv'
<1> SUFFICES ASSUME Inv, TypeOK', UnloadROM, UNCHANGED kind PROVE Inv'
  OBVIOUS
<1>1. game' = NoGame /\ SpoilIfPending({game}) /\ UNCHANGED <<file, onFile, fileJunk, snap>>
  BY DEF UnloadROM, fileVars
<1>2. spoiled \subseteq spoiled'
  BY <1>1, SpoilKeeps
<1>3. Loaded' /\ SnapsFit' /\ Files'
  BY <1>1, <1>2, SnapsStay, OwnFilesStay DEF Inv, Loaded
<1>4. ChipFits' /\ BankKept' /\ Playing'
  BY <1>1, DelayPositive DEF ChipFits, BankKept, Playing, Sound
<1> QED BY <1>3, <1>4 DEF Inv

LEMMA SaveKeeps ==
  ASSUME Inv, TypeOK', UNCHANGED kind, NEW t \in Slots, SaveState(t)
  PROVE  Inv'
<1>1. /\ chip' = chip /\ UNCHANGED <<game, backup_update, data, junk, file, onFile, fileJunk, driver, spoiled>>
      /\ game \in Games /\ game # NoGame /\ game \in DOMAIN kind
      /\ snap' = [snap EXCEPT ![t] = [game |-> game, chip |-> chip, driver |-> driver, old |-> FALSE]]
  BY ChipTypes, DelayPositive DEF SaveState, fileVars, Inv, TypeOK, Loaded
<1>2. \A s \in Slots : snap'[s] = IF s = t
        THEN [game |-> game, chip |-> chip, driver |-> driver, old |-> FALSE] ELSE snap[s]
  BY <1>1 DEF Inv, TypeOK
<1>3. Loaded'
  BY <1>1, <1>2 DEF Inv, Loaded
<1>4. SnapsFit'
  <2> SUFFICES ASSUME NEW s \in Slots
               PROVE  LET x == snap'[s] IN
                      x.game # NoGame =>
                        /\ Fits(x.game, x.chip, x.driver)
                        /\ x.game \in Flash /\ Sound(x.game) /\ ~x.old
                             => x.chip.flash_bank = x.driver.bank
    BY <1>1 DEF SnapsFit, Fits, FollowsLibrary, Sound, Flash
  <2> QED BY <1>1, <1>2 DEF Inv, ChipFits, BankKept, SnapsFit
<1>5. ChipFits' /\ BankKept' /\ Playing' /\ Files'
  BY <1>1, OwnFilesStay DEF Inv, ChipFits, BankKept, Fits, FollowsLibrary, Sound, Flash, Playing, Pending,
       Known, KindRegions, KindSize
<1> QED BY <1>3, <1>4, <1>5 DEF Inv

LEMMA RestoreKeeps ==
  ASSUME Inv, TypeOK', UNCHANGED kind, NEW t \in Slots, LoadState(t)
  PROVE  Inv'
<1>1. /\ game \in DOMAIN kind /\ game # NoGame /\ game \in Games
      /\ snap[t].game = game /\ chip' = snap[t].chip /\ driver' = snap[t].driver
      /\ UNCHANGED <<game, backup_update, data, junk, file, onFile, fileJunk, snap>>
  BY ChipTypes, DelayPositive DEF LoadState, fileVars, Inv, TypeOK, Loaded
<1>2. spoiled \subseteq spoiled' /\ (game \notin spoiled' => ~Pending /\ ~snap[t].old)
  BY <1>1 DEF LoadState
<1>3. Loaded' /\ SnapsFit' /\ Files'
  BY <1>1, <1>2, SnapsStay, OwnFilesStay DEF Inv, Loaded
<1>4. /\ Fits(game, chip', driver')
      /\ game \in Flash /\ game \notin spoiled' => chip'.flash_bank = driver'.bank
  BY <1>1, <1>2 DEF Inv, SnapsFit, Sound
<1>5. ChipFits' /\ BankKept'
  BY <1>1, <1>2, <1>4 DEF ChipFits, BankKept, Fits, FollowsLibrary, Sound, Flash
<1>6. Playing'
  BY <1>1, <1>2 DEF Inv, Playing, Sound, Pending, KindRegions, KindSize
<1> QED BY <1>3, <1>5, <1>6 DEF Inv

LEMMA KillKeeps == Inv /\ TypeOK' /\ Kill /\ UNCHANGED kind => Inv'
<1> SUFFICES ASSUME Inv, TypeOK', Kill, UNCHANGED kind PROVE Inv'
  OBVIOUS
<1>1. game' = NoGame /\ SpoilIfPending({game}) /\ TypeOK
  BY DEF Kill, Inv
<1>2. \/ UNCHANGED fileVars
      \/ /\ game \in Games /\ backup_update = 1
         /\ \E size : WriteFile(size)
  BY DEF Kill
<1>3. spoiled \subseteq spoiled' /\ (Pending /\ game \in Games => game \in spoiled')
  BY <1>1, SpoilKeeps
<1>4. ASSUME NEW s \in Slots
      PROVE  /\ snap'[s].game = snap[s].game /\ snap'[s].driver = snap[s].driver
             /\ snap'[s].old = (snap[s].game \in Games)
             /\ \E b \in 0..1 :
                  snap'[s].chip = [snap[s].chip EXCEPT !.flash_bank = IF @ = 0 THEN 0 ELSE b]
  <2>1. PICK bank \in [Slots -> 0..1] :
          snap' = [z \in Slots |->
            [snap[z] EXCEPT !.old = snap[z].game \in Games,
               !.chip.flash_bank = IF snap[z].chip.flash_bank = 0 THEN 0 ELSE bank[z]]]
    BY DEF Kill
  <2>2. snap[s] \in Snaps /\ bank[s] \in 0..1
    BY <1>1 DEF TypeOK, Snaps
  <2>3. snap'[s] = Aged(snap[s], bank[s])
    BY <2>1 DEF Aged
  <2> QED BY <2>2, <2>3, OldSnap
<1>5. Loaded'
  BY <1>1, <1>4 DEF Inv, Loaded
<1>6. SnapsFit'
  <2> SUFFICES ASSUME NEW s \in Slots, snap'[s].game # NoGame
               PROVE  snap'[s].old /\ Fits(snap'[s].game, snap'[s].chip, snap'[s].driver)
    BY <1>3 DEF SnapsFit, Fits, FollowsLibrary, Sound, Flash
  <2>1. /\ Fits(snap[s].game, snap[s].chip, snap[s].driver)
        /\ snap[s].chip \in Chips /\ snap[s].game \in Games
    BY <1>1, <1>4 DEF Inv, SnapsFit, TypeOK
  <2> DEFINE c == snap'[s].chip
  <2>2. /\ c.backup_type = snap[s].chip.backup_type /\ c.sram_size = snap[s].chip.sram_size
        /\ c.flash_mode = snap[s].chip.flash_mode /\ c.flash_size = snap[s].chip.flash_size
        /\ c.flash_command_position = snap[s].chip.flash_command_position
        /\ c.eeprom_size = snap[s].chip.eeprom_size
    BY <1>4, <2>1 DEF Chips
  <2>3. Fits(snap[s].game, c, snap[s].driver)
    BY <2>1, <2>2 DEF Fits, FollowsLibrary
  <2> HIDE DEF c
  <2> QED BY <1>4, <2>1, <2>3 DEF c
<1>7. Files'
  <2> SUFFICES ASSUME NEW g \in DOMAIN kind, g \notin spoiled', g \in Games PROVE OwnFile(g)'
    BY <1>1, KindsOf DEF Files, Sound
  <2>1. OwnFile(g)
    BY <1>3 DEF Inv, Files, Sound
  <2>2. file'[g] = file[g] /\ onFile'[g] = onFile[g] /\ fileJunk'[g] = fileJunk[g]
    <3>1. CASE UNCHANGED fileVars
      BY <3>1 DEF fileVars
    <3>2. CASE ~UNCHANGED fileVars
      <4>1. g # game
        BY <1>2, <1>3, <3>2, DelayPositive DEF Pending
      <4> QED BY <1>2, <1>1, <3>2, <4>1 DEF WriteFile, TypeOK
    <3> QED BY <3>1, <3>2
  <2> QED BY <2>1, <2>2 DEF OwnFile, KindRegions, KindSize
<1>8. ChipFits' /\ BankKept' /\ Playing'
  BY <1>1, DelayPositive DEF ChipFits, BankKept, Playing, Sound
<1> QED BY <1>5, <1>6, <1>7, <1>8 DEF Inv

LEMMA InitInv == Init => Inv
<1> SUFFICES ASSUME Init PROVE Inv
  OBVIOUS
<1>1. TypeOK
  <2>1. NoSnap \in Snaps
    BY ChipTypes DEF NoSnap, Snaps
  <2> QED BY <2>1, ChipTypes, DelayPositive DEF Init, TypeOK, Snaps, Absent
<1>2. \A s \in Slots : snap[s].game = NoGame
  BY DEF Init, NoSnap
<1>3. DOMAIN kind \subseteq Games
  BY <1>1, KindsOf
<1> QED
  BY <1>1, <1>2, <1>3, DelayPositive
     DEF Init, Inv, Loaded, ChipFits, BankKept, SnapsFit, Playing, Files, OwnFile, Sound, Flash

LEMMA StepInv == Inv /\ [Next]_vars => Inv'
<1> SUFFICES ASSUME Inv, [Next]_vars PROVE Inv'
  OBVIOUS
<1>1. TypeOK'
  BY TypeStep DEF Inv
<1>2. CASE UNCHANGED vars
  BY <1>2, ZenonT(60)
  DEF vars, fileVars, Inv, TypeOK, Loaded, ChipFits, BankKept, SnapsFit, Playing, Files,
     OwnFile, Fits, FollowsLibrary, Sound, Flash, Pending, Known, KindRegions, KindSize
<1>3. CASE Next
  BY <1>1, <1>3, AccessKeeps, FrameKeeps, LoadKeeps, ResetKeeps, UnloadKeeps, SaveKeeps,
     RestoreKeeps, KillKeeps DEF Next
<1> QED BY <1>2, <1>3

LEMMA Always == Spec => []Inv
  BY InitInv, StepInv, PTL DEF Spec

-----------------------------------------------------------------------------
(* What a step does to the data and to the files. *)

LEMMA FileStep ==
  ASSUME Inv, [Next]_vars, NEW g \in Games
  PROVE  file'[g] = file[g] \/ (g = game /\ game \in DOMAIN kind /\ file'[g] >= 0)
<1>1. CASE UNCHANGED file
  BY <1>1
<1>2. CASE GameStep /\ UNCHANGED kind
  BY <1>2, Access DEF Accessed
<1>3. game \in Games => game \in DOMAIN kind
  BY DelayPositive DEF Inv, Loaded
<1>4. ASSUME NEW size, size >= 0, file' = [file EXCEPT ![game] = size] PROVE
        file'[g] = file[g] \/ (g = game /\ file'[g] >= 0)
  BY <1>4 DEF Inv, TypeOK
<1>5. chip.backup_type # "none" => BackupSize \in 1..5
  BY SizeTypes DEF Inv
<1>6. CASE Frame
  <2>1. CASE UNCHANGED fileVars
    BY <2>1 DEF fileVars
  <2>2. CASE ~UNCHANGED fileVars
    <3>1. SaveBackup /\ chip.backup_type # "none" /\ game \in Games
      BY <1>6, <2>2 DEF Frame, UpdateBackup, SaveBackup
    <3>2. PICK size \in 0..BackupSize : file' = [file EXCEPT ![game] = size]
      BY <1>5, <2>2, <3>1 DEF SaveBackup, WriteFile
    <3>3. size >= 0
      BY <1>5, <3>1, <3>2
    <3> QED BY <1>3, <1>4, <3>1, <3>2, <3>3
  <2> QED BY <2>1, <2>2
<1>7. CASE Kill
  <2>1. CASE UNCHANGED fileVars
    BY <2>1 DEF fileVars
  <2>2. CASE ~UNCHANGED fileVars
    <3>1. /\ game \in Games /\ chip.backup_type # "none"
          /\ \E size \in 0..BackupSize : file' = [file EXCEPT ![game] = size]
      BY <1>7, <2>2 DEF Kill, WriteFile
    <3>2. PICK size \in 0..BackupSize : file' = [file EXCEPT ![game] = size]
      BY <3>1
    <3>3. size >= 0
      BY <1>5, <3>1, <3>2
    <3> QED BY <1>3, <1>4, <3>1, <3>2, <3>3 DEF Inv, TypeOK
  <2> QED BY <2>1, <2>2
<1>8. CASE ~UNCHANGED file /\ ~Frame /\ ~Kill /\ ~GameStep
  BY <1>8 DEF Next, vars, LoadROM, Reset, UnloadROM, SaveState, LoadState, fileVars
<1> QED BY <1>1, <1>2, <1>6, <1>7, <1>8 DEF Next, vars

LEMMA SpoiledGrows == Inv /\ [Next]_vars => spoiled \subseteq spoiled'
<1> SUFFICES ASSUME Inv, [Next]_vars PROVE spoiled \subseteq spoiled'
  OBVIOUS
<1>1. CASE UNCHANGED vars
  BY <1>1 DEF vars
<1>2. CASE GameStep /\ UNCHANGED kind
  BY <1>2, Access DEF Accessed
<1>3. CASE Frame
  BY <1>3 DEF Frame, UpdateBackup, SaveBackup
<1>4. CASE (\E g \in DOMAIN kind : LoadROM(g)) \/ Reset \/ UnloadROM \/ Kill
  BY <1>4, SpoilKeeps DEF LoadROM, Reset, UnloadROM, Kill
<1>5. CASE \E s \in Slots : SaveState(s) \/ LoadState(s)
  BY <1>5 DEF SaveState, LoadState
<1> QED BY <1>1, <1>2, <1>3, <1>4, <1>5 DEF Next

-----------------------------------------------------------------------------
(* The theorems. *)

(* Chip, data, files, library and savestates keep their types, whatever    *)
(* the order of accesses, frames, menus and process deaths.                *)
THEOREM TypeCorrect == Spec => []TypeOK
<1>1. Inv => TypeOK
  BY DEF Inv
<1> QED BY <1>1, Always, PTL

(* write_backup's command state never leaves the library of a flash game.  *)
THEOREM CommandsInStep == Spec => []InStep
<1>1. Inv => InStep
  BY DelayPositive, KindsOf DEF Inv, ChipFits, Fits, FollowsLibrary, InStep, Flash
<1> QED BY <1>1, Always, PTL

(* A flash game's bytes go to the bank it has chosen.                      *)
THEOREM BanksKept == Spec => []BankKept
<1>1. Inv => BankKept
  BY DEF Inv
<1> QED BY <1>1, Always, PTL

(* What a game stored is in its file when the countdown of update_backup   *)
(* is over: the write-back never writes the size of another chip.          *)
THEOREM DataDurable == Spec => []Durable
<1>1. Inv => Durable
  BY DEF Inv, Playing, Durable
<1> QED BY <1>1, Always, PTL

(* load_backup never leaves the bytes of another game in a game's chip.    *)
THEOREM OwnBytes == Spec => []NoForeignBytes
<1>1. Inv => NoForeignBytes
  BY DEF Inv, Playing, Files, OwnFile, NoForeignBytes
<1> QED BY <1>1, Always, PTL

(* No write of save_backup cuts a file: all are as long as the chip.       *)
THEOREM FilesNeverShrink == Spec => FileNeverShrinks
<1>1. ASSUME Inv, Inv', [Next]_vars
      PROVE  \A g \in Games \ spoiled' : file'[g] >= file[g]
  <2> SUFFICES ASSUME NEW g \in Games, g \notin spoiled' PROVE file'[g] >= file[g]
    OBVIOUS
  <2>1. file[g] \in Int /\ file'[g] \in Int /\ UNCHANGED kind
    BY <1>1 DEF Inv, TypeOK, Absent, Next, Frame, vars
  <2>2. CASE file'[g] = file[g]
    BY <2>1, <2>2
  <2>3. CASE g = game /\ game \in DOMAIN kind /\ file'[g] >= 0
    <3>1. spoiled \subseteq spoiled'
      BY <1>1, SpoiledGrows
    <3>2. file[g] \in {Absent, KindSize(g)} /\ file'[g] \in {Absent, KindSize(g)}
      BY <1>1, <2>1, <2>3, <3>1 DEF Inv, Files, OwnFile, Sound, KindSize
    <3> QED BY <2>1, <2>3, <3>2 DEF Absent
  <2> QED BY <1>1, <2>2, <2>3, FileStep
<1>2. ASSUME Inv, Inv', [Next]_vars
      PROVE  [\A g \in Games \ spoiled' : file'[g] >= file[g]]_vars
  BY <1>1, <1>2
<1> QED BY <1>2, Always, PTL DEF Spec, FileNeverShrinks
=============================================================================
