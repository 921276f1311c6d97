------------------------------- MODULE Eeprom -------------------------------
(***************************************************************************)
(* The serial protocol of the EEPROM: write_eeprom and read_eeprom of      *)
(* src/jni/gbalib/memory.c, with the size detection of trigger_dma.        *)
(*                                                                         *)
(* A game sends a command, and fetches an answer, in one DMA transfer of   *)
(* single bits. No frame ends inside a transfer, so a transfer is one      *)
(* action, which folds write_eeprom or read_eeprom over its bits. Resets,  *)
(* savestates and write-backs fall between transfers, also between the     *)
(* request for a word and the transfer that fetches it.                    *)
(*                                                                         *)
(* A word is the set of the positions, 0..63, of its bits that are 1; the  *)
(* first two bytes of eeprom_buffer are the set of theirs, 0..15. Position *)
(* p is bit 7 - p % 8 of byte p \div 8.                                    *)
(***************************************************************************)
EXTENDS Integers, Sequences

CONSTANTS
  WordsOf,  \* the words the game uses, for each chip it may have
  Values,   \* the words' values
  Nothing   \* no word, no savestate

Sizes == {"512B", "8KB"}
Positions == 0..63
Blank == Positions   \* load_backup fills a memory without file with 0xFF

ASSUME EepromAssumption ==
  /\ DOMAIN WordsOf = Sizes
  /\ WordsOf["512B"] \subseteq 0..63
  /\ WordsOf["8KB"] \subseteq 0..1023
  /\ Values \subseteq SUBSET Positions
  /\ Nothing \notin UNION {WordsOf[k] : k \in Sizes}

VARIABLES
  kind,     \* the chip the game was made for
  chip,     \* the eeprom_ variables
  mem,      \* gamepak_backup, the words that were touched
  backup_update, \* "idle", or "set" when a write-back is scheduled
  waiting,  \* the word the game has requested and not fetched
  answer,   \* the last word the game fetched
  snap,     \* a savestate: chip and waiting
  written   \* history: the words as the game wrote them

vars == <<kind, chip, mem, backup_update, waiting, answer, snap, written>>

InitChip == [eeprom_size |-> "512B", eeprom_mode |-> "base",
             eeprom_address_length |-> 0, eeprom_address |-> 0,
             eeprom_counter |-> 0, eeprom_buffer |-> {}]

Init ==
  /\ kind \in Sizes
  /\ chip = InitChip
  /\ mem = [w \in WordsOf[kind] |-> Blank]
  /\ backup_update = "idle"
  /\ waiting = Nothing
  /\ answer = Nothing
  /\ snap = Nothing
  /\ written = mem

-----------------------------------------------------------------------------
(* The chip. A machine m has the fields chip, mem, update, and got, the    *)
(* bits read so far.                                                       *)

Bit(b, p) == IF b = 1 THEN {p} ELSE {}
Byte(buffer, i) ==
  LET bit(p) == IF 8 * i + p \in buffer THEN 1 ELSE 0
  IN 128 * bit(0) + 64 * bit(1) + 32 * bit(2) + 16 * bit(3)
       + 8 * bit(4) + 4 * bit(5) + 2 * bit(6) + bit(7)

Word(c) == c.eeprom_address \div 8
Content(m, w) == IF w \in DOMAIN m.mem THEN m.mem[w] ELSE Blank
Store(m, w, v) == [x \in DOMAIN m.mem \cup {w} |-> IF x = w THEN v ELSE m.mem[x]]

(* EEPROM_BASE_MODE: the two bits of a command, 1 << (1 - eeprom_counter). *)
Command(m, b) ==
  LET c      == m.chip
      buffer == c.eeprom_buffer \cup Bit(b, 6 + c.eeprom_counter)
      mode   == IF 6 \notin buffer THEN "base"
                ELSE IF 7 \in buffer THEN "address" ELSE "write address"
  IN IF c.eeprom_counter + 1 = 2
     THEN [m EXCEPT !.chip.eeprom_mode = mode, !.chip.eeprom_counter = 0,
                    !.chip.eeprom_buffer = {},
                    !.chip.eeprom_address_length = IF c.eeprom_size = "512B" THEN 6 ELSE 14]
     ELSE [m EXCEPT !.chip.eeprom_counter = @ + 1, !.chip.eeprom_buffer = buffer]

(* address16(eeprom_buffer, 0) >> 2, or the two bytes the other way round. *)
(* A bug: the same way for both chips.                                     *)
DecodeSwapped(c, buffer) ==
  ((Byte(buffer, 0) + 256 * Byte(buffer, 1)) \div 4) * 8
Decode(c, buffer) ==
  IF c.eeprom_size = "512B"
  THEN ((Byte(buffer, 0) + 256 * Byte(buffer, 1)) \div 4) * 8
  ELSE (Byte(buffer, 1) \div 4 + Byte(buffer, 0) * 64) * 8

(* The bits of a word are or-ed into it: it is cleared before they come.   *)
(* A bug: it is not.                                                       *)
NotCleared(m, w) == m.mem
Cleared(m, w) == Store(m, w, {})

(* EEPROM_ADDRESS_MODE and EEPROM_WRITE_ADDRESS_MODE. *)
Address(m, b) ==
  LET c       == m.chip
      buffer  == c.eeprom_buffer \cup Bit(b, c.eeprom_counter)
      address == Decode(c, buffer)
  IN IF c.eeprom_counter + 1 # c.eeprom_address_length
     THEN [m EXCEPT !.chip.eeprom_counter = @ + 1, !.chip.eeprom_buffer = buffer]
     ELSE [m EXCEPT
       !.chip.eeprom_address = address, !.chip.eeprom_counter = 0,
       !.chip.eeprom_mode = IF c.eeprom_mode = "address" THEN "address footer" ELSE "write",
       !.chip.eeprom_buffer = {},
       !.mem = IF c.eeprom_mode = "address" THEN m.mem ELSE Cleared(m, address \div 8)]

(* EEPROM_WRITE_MODE. *)
Data(m, b) ==
  LET c    == m.chip
      done == c.eeprom_counter + 1 = 64
  IN [m EXCEPT
       !.mem = Store(m, Word(c), Content(m, Word(c)) \cup Bit(b, c.eeprom_counter)),
       !.update = IF done THEN "set" ELSE m.update,
       !.chip.eeprom_counter = IF done THEN 0 ELSE c.eeprom_counter + 1,
       !.chip.eeprom_mode = IF done THEN "write footer" ELSE "write"]

Footer(m) ==
  [m EXCEPT !.chip.eeprom_counter = 0,
            !.chip.eeprom_mode = IF m.chip.eeprom_mode = "address footer"
                                 THEN "read header" ELSE "base"]

write_eeprom(m, b) ==
  CASE m.chip.eeprom_mode = "base" -> Command(m, b)
    [] m.chip.eeprom_mode \in {"address", "write address"} -> Address(m, b)
    [] m.chip.eeprom_mode = "write" -> Data(m, b)
    [] m.chip.eeprom_mode \in {"address footer", "write footer"} -> Footer(m)
    [] OTHER -> m   \* the chip is being read: the bit is dropped

ReadData(m) ==
  LET last == m.chip.eeprom_counter + 1 = 64
  IN [m EXCEPT !.got = Append(@, IF m.chip.eeprom_counter \in Content(m, Word(m.chip))
                                 THEN 1 ELSE 0),
               !.chip.eeprom_counter = IF last THEN 0 ELSE m.chip.eeprom_counter + 1,
               !.chip.eeprom_mode = IF last THEN "base" ELSE "read"]

read_eeprom(m) ==
  LET last == m.chip.eeprom_counter + 1 = 4
  IN CASE m.chip.eeprom_mode = "read" -> ReadData(m)
       [] m.chip.eeprom_mode = "read header" ->
            [m EXCEPT !.got = Append(@, 0),
                      !.chip.eeprom_counter = IF last THEN 0 ELSE m.chip.eeprom_counter + 1,
                      !.chip.eeprom_mode = IF last THEN "read" ELSE "read header"]
       [] OTHER -> [m EXCEPT !.got = Append(@, IF m.chip.eeprom_mode = "base" THEN 1 ELSE 0)]

(* trigger_dma: 17 and 81 units to 0x0D000000 are those of an 8KB chip.    *)
Detect(c, n) == IF n % 32 = 17 THEN [c EXCEPT !.eeprom_size = "8KB"] ELSE c

-----------------------------------------------------------------------------
(* The game. *)

Machine == [chip |-> chip, mem |-> mem, update |-> backup_update, got |-> <<>>]
Becomes(m) ==
  /\ chip' = m.chip
  /\ mem' = m.mem
  /\ backup_update' = m.update

Received(m, bits) ==
  LET after[i \in 0..Len(bits)] ==
        IF i = 0 THEN m ELSE write_eeprom(after[i - 1], bits[i])
  IN after[Len(bits)]
Send(bits) == Becomes(Received([Machine EXCEPT !.chip = Detect(@, Len(bits))], bits))

Fetched(n) ==
  LET after[i \in 0..n] == IF i = 0 THEN Machine ELSE read_eeprom(after[i - 1])
  IN after[n]

AddressBits(w) ==
  LET n == IF kind = "512B" THEN 6 ELSE 14
  IN [i \in 1..n |-> (w \div 2 ^ (n - i)) % 2]
DataBits(v) == [i \in 1..64 |-> IF i - 1 \in v THEN 1 ELSE 0]

Request(w) ==
  /\ waiting = Nothing
  /\ Send(<<1, 1>> \o AddressBits(w) \o <<0>>)
  /\ waiting' = w
  /\ UNCHANGED <<kind, answer, snap, written>>

(* Four bits to be ignored and the 64 of the word. *)
Fetch ==
  /\ waiting # Nothing
  /\ LET m == Fetched(68)
     IN Becomes(m) /\ answer' = {p \in Positions : m.got[p + 5] = 1}
  /\ waiting' = Nothing
  /\ UNCHANGED <<kind, snap, written>>

WriteWord(w, v) ==
  /\ waiting = Nothing
  /\ Send(<<1, 0>> \o AddressBits(w) \o DataBits(v) \o <<0>>)
  /\ written' = [written EXCEPT ![w] = v]
  /\ UNCHANGED <<kind, waiting, answer, snap>>

-----------------------------------------------------------------------------
(* Between transfers. *)

(* update_backup and save_backup, in SaveMemory. *)
WriteBack ==
  /\ backup_update = "set"
  /\ backup_update' = "idle"
  /\ UNCHANGED <<kind, chip, mem, waiting, answer, snap, written>>

(* A bug: eeprom_mode survives a reset. *)
ResetButMode(c) ==
  [c EXCEPT !.eeprom_size = "512B", !.eeprom_address = 0, !.eeprom_counter = 0]
(* init_memory: eeprom_buffer and eeprom_address_length stay.              *)
ResetChip(c) ==
  [c EXCEPT !.eeprom_size = "512B", !.eeprom_mode = "base",
            !.eeprom_address = 0, !.eeprom_counter = 0]

Reset ==
  /\ chip' = ResetChip(chip)
  /\ waiting' = Nothing
  /\ UNCHANGED <<kind, mem, backup_update, answer, snap, written>>

SaveState ==
  /\ snap' = [chip |-> chip, waiting |-> waiting]
  /\ UNCHANGED <<kind, chip, mem, backup_update, waiting, answer, written>>

(* gamepak_backup is not part of a savestate. *)
LoadState ==
  /\ snap # Nothing
  /\ chip' = snap.chip
  /\ waiting' = snap.waiting
  /\ UNCHANGED <<kind, mem, backup_update, answer, snap, written>>

Next ==
  \/ \E w \in WordsOf[kind] : Request(w) \/ \E v \in Values : WriteWord(w, v)
  \/ Fetch
  \/ WriteBack \/ Reset \/ SaveState \/ LoadState

Spec == Init /\ [][Next]_vars

-----------------------------------------------------------------------------
Modes == {"base", "read", "read header", "address", "write", "write address",
          "address footer", "write footer"}
Chips == [eeprom_size : Sizes, eeprom_mode : Modes,
          eeprom_address_length : {0, 6, 14}, eeprom_address : Nat,
          eeprom_counter : 0..63, eeprom_buffer : SUBSET (0..15)]

(* A word of the memory is always one the game wrote, whole, or blank, and *)
(* only words of the game's own addresses are touched.                     *)
TypeOK ==
  /\ kind \in Sizes
  /\ chip \in Chips
  /\ DOMAIN mem = WordsOf[kind]
  /\ \A w \in WordsOf[kind] : mem[w] \in Values \cup {Blank}
  /\ backup_update \in {"idle", "set"}
  /\ waiting \in WordsOf[kind] \cup {Nothing}
  /\ answer = Nothing \/ answer \in Values \cup {Blank}
  /\ snap = Nothing \/ (snap.chip \in Chips /\ snap.waiting \in WordsOf[kind] \cup {Nothing})

(* Between transfers the chip is where the game believes it to be: ready   *)
(* for a command, and saying so to a game that polls it, or about to send  *)
(* the word the game waits for; nothing is left in eeprom_buffer that the  *)
(* next command would be or-ed with, also after a reset that does not      *)
(* clear it.                                                               *)
InStep ==
  /\ chip.eeprom_buffer = {} /\ chip.eeprom_counter = 0
  /\ IF waiting = Nothing THEN chip.eeprom_mode = "base" /\ Fetched(1).got = <<1>>
     ELSE chip.eeprom_mode = "read header" /\ Word(chip) = waiting

AllWords == WordsOf["512B"] \cup WordsOf["8KB"]
Chip == INSTANCE EepromStore WITH
  Words <- AllWords,
  store <- [w \in AllWords |-> IF w \in DOMAIN written THEN written[w] ELSE Blank],
  asked <- waiting

(* What the game fetches is what it last wrote: the bits on the wire, in   *)
(* either size, with the size guessed from the first command after each    *)
(* reset, are a store of words.                                            *)
WordStore == Chip!Spec
=============================================================================
