---------------------------- MODULE RealTimeClock ----------------------------
(***************************************************************************)
(* The clock of the cartridge (write_rtc of memory.c): a serial chip       *)
(* behind three registers at 0x80000C4, C6 and C8. What the game reads     *)
(* there is not the registers but the bytes of page 0 of the cartridge the *)
(* emulator writes them to, so that the clock is composed with the pages   *)
(* of GamepakCache: page 0 may be evicted and read again from the file at  *)
(* any time, and load_gamepak_page puts the registers back.                *)
(*                                                                         *)
(* A register or a byte is the set of its bits that are 1. Of the page     *)
(* there is the byte at C4, which the answers are read from: that the      *)
(* other two registers come back at C5 and C6 instead of C6 and C8 is left *)
(* out. So are savestates, and rtc_write_mode, which has one value.        *)
(***************************************************************************)
EXTENDS GamepakCache

CONSTANTS
  DateBytes,  \* bytes of the date and time: 7
  TimeBytes,  \* the last of them that are the time: 3
  Dates,      \* what the phone's clock may say, in BCD
  Statuses,   \* what the game writes to the status
  RomByte     \* what the cartridge has at C4

Byte == SUBSET (0..7)
SCK == 0
SIO == 1
CS == 2
Wires == {SCK, SIO, CS}

(* No byte of a date has its top bit set, up to the year 79. *)
ASSUME ClockAssumption ==
  /\ TimeBytes \in Nat \ {0} /\ DateBytes \in Nat /\ TimeBytes <= DateBytes
  /\ Dates \subseteq [0..(DateBytes - 1) -> SUBSET (0..6)] /\ Dates # {}
  /\ Statuses \subseteq Byte /\ RomByte \in SUBSET Wires

RESET == {5, 6}                   \* RTC_COMMAND_RESET, 0x60
WRITE_STATUS == {1, 5, 6}
READ_STATUS == {0, 1, 5, 6}
OUTPUT_TIME_FULL == {0, 2, 5, 6}
OUTPUT_TIME == {0, 1, 2, 5, 6}
Commands == {RESET, WRITE_STATUS, READ_STATUS, OUTPUT_TIME_FULL, OUTPUT_TIME}
Questions == {READ_STATUS, OUTPUT_TIME_FULL, OUTPUT_TIME}

VARIABLES
  rtc,     \* the variables of the chip, rtc_state, rtc_registers, ...
  port,    \* the byte at C4 of the page in each slot
  driver,  \* the game: where it is in a command, what it asks and hears
  reply    \* history: the bytes the clock gave to the last question

clock == <<rtc, driver, reply>>
clockVars == <<vars, port, clock>>

-----------------------------------------------------------------------------
(***************************************************************************)
(* The chip. A command is accepted bit by bit, the highest first, on       *)
(* writes with SCK; an answer is given the lowest bit first, put out on    *)
(* writes without SCK and counted on writes with it.                       *)
(***************************************************************************)
NoWires == [i \in 0..2 |-> {}]
NoReply == [i \in {} |-> {}]

(* A bug: a byte has nine bits. *)
CompleteLate(r) == r.bit_count > 8 * r.data_bytes

Complete(r) == r.bit_count = 8 * r.data_bytes

(* While CS was low the game does not drive SIO. *)
Effective(r, value) ==
  IF CS \in r.registers[0] THEN value ELSE (r.registers[0] \cap {SIO}) \cup (value \ {SIO})

ReplyBytes(command) ==
  CASE command = READ_STATUS -> 1
    [] command = OUTPUT_TIME_FULL -> DateBytes
    [] command = OUTPUT_TIME -> TimeBytes

(* The bytes of the answer to a question at the given date. *)
ReplyTo(command, status, date) ==
  [i \in 0..(ReplyBytes(command) - 1) |->
     CASE command = READ_STATUS -> status
       [] command = OUTPUT_TIME_FULL -> date[i]
       [] command = OUTPUT_TIME -> date[DateBytes - TimeBytes + i]]

(* A command has come in whole. One that is not known stays there. *)
Executed(r, date) ==
  LET counted == [r EXCEPT !.bit_count = 0]
  IN  CASE r.command = RESET ->
             [counted EXCEPT !.state = "IDLE", !.registers = NoWires]
        [] r.command = WRITE_STATUS ->
             [counted EXCEPT !.state = "INPUT_DATA", !.data_bytes = 1]
        [] r.command \in Questions ->
             LET answer == ReplyTo(r.command, r.status, date)
             IN  [counted EXCEPT !.state = "OUTPUT_DATA",
                                 !.data_bytes = ReplyBytes(r.command),
                                 !.data = [i \in DOMAIN @ |->
                                             IF i \in DOMAIN answer THEN answer[i] ELSE @[i]]]
        [] OTHER -> counted

TakeCommand(r, value, date) ==
  LET bit == IF SIO \in value THEN {r.bit_count} ELSE {}
      taken == IF SCK \in value
               THEN [r EXCEPT !.command = @ \cup bit, !.bit_count = @ - 1]
               ELSE r
  IN  IF taken.bit_count < 0 THEN Executed(taken, date) ELSE taken

(* The bits of the new status are counted, but none is kept: only writes   *)
(* without SCK are looked at, and there the code takes SCK for the bit.    *)
TakeData(r, value) ==
  LET counted == [r EXCEPT !.bit_count = @ + 1]
  IN  IF SIO \notin r.registers[1] \/ SCK \notin value THEN r
      ELSE IF Complete(counted)
           THEN [counted EXCEPT !.state = "IDLE", !.status = r.data[0]]
           ELSE counted

BitOut(r) == IF (r.bit_count % 8) \in r.data[r.bit_count \div 8] THEN {SIO} ELSE {}

GiveData(r, value) ==
  LET counted == [r EXCEPT !.bit_count = @ + 1]
  IN  IF SIO \in r.registers[1] THEN r
      ELSE IF SCK \notin value
           THEN [r EXCEPT !.registers[0] = (r.registers[2] \ {SIO}) \cup BitOut(r)]
           ELSE IF Complete(counted)
                THEN [counted EXCEPT !.state = "IDLE", !.registers = NoWires]
                ELSE counted

(* write_rtc at C4. With the port not readable it is C8 that is written. *)
Readable(r) == SCK \in r.registers[2]

Awake(r) == [r EXCEPT !.state = IF @ = "DISABLED" THEN "IDLE" ELSE @]

WrittenC4(r, wires, date) ==
  LET value == Effective(r, wires)
      awake == Awake(r)
      stored == [awake EXCEPT !.registers[0] = value]
  IN  CASE ~Readable(r) ->
             [awake EXCEPT !.registers[2] = value]
        [] Readable(r) /\ awake.state = "COMMAND" -> TakeCommand(stored, value, date)
        [] Readable(r) /\ awake.state = "INPUT_DATA" -> TakeData(stored, value)
        [] Readable(r) /\ awake.state = "OUTPUT_DATA" -> GiveData(stored, value)
        [] Readable(r) /\ awake.state = "IDLE" ->
             IF r.registers[0] = {SCK} /\ value = {SCK, CS}
             THEN [stored EXCEPT !.state = "COMMAND", !.command = {}, !.bit_count = 7]
             ELSE stored

-----------------------------------------------------------------------------
(***************************************************************************)
(* The page: every write to a register is also written to page 0, which is *)
(* loaded for it if it is not there.                                       *)
(***************************************************************************)
PageZero == memory_map_read["wait0"][0]

(* A bug: the registers are not put back onto the page. *)
LoadedFromFile(r) == RomByte

(* The byte at C4 when load_gamepak_page has read page 0. *)
Loaded(r) == IF r.state = "DISABLED" THEN RomByte ELSE r.registers[0]

LoadPageZero(byte) ==
  /\ LoadGamepakPage(0)
  /\ UNCHANGED game
  /\ port' = [port EXCEPT ![PageZero'] = byte]

(* Register C4 gets the byte: the last one, if it is written twice. *)
OnPage(byte) ==
  \/ /\ PageZero # Null
     /\ port' = [port EXCEPT ![PageZero] = byte]
     /\ UNCHANGED vars
  \/ PageZero = Null /\ LoadPageZero(byte)

(* Another register of the port is written. *)
BesideOnPage ==
  \/ PageZero # Null /\ UNCHANGED <<port, vars>>
  \/ PageZero = Null /\ LoadPageZero(Loaded(rtc'))

(* The last bit stays on the page when the registers are cleared. *)
WriteC4(wires) ==
  \E date \in Dates :
    LET value == Effective(rtc, wires)
        out == rtc.state = "OUTPUT_DATA" /\ SIO \notin rtc.registers[1] /\ SCK \notin value
    IN  /\ rtc' = WrittenC4(rtc, wires, date)
        /\ IF ~Readable(rtc) THEN BesideOnPage
           ELSE OnPage(IF out THEN rtc'.registers[0] ELSE value)
        /\ reply' = IF driver.at = "end" THEN NoReply
                    ELSE IF driver.at = "high" /\ driver.bit = 0 /\ driver.asked \in Questions
                    THEN ReplyTo(driver.asked, rtc.status, date) ELSE reply

WriteRegister(i, wires) ==
  /\ rtc' = [rtc EXCEPT !.registers[i] = wires]
  /\ BesideOnPage
  /\ UNCHANGED reply

-----------------------------------------------------------------------------
(***************************************************************************)
(* The game: its driver sends one of the commands, the highest bit first,  *)
(* and then sends the new status or clocks the answer out, the lowest bit  *)
(* first. It pays no attention to what happens to the page meanwhile.      *)
(***************************************************************************)
Resting == [at |-> "rest", asked |-> RESET, sent |-> {}, bit |-> 0, heard |-> {}]

Goto(at) == driver' = [driver EXCEPT !.at = at]
Data(bits) == IF driver.bit \in bits THEN {SIO} ELSE {}

Ask ==
  /\ driver.at = "rest" /\ game # NoGame
  /\ WriteRegister(2, {SCK})
  /\ \E command \in Commands, status \in Statuses :
       driver' = [driver EXCEPT !.at = "raise", !.asked = command,
                                !.sent = IF command = WRITE_STATUS THEN status ELSE {}]

(* "To begin writing a command 1, 5 must be written" *)
Raise == driver.at = "raise" /\ WriteC4({SCK}) /\ Goto("start")
Start == driver.at = "start" /\ WriteC4({SCK, CS}) /\ Goto("output")

Output ==
  /\ driver.at = "output"
  /\ WriteRegister(1, Wires)
  /\ driver' = [driver EXCEPT !.at = "low", !.bit = 7]

CommandLow == driver.at = "low" /\ WriteC4({CS} \cup Data(driver.asked)) /\ Goto("high")

CommandHigh ==
  /\ driver.at = "high"
  /\ WriteC4({SCK, CS} \cup Data(driver.asked))
  /\ driver' = [driver EXCEPT
       !.at = IF driver.bit > 0 THEN "low"
              ELSE IF driver.asked = RESET THEN "end"
              ELSE IF driver.asked = WRITE_STATUS THEN "status low" ELSE "input",
       !.bit = IF driver.bit > 0 THEN @ - 1 ELSE 0]

StatusLow ==
  driver.at = "status low" /\ WriteC4({CS} \cup Data(driver.sent)) /\ Goto("status high")

StatusHigh ==
  /\ driver.at = "status high"
  /\ WriteC4({SCK, CS} \cup Data(driver.sent))
  /\ driver' = [driver EXCEPT !.at = IF driver.bit = 7 THEN "end" ELSE "status low",
                              !.bit = @ + 1]

Input == driver.at = "input" /\ WriteRegister(1, {SCK, CS}) /\ Goto("clock low")

ClockLow == driver.at = "clock low" /\ WriteC4({CS}) /\ Goto("clock high")
ClockHigh == driver.at = "clock high" /\ WriteC4({SCK, CS}) /\ Goto("hear")

(* The read of C4; before it the page is loaded if need be (Access). *)
Hear ==
  /\ driver.at = "hear" /\ PageZero # Null
  /\ driver' = [driver EXCEPT
       !.at = IF driver.bit + 1 = 8 * ReplyBytes(driver.asked) THEN "end" ELSE "clock low",
       !.bit = @ + 1,
       !.heard = IF SIO \in port[PageZero] THEN @ \cup {driver.bit} ELSE @]
  /\ UNCHANGED <<vars, port, rtc, reply>>

End == driver.at = "end" /\ WriteC4({SCK}) /\ driver' = Resting

Driver ==
  \/ Ask \/ Raise \/ Start \/ Output \/ CommandLow \/ CommandHigh
  \/ StatusLow \/ StatusHigh \/ Input \/ ClockLow \/ ClockHigh \/ Hear \/ End

-----------------------------------------------------------------------------
(* The pages and the clock: an access may load page 0, a reset disables    *)
(* the clock and starts the game again.                                    *)
ClockAccess(m, p) ==
  /\ Access(m, p)
  /\ port' = [port EXCEPT ![memory_map_read'["wait0"][p]] = IF p = 0 THEN Loaded(rtc) ELSE RomByte]
  /\ UNCHANGED clock

(* init_memory. The count, the data and the status keep their values. *)
Disabled == [rtc EXCEPT !.state = "DISABLED", !.registers = NoWires]

ClockLoadGamepak(g) ==
  /\ LoadGamepak(g)
  /\ port' = [port EXCEPT ![0] = RomByte]
  /\ rtc' = Disabled /\ driver' = Resting /\ reply' = NoReply

ClockReset ==
  /\ Reset
  /\ rtc' = Disabled /\ driver' = Resting /\ reply' = NoReply
  /\ UNCHANGED port

Cartridge ==
  \/ \E m \in Mirrors, p \in PageIds : ClockAccess(m, p)
  \/ \E g \in Games : ClockLoadGamepak(g)
  \/ ClockReset

ClockInit ==
  /\ Init
  /\ rtc = [state |-> "DISABLED", registers |-> NoWires, command |-> {},
            data |-> [i \in 0..(DateBytes - 1) |-> {}], status |-> {6},
            data_bytes |-> 0, bit_count |-> 0]
  /\ port = [s \in SlotIds |-> RomByte]
  /\ driver = Resting
  /\ reply = NoReply

ClockNext == Cartridge \/ Driver

ClockSpec == ClockInit /\ [][ClockNext]_clockVars

-----------------------------------------------------------------------------
Hears == driver.asked \in Questions /\ driver.at \in {"clock low", "clock high", "hear", "end"}

(* What the game hears is what the clock answered to its question, bit for *)
(* bit, whatever happens to the page its port is on between the write that *)
(* clocks a bit out and the read of it (write_rtc, load_gamepak_page).     *)
AnswerHeard ==
  Hears => driver.heard = {b \in 0..(driver.bit - 1) : (b % 8) \in reply[b \div 8]}

(* A command leaves the clock ready for the next one: it has taken and     *)
(* given as many bits as the game.                                         *)
CommandsEnd == driver.at \in {"rest", "raise", "end"} => rtc.state \in {"DISABLED", "IDLE"}

(* "Sets status of RTC" (memory.c:1550): the status is what the game sent. *)
StatusWritten ==
  driver.at = "end" /\ driver.asked = WRITE_STATUS => rtc.status = driver.sent
=============================================================================
