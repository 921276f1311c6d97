------------------------ MODULE RealTimeClock_proofs ------------------------
(***************************************************************************)
(* The pages of a large cartridge and the clock on page 0.                 *)
(*   - Every pointer of the map leads to the page it stands for, and       *)
(*     loading a page unmaps no other, for any number of slots and pages   *)
(*     and any games.                                                      *)
(*   - The game hears what the clock answers and finds it ready for the    *)
(*     next command, for any cartridge, any buffer and answers of any      *)
(*     length.                                                             *)
(* The clock's accesses are accesses to page 0 of GamepakCache, so that    *)
(* what is proved of the pages holds with the clock in place.              *)
(***************************************************************************)
EXTENDS RealTimeClock, TLAPS

(* What makes eviction safe: the slot a page is mapped to knows it by its  *)
(* physical_index, so that the slot cannot be reused unseen.               *)
SlotKnows ==
  game # NoGame /\ ~Fits(game) =>
    \A m \in Mirrors, p \in PageIds :
      Kept(m, p) /\ memory_map_read[m][p] # Null =>
        gamepak_memory_map[memory_map_read[m][p]].physical_index = p

(* Before the first game nothing is mapped, and a game that fits is mapped *)
(* whole, so that no page of it is ever loaded over another.               *)
Whole ==
  /\ game = NoGame =>
       \A m \in Mirrors, p \in PageIds : memory_map_read[m][p] = Null
  /\ game # NoGame /\ Fits(game) =>
       \A m \in Mirrors, p \in PageIds :
         memory_map_read[m][p] = IF p < SizeOf[game] THEN p ELSE Null
  /\ game # NoGame /\ Fits(game) =>
       \A s \in SlotIds : s < SizeOf[game] => gamepak_rom[s] = <<game, s>>

(* A slot that was loaded is mapped, so that no page is loaded twice; only *)
(* page 0 is, whose number a slot never used has too.                      *)
SlotMapped ==
  game # NoGame /\ ~Fits(game) =>
    \A s \in SlotIds :
      gamepak_memory_map[s].physical_index # 0 =>
        \A m \in Mirrors : memory_map_read[m][gamepak_memory_map[s].physical_index] = s

Inv == TypeOK /\ MapTrue /\ SlotKnows /\ SlotMapped /\ Whole

-----------------------------------------------------------------------------
LEMMA Constants ==
  /\ 0 \in SlotIds /\ 0 \in PageIds /\ SlotIds \subseteq Nat /\ Null \notin SlotIds
  /\ \A g \in Games : SizeOf[g] \in 1..Pages
  /\ \A g \in Games : Fits(g) => \A p \in PageIds : p < SizeOf[g] => p \in SlotIds
BY GamepakAssumption DEF SlotIds, PageIds, Fits

LEMMA Initially == Init => Inv
BY Constants, GamepakAssumption DEF Init, Inv, TypeOK, MapTrue, SlotKnows, SlotMapped, Whole

(* A page is only ever loaded for a game that does not fit, into a slot    *)
(* whose former page loses its pointers.                                   *)
LEMMA AccessLoads ==
  ASSUME Inv, NEW m0 \in Mirrors, NEW p0 \in PageIds, Access(m0, p0)
  PROVE  /\ game \in Games /\ game' = game /\ ~Fits(game)
         /\ memory_map_read[m0][p0] = Null
         /\ \E s \in SlotIds :
              /\ memory_map_read' = Remapped(s, p0)
              /\ gamepak_memory_map' = [gamepak_memory_map EXCEPT ![s] =
                                          [page_timestamp |-> page_time, physical_index |-> p0]]
              /\ page_time' = page_time + 1
              /\ gamepak_rom' = [gamepak_rom EXCEPT ![s] = <<game, p0>>]
              /\ \A m \in Mirrors, p \in PageIds :
                   memory_map_read'[m][p] =
                     IF p = p0 THEN s
                     ELSE IF p = gamepak_memory_map[s].physical_index THEN Null
                     ELSE memory_map_read[m][p]
<1>1. PICK s \in SlotIds :
        /\ memory_map_read' = Remapped(s, p0)
        /\ gamepak_memory_map' = [gamepak_memory_map EXCEPT ![s] =
                                    [page_timestamp |-> page_time, physical_index |-> p0]]
        /\ page_time' = page_time + 1
        /\ gamepak_rom' = [gamepak_rom EXCEPT ![s] = <<game, p0>>]
  BY DEF Access, LoadGamepakPage
<1>2. game \in Games /\ game' = game /\ memory_map_read[m0][p0] = Null /\ p0 < SizeOf[game]
  BY DEF Access, Inv, TypeOK
<1>3. ~Fits(game)
  <2>1. Null \notin Nat /\ p0 \in Nat
    BY GamepakAssumption DEF PageIds
  <2> QED BY <1>2, <2>1, GamepakAssumption DEF Inv, Whole
<1>4. gamepak_memory_map[s].physical_index \in PageIds
  BY DEF Inv, TypeOK
<1>5. ASSUME NEW m \in Mirrors, NEW p \in PageIds
      PROVE  memory_map_read'[m][p] =
               IF p = p0 THEN s
               ELSE IF p = gamepak_memory_map[s].physical_index THEN Null
               ELSE memory_map_read[m][p]
  BY <1>1, <1>4 DEF Remapped, Inv, TypeOK
<1> QED BY <1>1, <1>2, <1>3, <1>5

LEMMA AccessStep ==
  ASSUME Inv, NEW m0 \in Mirrors, NEW p0 \in PageIds, Access(m0, p0)
  PROVE  Inv'
<1>2. game \in Games /\ game' = game /\ memory_map_read[m0][p0] = Null /\ ~Fits(game)
  BY AccessLoads
<1>1. PICK s \in SlotIds :
        /\ memory_map_read' = Remapped(s, p0)
        /\ gamepak_memory_map' = [gamepak_memory_map EXCEPT ![s] =
                                    [page_timestamp |-> page_time, physical_index |-> p0]]
        /\ page_time' = page_time + 1
        /\ gamepak_rom' = [gamepak_rom EXCEPT ![s] = <<game, p0>>]
        /\ \A m \in Mirrors, p \in PageIds :
             memory_map_read'[m][p] =
               IF p = p0 THEN s
               ELSE IF p = gamepak_memory_map[s].physical_index THEN Null
               ELSE memory_map_read[m][p]
  BY AccessLoads
<1> DEFINE old == gamepak_memory_map[s].physical_index
<1>4. old \in PageIds
  BY DEF Inv, TypeOK
<1>5. ASSUME NEW m \in Mirrors, NEW p \in PageIds
      PROVE  memory_map_read'[m][p] = IF p = p0 THEN s
                                      ELSE IF p = old THEN Null ELSE memory_map_read[m][p]
  BY <1>1
<1>6. TypeOK'
  <2>1. memory_map_read' \in [Mirrors -> [PageIds -> SlotIds \cup {Null}]]
    BY <1>1, <1>4 DEF Remapped, Inv, TypeOK
  <2> QED BY <1>1, <1>2, <2>1 DEF Inv, TypeOK
<1>7. ASSUME NEW m \in Mirrors, NEW p \in PageIds, Kept(m, p),
             memory_map_read'[m][p] # Null
      PROVE  /\ gamepak_rom'[memory_map_read'[m][p]] = <<game, p>>
             /\ gamepak_memory_map'[memory_map_read'[m][p]].physical_index = p
  <2>1. CASE p = p0
    BY <1>1, <1>5, <2>1 DEF Inv, TypeOK
  <2>2. CASE p # p0
    <3> DEFINE t == memory_map_read[m][p]
    <3>1. memory_map_read'[m][p] = t /\ t # Null /\ p # old
      BY <1>5, <1>7, <2>2
    <3>2. t \in SlotIds
      BY <3>1 DEF Inv, TypeOK
    <3>3. gamepak_memory_map[t].physical_index = p /\ gamepak_rom[t] = <<game, p>>
      BY <1>2, <1>7, <3>1, GamepakAssumption DEF Inv, SlotKnows, MapTrue
    <3>4. t # s
      BY <3>1, <3>3
    <3> QED BY <1>1, <3>1, <3>2, <3>3, <3>4 DEF Inv, TypeOK
  <2> QED BY <2>1, <2>2
<1>8. MapTrue' /\ SlotKnows'
  BY <1>2, <1>7 DEF MapTrue, SlotKnows, Kept
<1>9. Whole'
  BY <1>2, GamepakAssumption DEF Whole, Fits
<1>10. SlotMapped'
  <2>1. ASSUME NEW t \in SlotIds, gamepak_memory_map'[t].physical_index # 0, NEW m \in Mirrors
        PROVE  memory_map_read'[m][gamepak_memory_map'[t].physical_index] = t
    <3>1. CASE t = s
      <4>1. gamepak_memory_map'[t].physical_index = p0
        BY <1>1, <3>1 DEF Inv, TypeOK
      <4> QED BY <1>5, <3>1, <4>1
    <3>2. CASE t # s
      <4> DEFINE q == gamepak_memory_map[t].physical_index
      <4>1. gamepak_memory_map'[t].physical_index = q /\ q # 0 /\ q \in PageIds
        BY <1>1, <2>1, <3>2 DEF Inv, TypeOK
      <4>2. \A n \in Mirrors : memory_map_read[n][q] = t
        BY <1>2, <4>1, GamepakAssumption DEF Inv, SlotMapped
      <4>3. q # p0
        BY <1>2, <4>2, Constants
      <4>4. q # old
        BY <1>2, <3>2, <4>1, <4>2, GamepakAssumption DEF Inv, SlotMapped
      <4> QED BY <1>5, <4>1, <4>2, <4>3, <4>4
    <3> QED BY <3>1, <3>2
  <2> QED BY <2>1 DEF SlotMapped
<1> QED BY <1>6, <1>8, <1>9, <1>10 DEF Inv

(* After init_memory_gamepak the map shows a game that fits whole, and no  *)
(* page of one that does not.                                              *)
LEMMA InitMemoryStep ==
  ASSUME Inv, NEW g \in Games, InitMemoryGamepak(g), game' = g, page_time' = page_time,
         gamepak_rom' \in [SlotIds -> (Games \X PageIds) \cup {Null}],
         Fits(g) => \A s \in SlotIds : s < SizeOf[g] => gamepak_rom'[s] = <<g, s>>
  PROVE  Inv'
<1>1. CASE Fits(g)
  <2>1. /\ memory_map_read' = [m \in Mirrors |->
                                [p \in PageIds |-> IF p < SizeOf[g] THEN p ELSE Null]]
        /\ gamepak_memory_map' = gamepak_memory_map
    BY <1>1 DEF InitMemoryGamepak
  <2>2. \A p \in PageIds : p < SizeOf[g] => p \in SlotIds
    BY <1>1, Constants
  <2>3. TypeOK'
    BY <2>1, <2>2 DEF Inv, TypeOK
  <2>4. g # NoGame /\ Fits(game)'
    BY <1>1, GamepakAssumption DEF Fits
  <2>5. Whole' /\ SlotKnows' /\ SlotMapped'
    BY <1>1, <2>1, <2>4 DEF Whole, SlotKnows, SlotMapped
  <2>6. MapTrue'
    BY <1>1, <2>1, <2>2 DEF MapTrue
  <2> QED BY <2>3, <2>5, <2>6 DEF Inv
<1>2. CASE ~Fits(g)
  <2>1. /\ memory_map_read' = [m \in Mirrors |-> Cleared(m)]
        /\ gamepak_memory_map' =
             [s \in SlotIds |-> [page_timestamp |-> 0, physical_index |-> 0]]
    BY <1>2 DEF InitMemoryGamepak
  <2>2. ASSUME NEW m \in Mirrors, NEW p \in PageIds
        PROVE  /\ memory_map_read'[m][p] \in SlotIds \cup {Null}
               /\ Kept(m, p) => memory_map_read'[m][p] = Null
    <3>1. memory_map_read'[m][p] = IF m = "wait2" /\ p >= HalfRange
                                   THEN memory_map_read[m][p] ELSE Null
      BY <2>1 DEF Cleared
    <3>2. Kept(m, p) => ~(m = "wait2" /\ p >= HalfRange)
      BY GamepakAssumption DEF Kept, PageIds
    <3> QED BY <3>1, <3>2 DEF Inv, TypeOK
  <2>3. TypeOK'
    <3>1. memory_map_read' \in [Mirrors -> [PageIds -> SlotIds \cup {Null}]]
      BY <2>1, <2>2 DEF Cleared
    <3> QED BY <2>1, <3>1, Constants DEF Inv, TypeOK
  <2>4. MapTrue' /\ SlotKnows' /\ SlotMapped'
    BY <2>1, <2>2 DEF MapTrue, SlotKnows, SlotMapped, Kept
  <2>5. g # NoGame /\ ~Fits(game)'
    BY <1>2, GamepakAssumption DEF Fits
  <2>6. Whole'
    BY <1>2, <2>5 DEF Whole
  <2> QED BY <2>3, <2>4, <2>6 DEF Inv
<1> QED BY <1>1, <1>2

LEMMA LoadStep ==
  ASSUME Inv, NEW g \in Games, LoadGamepak(g)
  PROVE  Inv'
<1>1. gamepak_rom' \in [SlotIds -> (Games \X PageIds) \cup {Null}]
  <2>1. ASSUME NEW s \in SlotIds PROVE s < SizeOf[g] => s \in PageIds
    BY GamepakAssumption DEF SlotIds, PageIds
  <2> QED BY <2>1 DEF LoadGamepak, Inv, TypeOK
<1> QED BY <1>1, InitMemoryStep DEF LoadGamepak

LEMMA ResetStep ==
  ASSUME Inv, Reset
  PROVE  Inv'
<1>1. game \in Games /\ game' = game
  BY DEF Reset, Inv, TypeOK
<1>2. Fits(game) => \A s \in SlotIds : s < SizeOf[game] => gamepak_rom'[s] = <<game, s>>
  BY <1>1, GamepakAssumption DEF Reset, Inv, Whole
<1> QED BY <1>1, <1>2, InitMemoryStep DEF Reset, Inv, TypeOK

LEMMA NextStep == Inv /\ [Next]_vars => Inv'
<1> SUFFICES ASSUME Inv, [Next]_vars PROVE Inv'
  OBVIOUS
<1>1. CASE UNCHANGED vars
  BY <1>1 DEF vars, Inv, TypeOK, MapTrue, SlotKnows, SlotMapped, Whole, Kept, Fits
<1> QED BY <1>1, AccessStep, LoadStep, ResetStep DEF Next

-----------------------------------------------------------------------------
(* Whatever is loaded, evicted and reset, a mapped page of the cartridge   *)
(* is read as what it is (load_gamepak_page, evict_gamepak_page).          *)
THEOREM MapStaysTrue == Spec => [](TypeOK /\ MapTrue)
<1>1. Inv => TypeOK /\ MapTrue
  BY DEF Inv
<1> QED BY <1>1, Initially, NextStep, PTL DEF Spec

LEMMA StayStep ==
  ASSUME Inv, [Next]_vars, NEW m \in Mirrors, NEW p \in PageIds,
         p # 0, memory_map_read[m][p] # Null, page_time' # page_time,
         memory_map_read'[m][p] # memory_map_read[m][p]
  PROVE  gamepak_memory_map'[memory_map_read[m][p]].physical_index # p
<1>1. PICK m0 \in Mirrors, p0 \in PageIds : Access(m0, p0)
  BY DEF Next, LoadGamepak, Reset, vars
<1>2. game \in Games /\ ~Fits(game) /\ memory_map_read[m0][p0] = Null
  BY <1>1, AccessLoads
<1>3. PICK s \in SlotIds :
        /\ gamepak_memory_map' = [gamepak_memory_map EXCEPT ![s] =
                                    [page_timestamp |-> page_time, physical_index |-> p0]]
        /\ memory_map_read'[m][p] =
             IF p = p0 THEN s
             ELSE IF p = gamepak_memory_map[s].physical_index THEN Null
             ELSE memory_map_read[m][p]
  BY <1>1, AccessLoads
<1> DEFINE t == memory_map_read[m][p]
<1>4. t \in SlotIds /\ game # NoGame
  BY <1>2, GamepakAssumption DEF Inv, TypeOK
<1>5. CASE p = p0
  <2>1. t # s
    BY <1>3, <1>5
  <2>2. gamepak_memory_map[t].physical_index # p
    BY <1>2, <1>4, <1>5 DEF Inv, SlotMapped
  <2> QED BY <1>3, <1>4, <2>1, <2>2 DEF Inv, TypeOK
<1>6. CASE p # p0
  <2>1. p = gamepak_memory_map[s].physical_index
    BY <1>3, <1>6
  <2>2. t = s
    BY <1>2, <1>4, <2>1 DEF Inv, SlotMapped
  <2> QED BY <1>3, <1>4, <1>6, <2>2 DEF Inv, TypeOK
<1> QED BY <1>5, <1>6

(* No page but page 0 loses its place to the eviction of another           *)
(* (evict_gamepak_page).                                                   *)
THEOREM PagesKeepTheirPlace == Spec => PagesStay
<1>1. Inv /\ [Next]_vars =>
        [\A m \in Mirrors, p \in PageIds :
           LET s == memory_map_read[m][p] IN
           p # 0 /\ s # Null /\ page_time' # page_time /\ memory_map_read'[m][p] # s
             => gamepak_memory_map'[s].physical_index # p]_vars
  BY StayStep
<1> QED BY <1>1, Initially, NextStep, PTL DEF Spec, PagesStay

(* memory_map_read points into the buffer (load_gamepak_page,              *)
(* init_memory_gamepak).                                                   *)
THEOREM TypeCorrect == Spec => []TypeOK
<1>1. Inv => TypeOK
  BY DEF Inv
<1> QED BY <1>1, Initially, NextStep, PTL DEF Spec

-----------------------------------------------------------------------------

Low == SUBSET (0..6)
States == {"DISABLED", "IDLE", "COMMAND", "OUTPUT_DATA", "INPUT_DATA"}
Chips == [state : States, registers : [0..2 -> SUBSET Wires], command : SUBSET (0..7),
          data : [0..(DateBytes - 1) -> Low], status : Low, data_bytes : Nat, bit_count : Int]
Places == {"rest", "raise", "start", "output", "low", "high", "status low", "status high",
           "input", "clock low", "clock high", "hear", "end"}
Drivers == [at : Places, asked : Commands, sent : Byte, bit : Nat, heard : SUBSET Nat]

(* The types of chip, port and game; a game talks to its own cartridge. *)
Typing ==
  /\ rtc \in Chips /\ driver \in Drivers
  /\ port \in [SlotIds -> SUBSET Wires]
  /\ driver.at # "rest" => game # NoGame

-----------------------------------------------------------------------------
(* Where the chip is in each place of the game's driver. *)
Selected(direction) ==
  CS \in rtc.registers[0] /\ rtc.registers[1] = direction /\ rtc.registers[2] = {SCK}

Ready ==
  /\ driver.at \in {"rest", "raise"} =>
       rtc.state \in {"DISABLED", "IDLE"} /\ rtc.registers[0] \subseteq {SCK}
  /\ driver.at = "raise" => rtc.registers[2] = {SCK}
  /\ driver.at = "start" =>
       rtc.state = "IDLE" /\ rtc.registers[0] = {SCK} /\ rtc.registers[2] = {SCK}
  /\ driver.at = "end" =>
       /\ rtc.state = "IDLE"
       /\ rtc.registers = NoWires \/ (CS \in rtc.registers[0] /\ rtc.registers[2] = {SCK})

(* The bits of a command that have come before this one. *)
Before(asked, bit) == {b \in asked : b > bit}

Listening ==
  /\ driver.at = "output" =>
       /\ rtc.state = "COMMAND" /\ rtc.command = {} /\ rtc.bit_count = 7
       /\ CS \in rtc.registers[0] /\ rtc.registers[2] = {SCK}
  /\ driver.at \in {"low", "high"} =>
       /\ rtc.state = "COMMAND" /\ Selected(Wires)
       /\ driver.bit \in 0..7 /\ rtc.bit_count = driver.bit
       /\ rtc.command = Before(driver.asked, driver.bit)
  /\ driver.at \in {"status low", "status high"} =>
       /\ driver.asked = WRITE_STATUS
       /\ rtc.state = "INPUT_DATA" /\ Selected(Wires) /\ rtc.data_bytes = 1
       /\ driver.bit \in 0..7 /\ rtc.bit_count = driver.bit

Bits == 8 * ReplyBytes(driver.asked)
Replies == [0..(ReplyBytes(driver.asked) - 1) -> Low]

(* The clock gives the answer it has given, as far as it has got. *)
Answers ==
  /\ rtc.state = "OUTPUT_DATA" /\ rtc.data_bytes = ReplyBytes(driver.asked)
  /\ \A i \in 0..(ReplyBytes(driver.asked) - 1) : rtc.data[i] = reply[i]

Answered(b) == (b % 8) \in reply[b \div 8]
Wire(b) == IF Answered(b) THEN {SIO} ELSE {}

(* The bit on the wire is the one the game will hear, on the page if it is *)
(* there and in the register that a load puts onto the page if it is not.  *)
Answering ==
  /\ driver.at \in {"input", "clock low", "clock high", "hear"} =>
       driver.asked \in Questions /\ reply \in Replies
  /\ driver.at = "input" =>
       Answers /\ Selected(Wires) /\ driver.bit = 0 /\ rtc.bit_count = 0
  /\ driver.at = "clock low" =>
       Answers /\ Selected({SCK, CS}) /\ driver.bit < Bits /\ rtc.bit_count = driver.bit
  /\ driver.at = "clock high" =>
       /\ Answers /\ driver.bit < Bits /\ rtc.bit_count = driver.bit
       /\ rtc.registers[0] = {SCK} \cup Wire(driver.bit)
       /\ rtc.registers[1] = {SCK, CS} /\ rtc.registers[2] = {SCK}
  /\ driver.at = "hear" =>
       /\ driver.bit < Bits
       /\ SIO \in rtc.registers[0] <=> Answered(driver.bit)
       /\ PageZero # Null => (SIO \in port[PageZero] <=> Answered(driver.bit))
       /\ IF driver.bit + 1 = Bits THEN rtc.state = "IDLE" /\ rtc.registers = NoWires
          ELSE Answers /\ Selected({SCK, CS}) /\ rtc.bit_count = driver.bit + 1

Heard ==
  /\ driver.at \in Places \ {"clock low", "clock high", "hear", "end"} => driver.heard = {}
  /\ AnswerHeard

Follows == Ready /\ Listening /\ Answering /\ Heard

ClockInv == Inv /\ Typing /\ Follows

-----------------------------------------------------------------------------
LEMMA Pins ==
  /\ SCK # SIO /\ SIO # CS /\ SCK # CS
  /\ Wires = {SCK, SIO, CS}
BY DEF SCK, SIO, CS, Wires

LEMMA Kinds ==
  /\ RESET # WRITE_STATUS /\ RESET \notin Questions /\ WRITE_STATUS \notin Questions
  /\ Commands = {RESET, WRITE_STATUS} \cup Questions
  /\ \A c \in Commands : c \subseteq 0..7
<1>1. /\ 0 \notin RESET /\ 1 \notin RESET /\ 2 \notin RESET
      /\ 0 \notin WRITE_STATUS /\ 1 \in WRITE_STATUS
      /\ 0 \in READ_STATUS /\ 0 \in OUTPUT_TIME_FULL /\ 0 \in OUTPUT_TIME
  BY DEF RESET, WRITE_STATUS, READ_STATUS, OUTPUT_TIME_FULL, OUTPUT_TIME
<1>2. RESET # WRITE_STATUS /\ RESET \notin Questions /\ WRITE_STATUS \notin Questions
  BY <1>1 DEF Questions
<1>3. Commands = {RESET, WRITE_STATUS} \cup Questions
  BY DEF Commands, Questions
<1>4. /\ RESET \subseteq 0..7 /\ WRITE_STATUS \subseteq 0..7 /\ READ_STATUS \subseteq 0..7
      /\ OUTPUT_TIME_FULL \subseteq 0..7 /\ OUTPUT_TIME \subseteq 0..7
  BY DEF RESET, WRITE_STATUS, READ_STATUS, OUTPUT_TIME_FULL, OUTPUT_TIME
<1> QED BY <1>2, <1>3, <1>4 DEF Commands

LEMMA AnswerLength ==
  ASSUME NEW c \in Questions
  PROVE  ReplyBytes(c) \in 1..DateBytes
<1>1. 1 \in READ_STATUS /\ 2 \notin READ_STATUS
  BY DEF READ_STATUS
<1>2. 1 \notin OUTPUT_TIME_FULL /\ 2 \in OUTPUT_TIME_FULL
  BY DEF OUTPUT_TIME_FULL
<1>3. 1 \in OUTPUT_TIME /\ 2 \in OUTPUT_TIME
  BY DEF OUTPUT_TIME
<1> QED BY <1>1, <1>2, <1>3, ClockAssumption DEF ReplyBytes, Questions

(* No bit of an answer is the highest of its byte, the last one least.     *)
LEMMA AnswerBytes ==
  ASSUME NEW c \in Questions, NEW status \in Low, NEW date \in Dates
  PROVE  ReplyTo(c, status, date) \in [0..(ReplyBytes(c) - 1) -> Low]
<1>1. 1 \in READ_STATUS /\ 2 \notin READ_STATUS
  BY DEF READ_STATUS
<1>2. 1 \notin OUTPUT_TIME_FULL /\ 2 \in OUTPUT_TIME_FULL
  BY DEF OUTPUT_TIME_FULL
<1>3. 1 \in OUTPUT_TIME /\ 2 \in OUTPUT_TIME
  BY DEF OUTPUT_TIME
<1>4. date \in [0..(DateBytes - 1) -> Low] /\ TimeBytes \in Nat /\ DateBytes \in Nat
      /\ TimeBytes <= DateBytes
  BY ClockAssumption DEF Low
<1>5. CASE c = READ_STATUS
  BY <1>1, <1>2, <1>3, <1>5 DEF ReplyTo
<1>6. CASE c = OUTPUT_TIME_FULL
  BY <1>1, <1>2, <1>4, <1>6 DEF ReplyTo, ReplyBytes
<1>7. CASE c = OUTPUT_TIME
  BY <1>1, <1>2, <1>3, <1>4, <1>7 DEF ReplyTo, ReplyBytes
<1> QED BY <1>5, <1>6, <1>7 DEF Questions

-----------------------------------------------------------------------------
(* The page under the port. *)

(* To load page 0 is an access of the game to it. *)
LEMMA PageZeroLoads ==
  ASSUME Inv, Typing, game # NoGame, PageZero = Null, NEW byte \in SUBSET Wires,
         LoadPageZero(byte)
  PROVE  /\ Access("wait0", 0)
         /\ game' = game /\ port' \in [SlotIds -> SUBSET Wires]
         /\ PageZero' \in SlotIds /\ port'[PageZero'] = byte
<1>1. Access("wait0", 0) /\ "wait0" \in Mirrors /\ 0 \in PageIds
  BY Constants, GamepakAssumption DEF LoadPageZero, PageZero, Access, Inv, TypeOK, Mirrors
<1>2. PageZero' \in SlotIds
  BY <1>1, AccessLoads DEF PageZero
<1> QED BY <1>1, <1>2 DEF LoadPageZero, Typing

LEMMA PortWritten ==
  ASSUME Inv, Typing, game # NoGame, NEW byte \in SUBSET Wires, OnPage(byte)
  PROVE  /\ [Next]_vars
         /\ game' = game /\ port' \in [SlotIds -> SUBSET Wires]
         /\ PageZero' # Null /\ port'[PageZero'] = byte
<1>1. CASE PageZero # Null /\ UNCHANGED vars
  <2>1. PageZero \in SlotIds
    BY <1>1, Constants DEF Inv, TypeOK, PageZero, Mirrors
  <2>2. port' = [port EXCEPT ![PageZero] = byte]
    BY <1>1 DEF OnPage
  <2>3. PageZero' = PageZero /\ game' = game
    BY <1>1 DEF vars, PageZero
  <2> QED BY <1>1, <2>1, <2>2, <2>3 DEF Typing
<1>2. CASE PageZero = Null /\ LoadPageZero(byte)
  BY <1>2, PageZeroLoads, Constants DEF Next, Mirrors
<1> QED BY <1>1, <1>2 DEF OnPage

LEMMA PortUntouched ==
  ASSUME Inv, Typing, game # NoGame, rtc' \in Chips, BesideOnPage
  PROVE  /\ [Next]_vars
         /\ game' = game /\ port' \in [SlotIds -> SUBSET Wires]
<1>1. CASE PageZero # Null /\ UNCHANGED <<port, vars>>
  BY <1>1 DEF vars, Typing
<1>2. CASE PageZero = Null /\ LoadPageZero(Loaded(rtc'))
  <2>1. Loaded(rtc') \in SUBSET Wires
    BY ClockAssumption DEF Loaded, Chips
  <2> QED BY <1>2, <2>1, PageZeroLoads, Constants DEF Next, Mirrors
<1> QED BY <1>1, <1>2 DEF BesideOnPage

-----------------------------------------------------------------------------
(* What a write to C4 does to the chip. *)
With(r, i, value) == [r EXCEPT !.registers[i] = value]
BitIn(r, command, count) == [r EXCEPT !.command = command, !.bit_count = count]
Begun(r) == [r EXCEPT !.state = "COMMAND", !.command = {}, !.bit_count = 7]
StoredC4(value) == With(Awake(rtc), 0, value)

LEMMA WriteCases ==
  ASSUME NEW wires, NEW date, NEW value, value = Effective(rtc, wires)
  PROVE  /\ ~Readable(rtc) =>
              WrittenC4(rtc, wires, date) = With(Awake(rtc), 2, value)
         /\ Readable(rtc) /\ Awake(rtc).state = "COMMAND" =>
              WrittenC4(rtc, wires, date) = TakeCommand(StoredC4(value), value, date)
         /\ Readable(rtc) /\ Awake(rtc).state = "INPUT_DATA" =>
              WrittenC4(rtc, wires, date) = TakeData(StoredC4(value), value)
         /\ Readable(rtc) /\ Awake(rtc).state = "OUTPUT_DATA" =>
              WrittenC4(rtc, wires, date) = GiveData(StoredC4(value), value)
         /\ Readable(rtc) /\ Awake(rtc).state = "IDLE" =>
              /\ rtc.registers[0] = {SCK} /\ value = {SCK, CS} =>
                   WrittenC4(rtc, wires, date) = Begun(StoredC4(value))
              /\ ~(rtc.registers[0] = {SCK} /\ value = {SCK, CS}) =>
                   WrittenC4(rtc, wires, date) = StoredC4(value)
BY DEF WrittenC4, StoredC4, With, Begun

LEMMA EffectiveWires ==
  ASSUME rtc \in Chips, NEW wires \in SUBSET Wires
  PROVE  /\ Effective(rtc, wires) \in SUBSET Wires
         /\ CS \in rtc.registers[0] => Effective(rtc, wires) = wires
         /\ CS \notin rtc.registers[0] /\ SIO \notin rtc.registers[0] /\ SIO \notin wires =>
              Effective(rtc, wires) = wires
         /\ CS \notin rtc.registers[0] /\ SIO \in rtc.registers[0] =>
              Effective(rtc, wires) = {SIO} \cup wires
BY Pins DEF Effective, Chips

LEMMA RegisterStored ==
  ASSUME NEW r \in Chips, NEW i \in 0..2, NEW value \in SUBSET Wires
  PROVE  LET e == With(r, i, value) IN
         /\ e \in Chips /\ e.registers[i] = value
         /\ \A j \in 0..2 : j # i => e.registers[j] = r.registers[j]
         /\ e.state = r.state /\ e.command = r.command /\ e.data = r.data
         /\ e.status = r.status /\ e.data_bytes = r.data_bytes /\ e.bit_count = r.bit_count
BY DEF Chips, With

LEMMA CommandBegins ==
  ASSUME NEW r \in Chips
  PROVE  LET e == Begun(r) IN
         /\ e \in Chips /\ e.registers = r.registers
         /\ e.state = "COMMAND" /\ e.command = {} /\ e.bit_count = 7
<1>1. Begun(r) \in Chips
  <2>1. {} \in SUBSET (0..7) /\ 7 \in Int /\ "COMMAND" \in States
    BY DEF States
  <2> QED BY <2>1 DEF Begun, Chips
<1>2. /\ Begun(r).registers = r.registers
      /\ Begun(r).state = "COMMAND" /\ Begun(r).command = {} /\ Begun(r).bit_count = 7
  BY DEF Begun, Chips
<1> QED BY <1>1, <1>2

LEMMA BitStored ==
  ASSUME NEW r \in Chips, NEW command \in SUBSET (0..7), NEW count \in Int
  PROVE  LET e == BitIn(r, command, count) IN
         /\ e \in Chips /\ e.registers = r.registers /\ e.state = r.state
         /\ e.status = r.status /\ e.command = command /\ e.bit_count = count
BY DEF BitIn, Chips

LEMMA StoredTyped ==
  ASSUME rtc \in Chips, rtc.state # "DISABLED", NEW value \in SUBSET Wires
  PROVE  LET e == StoredC4(value) IN
         /\ e \in Chips /\ Awake(rtc) = rtc /\ e.registers[0] = value
         /\ e.registers[1] = rtc.registers[1] /\ e.registers[2] = rtc.registers[2]
         /\ e.state = rtc.state /\ e.command = rtc.command /\ e.data = rtc.data
         /\ e.status = rtc.status /\ e.data_bytes = rtc.data_bytes
         /\ e.bit_count = rtc.bit_count
<1>1. Awake(rtc) = rtc
  BY DEF Awake, Chips
<1>2. StoredC4(value) = With(rtc, 0, value)
  BY <1>1 DEF StoredC4
<1>3. 0 \in 0..2 /\ 1 \in 0..2 /\ 2 \in 0..2 /\ 1 # 0 /\ 2 # 0
  OBVIOUS
<1> QED BY <1>1, <1>2, <1>3, RegisterStored

(* A bit of a command. *)
LEMMA CommandBit ==
  ASSUME NEW r \in Chips, NEW value \in SUBSET Wires, NEW date, NEW asked \in Commands,
         NEW bit \in 0..7, r.bit_count = bit, r.command = Before(asked, bit)
  PROVE  /\ SCK \notin value => TakeCommand(r, value, date) = r
         /\ SCK \in value /\ (SIO \in value <=> bit \in asked) /\ bit > 0 =>
              TakeCommand(r, value, date) = BitIn(r, Before(asked, bit - 1), bit - 1)
         /\ SCK \in value /\ (SIO \in value <=> bit \in asked) /\ bit = 0 =>
              TakeCommand(r, value, date) = Executed(BitIn(r, asked, -1), date)
<1> DEFINE read == IF SIO \in value THEN {r.bit_count} ELSE {}
           taken == IF SCK \in value
                    THEN [r EXCEPT !.command = @ \cup read, !.bit_count = @ - 1]
                    ELSE r
<1>1. TakeCommand(r, value, date) =
        IF taken.bit_count < 0 THEN Executed(taken, date) ELSE taken
  BY DEF TakeCommand
<1>2. CASE SCK \notin value
  BY <1>1, <1>2
<1>3. CASE SCK \in value /\ (SIO \in value <=> bit \in asked)
  <2>1. asked \subseteq 0..7
    BY Kinds
  <2>2. r.command \cup read = {b \in asked : b > bit - 1}
    <3>1. \A b \in asked : b > bit - 1 <=> (b > bit \/ b = bit)
      BY <2>1
    <3>2. \A b : b \in read <=> (b = bit /\ bit \in asked)
      BY <1>3
    <3> HIDE DEF read
    <3> QED BY <3>1, <3>2 DEF Before
  <2>3. taken = [r EXCEPT !.command = {b \in asked : b > bit - 1}, !.bit_count = bit - 1]
    BY <1>3, <2>2
  <2>4. taken.bit_count = bit - 1
    BY <2>3 DEF Chips
  <2>5. bit = 0 => {b \in asked : b > bit - 1} = asked
    <3>1. bit = 0 => \A b \in asked : b > bit - 1
      BY <2>1
    <3> QED BY <3>1
  <2> HIDE DEF taken
  <2>6. bit > 0 => ~(taken.bit_count < 0)
    BY <2>4
  <2>7. bit = 0 => taken.bit_count < 0 /\ bit - 1 = -1
    BY <2>4
  <2> QED BY <1>1, <1>3, <2>3, <2>5, <2>6, <2>7 DEF BitIn, Before
<1> QED BY <1>2, <1>3

(* The command has come in. *)
LEMMA Execution ==
  ASSUME NEW r \in Chips, NEW date \in Dates
  PROVE  LET e == Executed(r, date) IN
         /\ r.command = RESET =>
              e \in Chips /\ e.state = "IDLE" /\ e.registers = NoWires
         /\ r.command = WRITE_STATUS =>
              /\ e \in Chips /\ e.state = "INPUT_DATA" /\ e.registers = r.registers
              /\ e.data_bytes = 1 /\ e.bit_count = 0
         /\ r.command \in Questions =>
              /\ e \in Chips /\ e.state = "OUTPUT_DATA" /\ e.registers = r.registers
              /\ e.data_bytes = ReplyBytes(r.command) /\ e.bit_count = 0
              /\ \A i \in 0..(ReplyBytes(r.command) - 1) :
                   e.data[i] = ReplyTo(r.command, r.status, date)[i]
<1> DEFINE e == Executed(r, date)
           counted == [r EXCEPT !.bit_count = 0]
           answer == ReplyTo(r.command, r.status, date)
<1>1. counted \in Chips /\ counted.registers = r.registers /\ counted.bit_count = 0
      /\ counted.data = r.data
  BY DEF Chips
<1>2. CASE r.command = RESET
  <2>1. e = [counted EXCEPT !.state = "IDLE", !.registers = NoWires]
    BY <1>2, Kinds DEF Executed
  <2>2. NoWires \in [0..2 -> SUBSET Wires]
    BY DEF NoWires
  <2> HIDE DEF counted
  <2> QED BY <1>1, <1>2, <2>1, <2>2, Kinds DEF Chips, States
<1>3. CASE r.command = WRITE_STATUS
  <2>1. e = [counted EXCEPT !.state = "INPUT_DATA", !.data_bytes = 1]
    BY <1>3, Kinds DEF Executed
  <2> HIDE DEF counted
  <2>2. /\ e \in Chips /\ e.state = "INPUT_DATA" /\ e.registers = r.registers
        /\ e.data_bytes = 1 /\ e.bit_count = 0
    <3> HIDE DEF e
    <3> QED BY <1>1, <2>1 DEF Chips, States
  <2> QED BY <1>3, <2>2, Kinds
<1>4. CASE r.command \in Questions
  <2> DEFINE data == [i \in DOMAIN counted.data |->
                        IF i \in DOMAIN answer THEN answer[i] ELSE counted.data[i]]
  <2>1. e = [counted EXCEPT !.state = "OUTPUT_DATA",
                            !.data_bytes = ReplyBytes(r.command), !.data = data]
    BY <1>4, Kinds DEF Executed
  <2>2. ReplyBytes(r.command) \in 1..DateBytes /\ DateBytes \in Nat
    BY <1>4, AnswerLength, ClockAssumption
  <2>3. r.status \in Low
    BY DEF Chips
  <2>4. answer \in [0..(ReplyBytes(r.command) - 1) -> Low]
    BY <1>4, <2>3, AnswerBytes
  <2> HIDE DEF counted, answer
  <2>5. counted.data \in [0..(DateBytes - 1) -> Low]
    BY <1>1 DEF Chips
  <2>6. data \in [0..(DateBytes - 1) -> Low]
    BY <2>4, <2>5
  <2>7. \A i \in 0..(ReplyBytes(r.command) - 1) : data[i] = answer[i]
    BY <2>2, <2>4, <2>5
  <2> HIDE DEF data
  <2>8. /\ e \in Chips /\ e.state = "OUTPUT_DATA" /\ e.registers = r.registers
        /\ e.data_bytes = ReplyBytes(r.command) /\ e.bit_count = 0 /\ e.data = data
    <3> HIDE DEF e
    <3> DEFINE n == ReplyBytes(r.command)
    <3>1. n \in Nat
      BY <2>2
    <3> HIDE DEF n
    <3>2. e = [counted EXCEPT !.state = "OUTPUT_DATA", !.data_bytes = n, !.data = data]
      BY <2>1 DEF n
    <3>3. e \in Chips
      BY <1>1, <2>6, <3>1, <3>2 DEF Chips, States
    <3>4. /\ e.state = "OUTPUT_DATA" /\ e.registers = r.registers
          /\ e.data_bytes = n /\ e.bit_count = 0 /\ e.data = data
      BY <1>1, <3>2 DEF Chips
    <3> QED BY <3>3, <3>4 DEF n
  <2> QED BY <1>4, <2>7, <2>8, Kinds DEF answer
<1> QED BY <1>2, <1>3, <1>4, Kinds

-----------------------------------------------------------------------------
(* One step of the game's driver. *)

LEMMA PageStep ==
  ASSUME Inv, Typing, driver.at # "rest", rtc' \in Chips,
         NEW wires \in SUBSET Wires, WriteC4(wires)
  PROVE  /\ [Next]_vars /\ game' = game /\ port' \in [SlotIds -> SUBSET Wires]
         /\ Readable(rtc) /\ SCK \in Effective(rtc, wires) =>
              PageZero' # Null /\ port'[PageZero'] = Effective(rtc, wires)
<1> DEFINE value == Effective(rtc, wires)
           out == rtc.state = "OUTPUT_DATA" /\ SIO \notin rtc.registers[1] /\ SCK \notin value
           byte == IF out THEN rtc'.registers[0] ELSE value
<1>1. game # NoGame /\ value \in SUBSET Wires
  BY EffectiveWires DEF Typing
<1>2. byte \in SUBSET Wires
  BY <1>1 DEF Chips
<1>3. IF ~Readable(rtc) THEN BesideOnPage ELSE OnPage(byte)
  BY DEF WriteC4
<1>4. SCK \in value => byte = value
  OBVIOUS
<1> HIDE DEF byte, value
<1>5. CASE ~Readable(rtc)
  BY <1>1, <1>3, <1>5, PortUntouched
<1>6. CASE Readable(rtc)
  BY <1>1, <1>2, <1>3, <1>4, <1>6, PortWritten DEF value
<1> QED BY <1>5, <1>6

LEMMA Goes ==
  ASSUME driver \in Drivers, NEW at \in Places, Goto(at)
  PROVE  /\ driver' \in Drivers /\ driver'.at = at /\ driver'.asked = driver.asked
         /\ driver'.bit = driver.bit /\ driver'.heard = driver.heard
BY DEF Goto, Drivers

LEMMA AskStep ==
  ASSUME Inv, Typing, Follows, Ask
  PROVE  [Next]_vars /\ Typing' /\ Follows'
<1>1. rtc' = [rtc EXCEPT !.registers[2] = {SCK}] /\ reply' = reply /\ BesideOnPage
  BY DEF Ask, WriteRegister
<1>2. /\ rtc' \in Chips /\ rtc'.state = rtc.state
      /\ rtc'.registers[0] = rtc.registers[0] /\ rtc'.registers[2] = {SCK}
  BY <1>1, Pins DEF Typing, Chips
<1>3. /\ driver' \in Drivers /\ driver'.at = "raise" /\ driver'.heard = {}
  <2>1. PICK command \in Commands, status \in Statuses :
          driver' = [driver EXCEPT !.at = "raise", !.asked = command,
                                   !.sent = IF command = WRITE_STATUS THEN status ELSE {}]
    BY DEF Ask
  <2>2. status \in Byte /\ {} \in Byte
    BY ClockAssumption DEF Byte
  <2>3. driver.at = "rest" /\ driver.heard = {}
    BY DEF Ask, Follows, Heard, Places
  <2> QED BY <2>1, <2>2, <2>3 DEF Typing, Drivers, Places
<1>4. [Next]_vars /\ game' = game /\ game # NoGame /\ port' \in [SlotIds -> SUBSET Wires]
  BY <1>1, <1>2, PortUntouched DEF Ask
<1>5. Typing'
  BY <1>2, <1>3, <1>4 DEF Typing
<1>6. Ready'
  BY <1>2, <1>3 DEF Ask, Follows, Ready
<1>7. Follows'
  BY <1>3, <1>6 DEF Follows, Listening, Answering, Heard, AnswerHeard, Hears
<1> QED BY <1>4, <1>5, <1>7

LEMMA RaiseStep ==
  ASSUME Inv, Typing, Follows, Raise
  PROVE  [Next]_vars /\ Typing' /\ Follows'
<1>1. /\ driver.at = "raise" /\ rtc.state \in {"DISABLED", "IDLE"}
      /\ rtc.registers[0] \subseteq {SCK} /\ rtc.registers[2] = {SCK} /\ driver.heard = {}
  BY DEF Raise, Follows, Ready, Heard, Places
<1>2. PICK date \in Dates : rtc' = WrittenC4(rtc, {SCK}, date)
  BY DEF Raise, WriteC4
<1>3. Effective(rtc, {SCK}) = {SCK} /\ Readable(rtc) /\ {SCK} \in SUBSET Wires
  BY <1>1, EffectiveWires, Pins DEF Typing, Readable
<1>4. Awake(rtc) = [rtc EXCEPT !.state = "IDLE"] /\ Awake(rtc).state = "IDLE"
  BY <1>1 DEF Awake, Typing, Chips
<1>5. rtc' = StoredC4({SCK})
  BY <1>2, <1>3, <1>4, WriteCases, Pins
<1>6. /\ rtc' \in Chips /\ rtc'.state = "IDLE"
      /\ rtc'.registers[0] = {SCK} /\ rtc'.registers[2] = {SCK}
  <2>1. Awake(rtc) \in Chips /\ Awake(rtc).registers = rtc.registers
    BY <1>4 DEF Typing, Chips, States
  <2>2. rtc' = With(Awake(rtc), 0, {SCK})
    BY <1>5 DEF StoredC4
  <2>3. 0 \in 0..2 /\ 2 \in 0..2 /\ 2 # 0
    OBVIOUS
  <2>4. /\ rtc' \in Chips /\ rtc'.state = Awake(rtc).state
        /\ rtc'.registers[0] = {SCK} /\ rtc'.registers[2] = Awake(rtc).registers[2]
    BY <1>3, <2>1, <2>2, <2>3, RegisterStored
  <2> QED BY <1>1, <1>4, <2>1, <2>4
<1>7. driver' \in Drivers /\ driver'.at = "start" /\ driver'.heard = {}
  BY <1>1, Goes DEF Raise, Typing, Places
<1>8. [Next]_vars /\ game' = game /\ port' \in [SlotIds -> SUBSET Wires]
  BY <1>1, <1>3, <1>6, PageStep DEF Raise
<1>9. Typing'
  BY <1>1, <1>6, <1>7, <1>8 DEF Typing
<1>10. Follows'
  BY <1>6, <1>7 DEF Follows, Ready, Listening, Answering, Heard, AnswerHeard, Hears
<1> QED BY <1>8, <1>9, <1>10

LEMMA StartStep ==
  ASSUME Inv, Typing, Follows, Start
  PROVE  [Next]_vars /\ Typing' /\ Follows'
<1>1. /\ driver.at = "start" /\ rtc.state = "IDLE"
      /\ rtc.registers[0] = {SCK} /\ rtc.registers[2] = {SCK} /\ driver.heard = {}
  BY DEF Start, Follows, Ready, Heard, Places
<1>2. PICK date \in Dates : rtc' = WrittenC4(rtc, {SCK, CS}, date)
  BY DEF Start, WriteC4
<1>3. Effective(rtc, {SCK, CS}) = {SCK, CS} /\ Readable(rtc) /\ {SCK, CS} \in SUBSET Wires
  BY <1>1, EffectiveWires, Pins DEF Typing, Readable
<1> DEFINE stored == StoredC4({SCK, CS})
<1>4. /\ stored \in Chips /\ Awake(rtc) = rtc
      /\ stored.registers[0] = {SCK, CS} /\ stored.registers[2] = {SCK}
  BY <1>1, <1>3, StoredTyped DEF Typing
<1>5. rtc' = Begun(stored)
  <2>1. Awake(rtc).state = "IDLE" /\ {SCK, CS} = Effective(rtc, {SCK, CS})
    BY <1>1, <1>3, <1>4
  <2> QED BY <1>1, <1>2, <1>3, <2>1, WriteCases
<1>6. /\ rtc' \in Chips /\ rtc'.state = "COMMAND" /\ rtc'.command = {} /\ rtc'.bit_count = 7
      /\ rtc'.registers[0] = {SCK, CS} /\ rtc'.registers[2] = {SCK}
  <2> HIDE DEF stored
  <2> QED BY <1>4, <1>5, CommandBegins
<1>7. driver' \in Drivers /\ driver'.at = "output" /\ driver'.heard = {}
  BY <1>1, Goes DEF Start, Typing, Places
<1>8. [Next]_vars /\ game' = game /\ port' \in [SlotIds -> SUBSET Wires]
  BY <1>1, <1>3, <1>6, PageStep DEF Start
<1>9. Typing'
  BY <1>1, <1>6, <1>7, <1>8 DEF Typing
<1>10. Follows'
  BY <1>6, <1>7 DEF Follows, Ready, Listening, Answering, Heard, AnswerHeard, Hears
<1> QED BY <1>8, <1>9, <1>10

LEMMA OutputStep ==
  ASSUME Inv, Typing, Follows, Output
  PROVE  [Next]_vars /\ Typing' /\ Follows'
<1>1. /\ driver.at = "output" /\ rtc.state = "COMMAND" /\ rtc.command = {}
      /\ rtc.bit_count = 7 /\ CS \in rtc.registers[0] /\ rtc.registers[2] = {SCK}
      /\ driver.heard = {}
  BY DEF Output, Follows, Listening, Heard, Places
<1>2. rtc' = [rtc EXCEPT !.registers[1] = Wires] /\ BesideOnPage
  BY DEF Output, WriteRegister
<1>3. /\ rtc' \in Chips /\ rtc'.state = "COMMAND" /\ rtc'.command = {} /\ rtc'.bit_count = 7
      /\ rtc'.registers[0] = rtc.registers[0] /\ rtc'.registers[1] = Wires
      /\ rtc'.registers[2] = {SCK}
  BY <1>1, <1>2 DEF Typing, Chips
<1>4. /\ driver' \in Drivers /\ driver'.at = "low" /\ driver'.bit = 7
      /\ driver'.heard = {} /\ driver'.asked \in Commands
  BY <1>1 DEF Output, Typing, Drivers, Places
<1>5. [Next]_vars /\ game' = game /\ port' \in [SlotIds -> SUBSET Wires]
  BY <1>1, <1>2, <1>3, PortUntouched DEF Typing
<1>6. Typing'
  BY <1>1, <1>3, <1>4, <1>5 DEF Typing
<1>7. Before(driver'.asked, 7) = {}
  BY <1>4, Kinds DEF Before
<1>8. Listening'
  BY <1>1, <1>3, <1>4, <1>7 DEF Listening, Selected
<1>9. Follows'
  BY <1>4, <1>8 DEF Follows, Ready, Answering, Heard, AnswerHeard, Hears
<1> QED BY <1>5, <1>6, <1>9

LEMMA CommandLowStep ==
  ASSUME Inv, Typing, Follows, CommandLow
  PROVE  [Next]_vars /\ Typing' /\ Follows'
<1> DEFINE value == {CS} \cup Data(driver.asked)
<1>1. /\ driver.at = "low" /\ rtc.state = "COMMAND" /\ Selected(Wires)
      /\ driver.bit \in 0..7 /\ rtc.bit_count = driver.bit
      /\ rtc.command = Before(driver.asked, driver.bit)
      /\ driver.heard = {} /\ driver.asked \in Commands /\ rtc \in Chips
  BY DEF CommandLow, Follows, Listening, Heard, Places, Typing, Drivers
<1>2. PICK date \in Dates : rtc' = WrittenC4(rtc, value, date)
  BY DEF CommandLow, WriteC4
<1>3. value \in SUBSET Wires /\ SCK \notin value
  BY Pins DEF Data
<1> HIDE DEF value
<1>4. value = Effective(rtc, value) /\ Readable(rtc)
  BY <1>1, <1>3, EffectiveWires DEF Selected, Readable
<1> DEFINE stored == StoredC4(value)
<1>5. /\ stored \in Chips /\ Awake(rtc) = rtc /\ stored.registers[0] = value
      /\ stored.registers[1] = rtc.registers[1] /\ stored.registers[2] = rtc.registers[2]
      /\ stored.state = "COMMAND" /\ stored.command = rtc.command
      /\ stored.bit_count = rtc.bit_count
  BY <1>1, <1>3, StoredTyped
<1>6. rtc' = TakeCommand(stored, value, date)
  BY <1>1, <1>2, <1>4, <1>5, WriteCases
<1> HIDE DEF stored
<1>7. rtc' = stored
  BY <1>1, <1>3, <1>5, <1>6, CommandBit
<1>8. /\ driver' \in Drivers /\ driver'.at = "high" /\ driver'.asked = driver.asked
      /\ driver'.bit = driver.bit /\ driver'.heard = {}
  BY <1>1, Goes DEF CommandLow, Typing, Places
<1>9. [Next]_vars /\ game' = game /\ port' \in [SlotIds -> SUBSET Wires]
  BY <1>1, <1>3, <1>5, <1>7, PageStep DEF CommandLow, value
<1>10. Typing'
  BY <1>1, <1>5, <1>7, <1>8, <1>9 DEF Typing
<1>11. CS \in value
  BY DEF value
<1>12. Listening'
  BY <1>1, <1>5, <1>7, <1>8, <1>11 DEF Listening, Selected
<1>13. Follows'
  BY <1>8, <1>12 DEF Follows, Ready, Answering, Heard, AnswerHeard, Hears
<1> QED BY <1>9, <1>10, <1>13

(* The bits of a command up to the last. *)
LEMMA CommandHighStep ==
  ASSUME Inv, Typing, Follows, CommandHigh
  PROVE  [Next]_vars /\ Typing' /\ Follows'
<1> DEFINE value == {SCK, CS} \cup Data(driver.asked)
<1>1. /\ driver.at = "high" /\ rtc.state = "COMMAND" /\ Selected(Wires)
      /\ driver.bit \in 0..7 /\ rtc.bit_count = driver.bit
      /\ rtc.command = Before(driver.asked, driver.bit)
      /\ driver.heard = {} /\ driver.asked \in Commands /\ rtc \in Chips
  BY DEF CommandHigh, Follows, Listening, Heard, Places, Typing, Drivers
<1>2. PICK date \in Dates :
        /\ rtc' = WrittenC4(rtc, value, date)
        /\ driver.bit = 0 /\ driver.asked \in Questions =>
             reply' = ReplyTo(driver.asked, rtc.status, date)
  BY <1>1 DEF CommandHigh, WriteC4
<1>3. /\ value \in SUBSET Wires /\ SCK \in value /\ CS \in value
      /\ SIO \in value <=> driver.bit \in driver.asked
  BY Pins DEF Data
<1> HIDE DEF value
<1>4. value = Effective(rtc, value) /\ Readable(rtc)
  BY <1>1, <1>3, EffectiveWires DEF Selected, Readable
<1> DEFINE stored == StoredC4(value)
<1>5. /\ stored \in Chips /\ Awake(rtc) = rtc /\ stored.registers[0] = value
      /\ stored.registers[1] = Wires /\ stored.registers[2] = {SCK}
      /\ stored.state = "COMMAND" /\ stored.command = rtc.command
      /\ stored.bit_count = rtc.bit_count /\ stored.status = rtc.status
  BY <1>1, <1>3, StoredTyped DEF Selected
<1>6. rtc' = TakeCommand(stored, value, date)
  BY <1>1, <1>2, <1>4, <1>5, WriteCases
<1> HIDE DEF stored
<1>7. driver' \in Drivers /\ driver'.asked = driver.asked /\ driver'.heard = {}
  <2> DEFINE at == IF driver.bit > 0 THEN "low"
                   ELSE IF driver.asked = RESET THEN "end"
                   ELSE IF driver.asked = WRITE_STATUS THEN "status low" ELSE "input"
             bit == IF driver.bit > 0 THEN driver.bit - 1 ELSE 0
  <2>1. driver' = [driver EXCEPT !.at = at, !.bit = bit] /\ driver \in Drivers
    BY DEF CommandHigh, Typing, Drivers
  <2>2. at \in Places /\ bit \in Nat
    BY <1>1 DEF Places
  <2> HIDE DEF at, bit
  <2> QED BY <1>1, <2>1, <2>2 DEF Drivers
<1>8. rtc' \in Chips =>
        /\ [Next]_vars /\ game' = game /\ port' \in [SlotIds -> SUBSET Wires]
        /\ Typing'
  <2>1. WriteC4(value) /\ driver.at # "rest"
    BY <1>1 DEF CommandHigh, value
  <2> QED BY <1>1, <1>3, <1>7, <2>1, PageStep DEF Typing
<1>9. CASE driver.bit > 0
  <2> DEFINE command == Before(driver.asked, driver.bit - 1)
  <2>1. rtc' = BitIn(stored, command, driver.bit - 1)
    BY <1>1, <1>3, <1>5, <1>6, <1>9, CommandBit
  <2>2. command \in SUBSET (0..7) /\ driver.bit - 1 \in Int
    BY <1>1, Kinds DEF Before
  <2> HIDE DEF command
  <2>3. /\ rtc' \in Chips /\ rtc'.registers = stored.registers /\ rtc'.state = "COMMAND"
        /\ rtc'.command = command /\ rtc'.bit_count = driver.bit - 1
    BY <1>5, <2>1, <2>2, BitStored
  <2>4. driver'.at = "low" /\ driver'.bit = driver.bit - 1 /\ driver'.bit \in 0..7
    BY <1>1, <1>9 DEF CommandHigh, Typing, Drivers
  <2>5. rtc'.command = Before(driver'.asked, driver'.bit)
    BY <1>7, <2>3, <2>4 DEF command
  <2>6. Listening'
    BY <1>3, <1>5, <2>3, <2>4, <2>5 DEF Listening, Selected
  <2>7. Follows'
    BY <1>7, <2>4, <2>6 DEF Follows, Ready, Answering, Heard, AnswerHeard, Hears
  <2> QED BY <1>8, <2>3, <2>7
<1>10. CASE driver.bit = 0
  <2> DEFINE in == BitIn(stored, driver.asked, -1)
  <2>1. rtc' = Executed(in, date)
    BY <1>1, <1>3, <1>5, <1>6, <1>10, CommandBit
  <2>2. /\ in \in Chips /\ in.command = driver.asked
        /\ in.registers = stored.registers /\ in.status = rtc.status
    BY <1>1, <1>5, BitStored, Kinds
  <2>3. driver'.bit = 0
    BY <1>1, <1>10 DEF CommandHigh, Typing, Drivers
  <2> HIDE DEF in
  <2>4. CASE driver.asked = RESET
    <3>1. rtc' \in Chips /\ rtc'.state = "IDLE" /\ rtc'.registers = NoWires
      BY <2>1, <2>2, <2>4, Execution
    <3>2. driver'.at = "end"
      BY <1>1, <1>10, <2>4 DEF CommandHigh, Typing, Drivers
    <3>3. ~Hears'
      BY <1>7, <2>4, Kinds DEF Hears
    <3>4. Ready'
      BY <3>1, <3>2 DEF Ready
    <3>5. Follows'
      BY <3>2, <3>3, <3>4 DEF Follows, Listening, Answering, Heard, AnswerHeard
    <3> QED BY <1>8, <3>1, <3>5
  <2>5. CASE driver.asked = WRITE_STATUS
    <3>1. /\ rtc' \in Chips /\ rtc'.state = "INPUT_DATA" /\ rtc'.registers = stored.registers
          /\ rtc'.data_bytes = 1 /\ rtc'.bit_count = 0
      BY <2>1, <2>2, <2>5, Execution
    <3>2. driver'.at = "status low" /\ driver'.asked = WRITE_STATUS
      BY <1>1, <1>7, <1>10, <2>5, Kinds DEF CommandHigh, Typing, Drivers
    <3>3. Selected(Wires)'
      BY <1>3, <1>5, <3>1 DEF Selected
    <3>4. driver'.bit \in 0..7 /\ rtc'.bit_count = driver'.bit
      BY <2>3, <3>1
    <3>5. Listening'
      BY <3>1, <3>2, <3>3, <3>4, Zenon DEF Listening
    <3>6. Follows'
      BY <1>7, <3>2, <3>5 DEF Follows, Ready, Answering, Heard, AnswerHeard, Hears
    <3> QED BY <1>8, <3>1, <3>6
  <2>6. CASE driver.asked \in Questions
    <3>1. /\ rtc' \in Chips /\ rtc'.state = "OUTPUT_DATA" /\ rtc'.registers = stored.registers
          /\ rtc'.data_bytes = ReplyBytes(driver.asked) /\ rtc'.bit_count = 0
          /\ \A i \in 0..(ReplyBytes(driver.asked) - 1) :
               rtc'.data[i] = ReplyTo(driver.asked, rtc.status, date)[i]
      BY <2>1, <2>2, <2>6, Execution
    <3>2. driver'.at = "input"
      BY <1>1, <1>10, <2>6, Kinds DEF CommandHigh, Typing, Drivers
    <3>3. reply' = ReplyTo(driver.asked, rtc.status, date)
      BY <1>2, <1>10, <2>6
    <3>4. reply' \in [0..(ReplyBytes(driver.asked) - 1) -> Low]
      BY <1>1, <2>6, <3>3, AnswerBytes DEF Chips
    <3>5. Answers' /\ Selected(Wires)'
      BY <1>3, <1>5, <1>7, <3>1, <3>3 DEF Answers, Selected
    <3>6. Answering'
      BY <1>7, <2>3, <2>6, <3>1, <3>2, <3>4, <3>5 DEF Answering, Replies
    <3>7. Follows'
      BY <1>7, <3>2, <3>6 DEF Follows, Ready, Listening, Heard, AnswerHeard, Hears
    <3> QED BY <1>8, <3>1, <3>7
  <2> QED BY <1>1, <2>4, <2>5, <2>6, Kinds
<1> QED BY <1>1, <1>9, <1>10

-----------------------------------------------------------------------------
(* A bit of the status that is sent, and a bit of an answer. *)
LEMMA StatusBit ==
  ASSUME NEW r \in Chips, r.registers[1] = Wires, r.data_bytes = 1,
         NEW bit \in 0..7, r.bit_count = bit, NEW value
  PROVE  LET e == TakeData(r, value) IN
         /\ SCK \notin value => e = r
         /\ SCK \in value => e \in Chips /\ e.registers = r.registers
         /\ SCK \in value /\ bit = 7 => e.state = "IDLE"
         /\ SCK \in value /\ bit # 7 =>
              e.state = r.state /\ e.data_bytes = 1 /\ e.bit_count = bit + 1
<1> DEFINE counted == [r EXCEPT !.bit_count = @ + 1]
           last == [counted EXCEPT !.state = "IDLE", !.status = r.data[0]]
<1>1. SIO \in r.registers[1]
  BY Pins
<1>2. TakeData(r, value) =
        IF SCK \notin value THEN r ELSE IF Complete(counted) THEN last ELSE counted
  BY <1>1 DEF TakeData
<1>3. /\ counted \in Chips /\ counted.registers = r.registers /\ counted.state = r.state
      /\ counted.data_bytes = 1 /\ counted.bit_count = bit + 1
  BY DEF Chips
<1>4. Complete(counted) <=> bit = 7
  BY <1>3 DEF Complete
<1>5. r.data[0] \in Low
  BY ClockAssumption DEF Chips
<1> HIDE DEF counted
<1>6. last \in Chips /\ last.registers = r.registers /\ last.state = "IDLE"
  BY <1>3, <1>5 DEF Chips, States
<1> HIDE DEF last
<1> QED BY <1>2, <1>3, <1>4, <1>6

LEMMA AnswerBit ==
  ASSUME NEW r \in Chips, r.registers[1] = {SCK, CS}, NEW bit \in Nat, r.bit_count = bit,
         NEW value
  PROVE  LET e == GiveData(r, value) IN
         /\ SCK \notin value => e = With(r, 0, (r.registers[2] \ {SIO}) \cup BitOut(r))
         /\ SCK \in value => e \in Chips
         /\ SCK \in value /\ bit + 1 = 8 * r.data_bytes =>
              e.state = "IDLE" /\ e.registers = NoWires
         /\ SCK \in value /\ bit + 1 # 8 * r.data_bytes =>
              /\ e.registers = r.registers /\ e.state = r.state /\ e.data = r.data
              /\ e.data_bytes = r.data_bytes /\ e.bit_count = bit + 1
<1> DEFINE counted == [r EXCEPT !.bit_count = @ + 1]
           last == [counted EXCEPT !.state = "IDLE", !.registers = NoWires]
<1>1. SIO \notin r.registers[1]
  BY Pins
<1>2. GiveData(r, value) =
        IF SCK \notin value THEN With(r, 0, (r.registers[2] \ {SIO}) \cup BitOut(r))
        ELSE IF Complete(counted) THEN last ELSE counted
  BY <1>1 DEF GiveData, With
<1>3. /\ counted \in Chips /\ counted.registers = r.registers /\ counted.state = r.state
      /\ counted.data_bytes = r.data_bytes /\ counted.data = r.data
      /\ counted.bit_count = bit + 1
  BY DEF Chips
<1>4. Complete(counted) <=> bit + 1 = 8 * r.data_bytes
  BY <1>3 DEF Complete
<1>5. NoWires \in [0..2 -> SUBSET Wires]
  BY DEF NoWires
<1> HIDE DEF counted
<1>6. last \in Chips /\ last.registers = NoWires /\ last.state = "IDLE"
  BY <1>3, <1>5 DEF Chips, States
<1> HIDE DEF last
<1> QED BY <1>2, <1>3, <1>4, <1>6

LEMMA BitOnWire ==
  ASSUME NEW r \in Chips, NEW bit \in Nat, driver.asked \in Questions, bit < Bits,
         r.bit_count = bit,
         \A i \in 0..(ReplyBytes(driver.asked) - 1) : r.data[i] = reply[i]
  PROVE  BitOut(r) = Wire(bit) /\ Wire(bit) \in SUBSET {SIO}
<1>1. ReplyBytes(driver.asked) \in 1..DateBytes /\ DateBytes \in Nat
  BY AnswerLength, ClockAssumption
<1>2. bit \div 8 \in 0..(ReplyBytes(driver.asked) - 1)
  BY <1>1 DEF Bits
<1>3. r.data[bit \div 8] = reply[bit \div 8]
  BY <1>2
<1> QED BY <1>3 DEF BitOut, Wire, Answered

(* No answer ends in a one, so that the cleared registers tell the last bit. *)
LEMMA LastBit ==
  ASSUME driver.asked \in Questions, reply \in Replies, NEW bit \in Nat, bit + 1 = Bits
  PROVE  ~Answered(bit)
<1>1. ReplyBytes(driver.asked) \in 1..DateBytes /\ DateBytes \in Nat
  BY AnswerLength, ClockAssumption
<1>2. bit % 8 = 7 /\ bit \div 8 = ReplyBytes(driver.asked) - 1
  BY <1>1 DEF Bits
<1>3. bit \div 8 \in 0..(ReplyBytes(driver.asked) - 1)
  BY <1>1, <1>2
<1>4. reply[bit \div 8] \in Low
  BY <1>3 DEF Replies
<1> QED BY <1>2, <1>4 DEF Answered, Low

-----------------------------------------------------------------------------
LEMMA StatusLowStep ==
  ASSUME Inv, Typing, Follows, StatusLow
  PROVE  [Next]_vars /\ Typing' /\ Follows'
<1> DEFINE value == {CS} \cup Data(driver.sent)
<1>1. /\ driver.at = "status low" /\ rtc.state = "INPUT_DATA" /\ Selected(Wires)
      /\ rtc.data_bytes = 1 /\ driver.bit \in 0..7 /\ rtc.bit_count = driver.bit
      /\ driver.asked = WRITE_STATUS /\ driver.heard = {} /\ rtc \in Chips
  BY DEF StatusLow, Follows, Listening, Heard, Places, Typing
<1>2. PICK date \in Dates : rtc' = WrittenC4(rtc, value, date)
  BY DEF StatusLow, WriteC4
<1>3. value \in SUBSET Wires /\ SCK \notin value /\ CS \in value
  BY Pins DEF Data
<1> HIDE DEF value
<1>4. value = Effective(rtc, value) /\ Readable(rtc)
  BY <1>1, <1>3, EffectiveWires DEF Selected, Readable
<1> DEFINE stored == StoredC4(value)
<1>5. /\ stored \in Chips /\ Awake(rtc) = rtc /\ stored.registers[0] = value
      /\ stored.registers[1] = Wires /\ stored.registers[2] = {SCK}
      /\ stored.state = "INPUT_DATA" /\ stored.data_bytes = 1
      /\ stored.bit_count = driver.bit
  BY <1>1, <1>3, StoredTyped DEF Selected
<1>6. rtc' = TakeData(stored, value)
  BY <1>1, <1>2, <1>4, <1>5, WriteCases
<1> HIDE DEF stored
<1>7. rtc' = stored
  BY <1>1, <1>3, <1>5, <1>6, StatusBit
<1>8. /\ driver' \in Drivers /\ driver'.at = "status high"
      /\ driver'.bit = driver.bit /\ driver'.heard = {} /\ driver'.asked = WRITE_STATUS
  BY <1>1, Goes DEF StatusLow, Typing, Places
<1>9. [Next]_vars /\ game' = game /\ port' \in [SlotIds -> SUBSET Wires]
  BY <1>1, <1>3, <1>5, <1>7, PageStep DEF StatusLow, value
<1>10. Typing'
  BY <1>1, <1>5, <1>7, <1>8, <1>9 DEF Typing
<1>11. Listening'
  BY <1>1, <1>3, <1>5, <1>7, <1>8, Zenon DEF Listening, Selected
<1>12. Follows'
  BY <1>8, <1>11 DEF Follows, Ready, Answering, Heard, AnswerHeard, Hears
<1> QED BY <1>9, <1>10, <1>12

LEMMA StatusHighStep ==
  ASSUME Inv, Typing, Follows, StatusHigh
  PROVE  [Next]_vars /\ Typing' /\ Follows'
<1> DEFINE value == {SCK, CS} \cup Data(driver.sent)
<1>1. /\ driver.at = "status high" /\ rtc.state = "INPUT_DATA" /\ Selected(Wires)
      /\ rtc.data_bytes = 1 /\ driver.bit \in 0..7 /\ rtc.bit_count = driver.bit
      /\ driver.asked = WRITE_STATUS /\ driver.heard = {} /\ rtc \in Chips
  BY DEF StatusHigh, Follows, Listening, Heard, Places, Typing
<1>2. PICK date \in Dates : rtc' = WrittenC4(rtc, value, date)
  BY DEF StatusHigh, WriteC4
<1>3. value \in SUBSET Wires /\ SCK \in value /\ CS \in value
  BY Pins DEF Data
<1> HIDE DEF value
<1>4. value = Effective(rtc, value) /\ Readable(rtc)
  BY <1>1, <1>3, EffectiveWires DEF Selected, Readable
<1> DEFINE stored == StoredC4(value)
<1>5. /\ stored \in Chips /\ Awake(rtc) = rtc /\ stored.registers[0] = value
      /\ stored.registers[1] = Wires /\ stored.registers[2] = {SCK}
      /\ stored.state = "INPUT_DATA" /\ stored.data_bytes = 1
      /\ stored.bit_count = driver.bit
  BY <1>1, <1>3, StoredTyped DEF Selected
<1>6. rtc' = TakeData(stored, value)
  BY <1>1, <1>2, <1>4, <1>5, WriteCases
<1> HIDE DEF stored
<1>7. /\ rtc' \in Chips /\ rtc'.registers = stored.registers
      /\ driver.bit = 7 => rtc'.state = "IDLE"
      /\ driver.bit # 7 => /\ rtc'.state = "INPUT_DATA" /\ rtc'.data_bytes = 1
                           /\ rtc'.bit_count = driver.bit + 1
  <2>1. /\ stored \in Chips /\ stored.registers[1] = Wires /\ stored.data_bytes = 1
        /\ driver.bit \in 0..7 /\ stored.bit_count = driver.bit /\ SCK \in value
    BY <1>1, <1>3, <1>5
  <2>2. /\ rtc' \in Chips /\ rtc'.registers = stored.registers
        /\ driver.bit = 7 => rtc'.state = "IDLE"
        /\ driver.bit # 7 => /\ rtc'.state = stored.state /\ rtc'.data_bytes = 1
                             /\ rtc'.bit_count = driver.bit + 1
    BY <1>6, <2>1, StatusBit
  <2> QED BY <1>5, <2>2
<1>8. /\ driver' \in Drivers /\ driver'.bit = driver.bit + 1
      /\ driver'.heard = {} /\ driver'.asked = WRITE_STATUS
      /\ driver.bit = 7 => driver'.at = "end"
      /\ driver.bit # 7 => driver'.at = "status low"
  <2> DEFINE at == IF driver.bit = 7 THEN "end" ELSE "status low"
             bit == driver.bit + 1
  <2>1. driver' = [driver EXCEPT !.at = at, !.bit = bit] /\ driver \in Drivers
    BY DEF StatusHigh, Typing, Drivers
  <2>2. at \in Places /\ bit \in Nat
    <3>1. driver.bit \in 0..7
      BY <1>1
    <3> QED BY <3>1 DEF Places
  <2> HIDE DEF at, bit
  <2>3. /\ driver' \in Drivers /\ driver'.at = at /\ driver'.bit = bit
        /\ driver'.heard = driver.heard /\ driver'.asked = driver.asked
    BY <2>1, <2>2 DEF Drivers
  <2> QED BY <1>1, <2>3 DEF at, bit
<1>9. [Next]_vars /\ game' = game /\ port' \in [SlotIds -> SUBSET Wires]
  BY <1>1, <1>3, <1>7, PageStep DEF StatusHigh, value
<1>10. Typing'
  BY <1>1, <1>7, <1>8, <1>9 DEF Typing
<1>11. ~Hears'
  BY <1>8, Kinds DEF Hears
<1>12. CASE driver.bit = 7
  <2>1. Ready'
    BY <1>3, <1>5, <1>7, <1>8, <1>12, Zenon DEF Ready
  <2>2. driver'.at = "end"
    BY <1>8, <1>12
  <2> QED BY <1>9, <1>10, <1>11, <2>1, <2>2 DEF Follows, Listening, Answering, Heard, AnswerHeard
<1>13. CASE driver.bit # 7
  <2>1. driver'.bit \in 0..7 /\ rtc'.bit_count = driver'.bit
    <3>1. driver.bit \in 0..7 /\ driver.bit # 7 /\ driver'.bit = driver.bit + 1
      BY <1>1, <1>8, <1>13
    <3>2. driver'.bit \in 0..7
      BY <3>1
    <3> QED BY <1>7, <1>13, <3>1, <3>2
  <2>2. Listening'
    BY <1>3, <1>5, <1>7, <1>8, <1>13, <2>1, Zenon DEF Listening, Selected
  <2>3. driver'.at = "status low" /\ driver'.heard = {}
    BY <1>8, <1>13
  <2> QED BY <1>9, <1>10, <1>11, <2>2, <2>3 DEF Follows, Ready, Answering, Heard, AnswerHeard
<1> QED BY <1>12, <1>13

-----------------------------------------------------------------------------
(* The same question is being answered. *)
LEMMA SameQuestion ==
  ASSUME driver'.asked = driver.asked, reply' = reply
  PROVE  /\ Bits' = Bits /\ Replies' = Replies
         /\ \A b : Answered(b)' <=> Answered(b)
         /\ \A b : Wire(b)' = Wire(b)
BY DEF Bits, Replies, Answered, Wire

LEMMA SameAnswer ==
  ASSUME driver'.asked = driver.asked, reply' = reply, Answers, rtc'.state = rtc.state,
         rtc'.data_bytes = rtc.data_bytes, rtc'.data = rtc.data
  PROVE  Answers'
BY DEF Answers

LEMMA SameHearing ==
  ASSUME driver'.asked = driver.asked, reply' = reply, driver'.bit = driver.bit,
         driver'.heard = driver.heard, Hears, AnswerHeard
  PROVE  AnswerHeard'
BY DEF AnswerHeard

LEMMA InputStep ==
  ASSUME Inv, Typing, Follows, Input
  PROVE  [Next]_vars /\ Typing' /\ Follows'
<1>1. /\ driver.at = "input" /\ Answers /\ Selected(Wires) /\ driver.bit = 0
      /\ rtc.bit_count = 0 /\ driver.heard = {} /\ rtc \in Chips
      /\ driver.asked \in Questions /\ reply \in Replies
  BY DEF Input, Follows, Answering, Heard, Places, Typing
<1>2. rtc' = With(rtc, 1, {SCK, CS}) /\ reply' = reply /\ BesideOnPage
  BY DEF Input, WriteRegister, With
<1>3. {SCK, CS} \in SUBSET Wires /\ 0 \in 0..2 /\ 1 \in 0..2 /\ 2 \in 0..2
  BY Pins
<1>4. /\ rtc' \in Chips /\ rtc'.registers[1] = {SCK, CS}
      /\ rtc'.registers[0] = rtc.registers[0] /\ rtc'.registers[2] = rtc.registers[2]
      /\ rtc'.state = rtc.state /\ rtc'.data = rtc.data
      /\ rtc'.data_bytes = rtc.data_bytes /\ rtc'.bit_count = 0
  BY <1>1, <1>2, <1>3, RegisterStored
<1>5. /\ driver' \in Drivers /\ driver'.at = "clock low" /\ driver'.asked = driver.asked
      /\ driver'.bit = 0 /\ driver'.heard = {}
  BY <1>1, Goes DEF Input, Typing, Places
<1>6. [Next]_vars /\ game' = game /\ port' \in [SlotIds -> SUBSET Wires]
  BY <1>1, <1>2, <1>4, PortUntouched DEF Typing
<1>7. Typing'
  BY <1>1, <1>4, <1>5, <1>6 DEF Typing
<1>8. Answers' /\ Bits' = Bits /\ Replies' = Replies
  BY <1>1, <1>2, <1>4, <1>5, SameQuestion, SameAnswer
<1>9. Selected({SCK, CS})'
  BY <1>1, <1>4 DEF Selected
<1>10. 0 < Bits
  <2>1. ReplyBytes(driver.asked) \in 1..DateBytes /\ DateBytes \in Nat
    BY <1>1, AnswerLength, ClockAssumption
  <2> QED BY <2>1 DEF Bits
<1>11. Answering'
  BY <1>1, <1>2, <1>4, <1>5, <1>8, <1>9, <1>10 DEF Answering
<1>12. Heard'
  <2>1. 0..(driver'.bit - 1) = {}
    <3>1. driver'.bit = 0
      BY <1>5
    <3> QED BY <3>1
  <2>2. AnswerHeard'
    BY <1>5, <2>1 DEF AnswerHeard
  <2> QED BY <1>5, <2>2 DEF Heard
<1>13. Ready' /\ Listening'
  BY <1>5 DEF Ready, Listening
<1> QED BY <1>6, <1>7, <1>11, <1>12, <1>13 DEF Follows

(* The bit is put on the wire. *)
LEMMA ClockLowStep ==
  ASSUME Inv, Typing, Follows, ClockLow
  PROVE  [Next]_vars /\ Typing' /\ Follows'
<1>1. /\ driver.at = "clock low" /\ Answers /\ Selected({SCK, CS}) /\ driver.bit < Bits
      /\ rtc.bit_count = driver.bit /\ rtc \in Chips /\ driver.bit \in Nat
      /\ driver.asked \in Questions /\ reply \in Replies /\ AnswerHeard
  BY DEF ClockLow, Follows, Answering, Heard, Typing, Drivers
<1>2. /\ \E date \in Dates : rtc' = WrittenC4(rtc, {CS}, date)
      /\ reply' = reply
  BY <1>1 DEF ClockLow, WriteC4
<1>3. {CS} \in SUBSET Wires /\ SCK \notin {CS} /\ 0 \in 0..2 /\ 1 \in 0..2 /\ 2 \in 0..2
  BY Pins
<1>4. {CS} = Effective(rtc, {CS}) /\ Readable(rtc)
  BY <1>1, <1>3, EffectiveWires DEF Selected, Readable
<1> DEFINE stored == StoredC4({CS})
<1>5. /\ stored \in Chips /\ Awake(rtc) = rtc /\ rtc.state = "OUTPUT_DATA"
      /\ stored.registers[1] = {SCK, CS} /\ stored.registers[2] = {SCK}
      /\ stored.state = rtc.state /\ stored.data_bytes = rtc.data_bytes
      /\ stored.data = rtc.data /\ stored.bit_count = driver.bit
  BY <1>1, <1>3, StoredTyped DEF Selected, Answers
<1>6. rtc' = GiveData(stored, {CS})
  BY <1>2, <1>4, <1>5, WriteCases
<1> HIDE DEF stored
<1>7. BitOut(stored) = Wire(driver.bit) /\ Wire(driver.bit) \in SUBSET {SIO}
  <2>1. \A i \in 0..(ReplyBytes(driver.asked) - 1) : stored.data[i] = reply[i]
    BY <1>1, <1>5 DEF Answers
  <2> QED BY <1>1, <1>5, <2>1, BitOnWire
<1>8. ({SCK} \ {SIO}) \cup BitOut(stored) = {SCK} \cup Wire(driver.bit)
  BY <1>7, Pins
<1>9. rtc' = With(stored, 0, {SCK} \cup Wire(driver.bit))
  <2>1. /\ stored \in Chips /\ stored.registers[1] = {SCK, CS} /\ driver.bit \in Nat
        /\ stored.bit_count = driver.bit
    BY <1>1, <1>5
  <2>2. rtc' = With(stored, 0, (stored.registers[2] \ {SIO}) \cup BitOut(stored))
    BY <1>3, <1>6, <2>1, AnswerBit
  <2> QED BY <1>5, <1>8, <2>2
<1>10. /\ rtc' \in Chips /\ rtc'.registers[0] = {SCK} \cup Wire(driver.bit)
       /\ rtc'.registers[1] = {SCK, CS} /\ rtc'.registers[2] = {SCK}
       /\ rtc'.state = rtc.state /\ rtc'.data_bytes = rtc.data_bytes
       /\ rtc'.data = rtc.data /\ rtc'.bit_count = driver.bit
  <2>1. {SCK} \cup Wire(driver.bit) \in SUBSET Wires
    BY <1>7, Pins
  <2>2. 1 # 0 /\ 2 # 0
    OBVIOUS
  <2> QED BY <1>3, <1>5, <1>9, <2>1, <2>2, RegisterStored
<1>11. /\ driver' \in Drivers /\ driver'.at = "clock high" /\ driver'.asked = driver.asked
       /\ driver'.bit = driver.bit /\ driver'.heard = driver.heard
  BY Goes DEF ClockLow, Typing, Places
<1>12. [Next]_vars /\ game' = game /\ port' \in [SlotIds -> SUBSET Wires]
  BY <1>1, <1>3, <1>10, PageStep DEF ClockLow
<1>13. Typing'
  BY <1>1, <1>10, <1>11, <1>12 DEF Typing
<1>14. /\ Answers' /\ Bits' = Bits /\ Replies' = Replies
       /\ Wire(driver.bit)' = Wire(driver.bit)
  BY <1>1, <1>2, <1>10, <1>11, SameQuestion, SameAnswer DEF Wire, Answered
<1>15. Answering'
  BY <1>1, <1>2, <1>10, <1>11, <1>14 DEF Answering
<1>16. Hears
  BY <1>1 DEF Hears
<1>17. Heard'
  BY <1>1, <1>2, <1>11, <1>16, SameHearing DEF Heard
<1>18. Ready' /\ Listening'
  BY <1>11 DEF Ready, Listening
<1> QED BY <1>12, <1>13, <1>15, <1>17, <1>18 DEF Follows

(* The bit is counted and read back; the last one clears the registers. *)
LEMMA ClockHighStep ==
  ASSUME Inv, Typing, Follows, ClockHigh
  PROVE  [Next]_vars /\ Typing' /\ Follows'
<1> DEFINE value == {SCK, CS} \cup Wire(driver.bit)
<1>1. /\ driver.at = "clock high" /\ Answers /\ driver.bit < Bits
      /\ rtc.registers[0] = {SCK} \cup Wire(driver.bit)
      /\ rtc.registers[1] = {SCK, CS} /\ rtc.registers[2] = {SCK}
      /\ rtc.bit_count = driver.bit /\ rtc \in Chips /\ driver.bit \in Nat
      /\ driver.asked \in Questions /\ reply \in Replies /\ AnswerHeard
  BY DEF ClockHigh, Follows, Answering, Heard, Typing, Drivers
<1>2. /\ \E date \in Dates : rtc' = WrittenC4(rtc, {SCK, CS}, date)
      /\ reply' = reply
  BY <1>1 DEF ClockHigh, WriteC4
<1>3. /\ value \in SUBSET Wires /\ SCK \in value /\ CS \in value
      /\ SIO \in value <=> Answered(driver.bit)
      /\ 0 \in 0..2 /\ 1 \in 0..2 /\ 2 \in 0..2 /\ {SCK, CS} \in SUBSET Wires
  BY Pins DEF Wire
<1>4. value = Effective(rtc, {SCK, CS}) /\ Readable(rtc)
  <2>1. CS \notin rtc.registers[0] /\ rtc.registers[0] \cap {SIO} = Wire(driver.bit)
    BY <1>1, Pins DEF Wire
  <2>2. Effective(rtc, {SCK, CS}) = Wire(driver.bit) \cup {SCK, CS}
    BY <2>1, Pins DEF Effective
  <2>3. Readable(rtc)
    BY <1>1 DEF Readable
  <2> QED BY <2>2, <2>3
<1> HIDE DEF value
<1> DEFINE stored == StoredC4(value)
<1>5. /\ stored \in Chips /\ Awake(rtc) = rtc /\ rtc.state = "OUTPUT_DATA"
      /\ stored.registers[0] = value
      /\ stored.registers[1] = {SCK, CS} /\ stored.registers[2] = {SCK}
      /\ stored.state = rtc.state /\ stored.data_bytes = rtc.data_bytes
      /\ stored.data = rtc.data /\ stored.bit_count = driver.bit
  BY <1>1, <1>3, StoredTyped DEF Answers
<1>6. rtc' = GiveData(stored, value)
  BY <1>2, <1>4, <1>5, WriteCases
<1> HIDE DEF stored
<1>7. 8 * stored.data_bytes = Bits
  BY <1>1, <1>5 DEF Answers, Bits
<1>8. /\ rtc' \in Chips
      /\ driver.bit + 1 = Bits => rtc'.state = "IDLE" /\ rtc'.registers = NoWires
      /\ driver.bit + 1 # Bits =>
           /\ rtc'.registers = stored.registers /\ rtc'.state = rtc.state
           /\ rtc'.data = rtc.data /\ rtc'.data_bytes = rtc.data_bytes
           /\ rtc'.bit_count = driver.bit + 1
  <2>1. /\ rtc' \in Chips
        /\ driver.bit + 1 = 8 * stored.data_bytes =>
             rtc'.state = "IDLE" /\ rtc'.registers = NoWires
        /\ driver.bit + 1 # 8 * stored.data_bytes =>
             /\ rtc'.registers = stored.registers /\ rtc'.state = stored.state
             /\ rtc'.data = stored.data /\ rtc'.data_bytes = stored.data_bytes
             /\ rtc'.bit_count = driver.bit + 1
    <3>1. /\ stored \in Chips /\ stored.registers[1] = {SCK, CS} /\ driver.bit \in Nat
          /\ stored.bit_count = driver.bit /\ SCK \in value
      BY <1>1, <1>3, <1>5
    <3> QED BY <1>6, <3>1, AnswerBit, ZenonT(60)
  <2> QED BY <1>5, <1>7, <2>1
<1>9. /\ driver' \in Drivers /\ driver'.at = "hear" /\ driver'.asked = driver.asked
      /\ driver'.bit = driver.bit /\ driver'.heard = driver.heard
  BY Goes DEF ClockHigh, Typing, Places
<1>10. /\ [Next]_vars /\ game' = game /\ port' \in [SlotIds -> SUBSET Wires]
       /\ PageZero' # Null /\ port'[PageZero'] = value
  BY <1>1, <1>3, <1>4, <1>8, PageStep DEF ClockHigh
<1>11. Typing'
  BY <1>1, <1>8, <1>9, <1>10 DEF Typing
<1>12. /\ Bits' = Bits /\ Replies' = Replies
       /\ Answered(driver.bit)' <=> Answered(driver.bit)
  BY <1>2, <1>9, SameQuestion DEF Answered
<1>13. SIO \in rtc'.registers[0] <=> Answered(driver.bit)
  <2>1. CASE driver.bit + 1 = Bits
    <3>1. ~Answered(driver.bit)
      BY <1>1, <2>1, LastBit
    <3>2. SIO \notin NoWires[0]
      BY DEF NoWires
    <3> QED BY <1>8, <2>1, <3>1, <3>2
  <2>2. CASE driver.bit + 1 # Bits
    BY <1>3, <1>5, <1>8, <2>2
  <2> QED BY <2>1, <2>2
<1>14. driver.bit + 1 # Bits => Answers' /\ Selected({SCK, CS})'
  <2>1. driver.bit + 1 # Bits => Answers'
    BY <1>1, <1>2, <1>8, <1>9, SameAnswer
  <2>2. driver.bit + 1 # Bits => Selected({SCK, CS})'
    BY <1>3, <1>5, <1>8 DEF Selected
  <2> QED BY <2>1, <2>2
<1>15. Answering'
  BY <1>1, <1>2, <1>3, <1>8, <1>9, <1>10, <1>12, <1>13, <1>14 DEF Answering
<1>16. Heard'
  <2>1. Hears
    BY <1>1 DEF Hears
  <2> QED BY <1>1, <1>2, <1>9, <2>1, SameHearing DEF Heard
<1>17. Ready' /\ Listening'
  BY <1>9 DEF Ready, Listening
<1> QED BY <1>10, <1>11, <1>15, <1>16, <1>17 DEF Follows

(* The game reads the bit. *)
LEMMA HearStep ==
  ASSUME Inv, Typing, Follows, Hear
  PROVE  [Next]_vars /\ Typing' /\ Follows'
<1> DEFINE last == driver.bit + 1 = Bits
           heard == IF SIO \in port[PageZero] THEN driver.heard \cup {driver.bit}
                    ELSE driver.heard
<1>1. /\ driver.at = "hear" /\ driver.bit < Bits
      /\ SIO \in port[PageZero] <=> Answered(driver.bit)
      /\ driver.bit \in Nat /\ driver.heard \in SUBSET Nat /\ driver \in Drivers
      /\ driver.asked \in Questions /\ reply \in Replies /\ AnswerHeard
  BY DEF Hear, Follows, Answering, Heard, Typing, Drivers
<1>2. IF last THEN rtc.state = "IDLE" /\ rtc.registers = NoWires
      ELSE Answers /\ Selected({SCK, CS}) /\ rtc.bit_count = driver.bit + 1
  BY <1>1 DEF Follows, Answering
<1>3. /\ vars' = vars /\ port' = port /\ rtc' = rtc /\ reply' = reply
      /\ driver' = [driver EXCEPT !.at = IF last THEN "end" ELSE "clock low",
                                  !.bit = driver.bit + 1, !.heard = heard]
  <2>1. vars' = vars /\ port' = port /\ rtc' = rtc /\ reply' = reply
    BY DEF Hear
  <2>2. driver' = [driver EXCEPT !.at = IF last THEN "end" ELSE "clock low",
                                 !.bit = driver.bit + 1, !.heard = heard]
    BY <1>1 DEF Hear, Bits, Drivers
  <2> QED BY <2>1, <2>2
<1>4. heard \in SUBSET Nat /\ driver.bit + 1 \in Nat
  BY <1>1
<1>5. \A b : b \in heard <=> b \in driver.heard \/ (b = driver.bit /\ Answered(b))
  BY <1>1
<1> HIDE DEF heard, last
<1>6. /\ driver' \in Drivers /\ driver'.at = IF last THEN "end" ELSE "clock low"
      /\ driver'.bit = driver.bit + 1 /\ driver'.heard = heard
      /\ driver'.asked = driver.asked
  <2> DEFINE at == IF last THEN "end" ELSE "clock low"
  <2>1. at \in Places
    BY DEF Places
  <2> HIDE DEF at
  <2>2. driver' = [driver EXCEPT !.at = at, !.bit = driver.bit + 1, !.heard = heard]
    BY <1>3 DEF at
  <2>3. /\ driver' \in Drivers /\ driver'.at = at /\ driver'.bit = driver.bit + 1
        /\ driver'.heard = heard /\ driver'.asked = driver.asked
    BY <1>1, <1>4, <2>1, <2>2 DEF Drivers
  <2> QED BY <2>3 DEF at
<1>7. game' = game /\ game # NoGame
  BY <1>1, <1>3 DEF vars, Typing
<1>8. Typing'
  BY <1>3, <1>6, <1>7 DEF Typing
<1>9. Bits' = Bits /\ Replies' = Replies
  BY <1>3, <1>6, SameQuestion
<1>10. AnswerHeard'
  <2>1. Hears
    BY <1>1 DEF Hears
  <2>2. driver.heard = {b \in 0..(driver.bit - 1) : Answered(b)}
    BY <1>1, <2>1 DEF AnswerHeard, Answered
  <2>3. \A b : b \in 0..driver.bit <=> b \in 0..(driver.bit - 1) \/ b = driver.bit
    BY <1>1
  <2>4. heard = {b \in 0..driver.bit : Answered(b)}
    BY <1>5, <2>2, <2>3
  <2>5. driver'.bit - 1 = driver.bit
    <3>1. driver.bit \in Nat /\ driver'.bit = driver.bit + 1
      BY <1>1, <1>6
    <3> QED BY <3>1
  <2>6. driver'.heard = {b \in 0..(driver'.bit - 1) : (b % 8) \in reply'[b \div 8]}
    BY <1>3, <1>6, <2>4, <2>5 DEF Answered
  <2> QED BY <2>6 DEF AnswerHeard
<1>11. Heard'
  BY <1>6, <1>10 DEF Heard
<1>12. CASE last
  <2>1. driver'.at = "end"
    BY <1>6, <1>12
  <2>2. Ready'
    BY <1>2, <1>3, <1>12, <2>1 DEF Ready
  <2>3. Listening' /\ Answering'
    BY <2>1 DEF Listening, Answering
  <2> QED BY <1>3, <1>8, <1>11, <2>2, <2>3 DEF Follows
<1>13. CASE ~last
  <2>1. driver'.at = "clock low"
    BY <1>6, <1>13
  <2>2. Ready' /\ Listening'
    BY <2>1 DEF Ready, Listening
  <2>3. driver'.bit < Bits
    <3>1. Bits \in Nat
      <4>1. ReplyBytes(driver.asked) \in 1..DateBytes /\ DateBytes \in Nat
        BY <1>1, AnswerLength, ClockAssumption
      <4> QED BY <4>1 DEF Bits
    <3>2. driver.bit + 1 # Bits
      BY <1>13 DEF last
    <3>3. driver.bit < Bits /\ driver.bit \in Nat /\ driver'.bit = driver.bit + 1
      BY <1>1, <1>6
    <3> QED BY <3>1, <3>2, <3>3
  <2>4. Answers' /\ Selected({SCK, CS})'
    BY <1>2, <1>3, <1>6, <1>13, SameAnswer DEF Selected
  <2>5. rtc'.bit_count = driver'.bit
    BY <1>2, <1>3, <1>6, <1>13
  <2>6. Answering'
    BY <1>1, <1>3, <1>6, <1>9, <2>1, <2>3, <2>4, <2>5 DEF Answering
  <2> QED BY <1>3, <1>8, <1>11, <2>2, <2>6 DEF Follows
<1> QED BY <1>12, <1>13

-----------------------------------------------------------------------------
(* Between two commands the game rests. *)
LEMMA AtRest ==
  ASSUME driver' = Resting, rtc'.state \in {"DISABLED", "IDLE"},
         rtc'.registers[0] \subseteq {SCK}
  PROVE  driver' \in Drivers /\ driver'.at = "rest" /\ Follows'
<1>1. /\ driver'.at = "rest" /\ driver'.asked = RESET /\ driver'.sent = {}
      /\ driver'.bit = 0 /\ driver'.heard = {}
  BY DEF Resting
<1>2. driver' \in Drivers
  <2>1. "rest" \in Places /\ RESET \in Commands /\ {} \in Byte
    BY DEF Places, Commands, Byte
  <2> QED BY <2>1 DEF Resting, Drivers
<1>3. Ready' /\ Listening' /\ Answering'
  BY <1>1 DEF Ready, Listening, Answering
<1>4. Heard'
  BY <1>1 DEF Heard, AnswerHeard, Hears
<1> QED BY <1>1, <1>2, <1>3, <1>4 DEF Follows

LEMMA EndStep ==
  ASSUME Inv, Typing, Follows, End
  PROVE  [Next]_vars /\ Typing' /\ Follows'
<1>1. /\ driver.at = "end" /\ rtc.state = "IDLE" /\ rtc \in Chips /\ driver' = Resting
      /\ rtc.registers = NoWires \/ (CS \in rtc.registers[0] /\ rtc.registers[2] = {SCK})
  BY DEF End, Follows, Ready, Typing
<1>2. \E date \in Dates : rtc' = WrittenC4(rtc, {SCK}, date)
  BY DEF End, WriteC4
<1>3. {SCK} \in SUBSET Wires /\ SIO \notin {SCK} /\ 0 \in 0..2 /\ 2 \in 0..2
  BY Pins
<1>4. Awake(rtc) = rtc
  BY <1>1, StoredTyped, <1>3
<1>5. rtc' \in Chips /\ rtc'.state = "IDLE" /\ rtc'.registers[0] \subseteq {SCK}
  <2>1. CASE rtc.registers = NoWires
    <3>1. rtc.registers[0] = {} /\ ~Readable(rtc)
      BY <2>1 DEF NoWires, Readable
    <3>2. {SCK} = Effective(rtc, {SCK})
      BY <1>1, <1>3, <3>1, EffectiveWires
    <3>3. rtc' = With(rtc, 2, {SCK})
      BY <1>2, <1>4, <3>1, <3>2, WriteCases
    <3>4. 0 # 2
      OBVIOUS
    <3> QED BY <1>1, <1>3, <3>1, <3>3, <3>4, RegisterStored
  <2>2. CASE CS \in rtc.registers[0] /\ rtc.registers[2] = {SCK}
    <3>1. {SCK} = Effective(rtc, {SCK}) /\ Readable(rtc)
      BY <1>1, <1>3, <2>2, EffectiveWires DEF Readable
    <3>2. rtc.registers[0] # {SCK}
      BY <2>2, Pins
    <3>3. rtc' = StoredC4({SCK})
      BY <1>1, <1>2, <1>4, <3>1, <3>2, WriteCases
    <3> QED BY <1>1, <1>3, <3>3, StoredTyped
  <2> QED BY <1>1, <2>1, <2>2
<1>6. [Next]_vars /\ game' = game /\ port' \in [SlotIds -> SUBSET Wires]
  BY <1>1, <1>3, <1>5, PageStep DEF End
<1>7. driver' \in Drivers /\ driver'.at = "rest" /\ Follows'
  BY <1>1, <1>5, AtRest
<1> QED BY <1>5, <1>6, <1>7 DEF Typing

-----------------------------------------------------------------------------
(* An access of the game to another page, or to page 0 again: whatever is  *)
(* evicted, the bit on the wire is on the page when it is read.            *)
LEMMA ClockAccessStep ==
  ASSUME Inv, Typing, Follows, NEW m \in Mirrors, NEW p \in PageIds, ClockAccess(m, p)
  PROVE  [Next]_vars /\ Typing' /\ Follows'
<1> DEFINE byte == IF p = 0 THEN Loaded(rtc) ELSE RomByte
<1>1. Access(m, p) /\ rtc' = rtc /\ driver' = driver /\ reply' = reply
  BY DEF ClockAccess, clock
<1>2. [Next]_vars /\ game' = game
  BY <1>1, AccessLoads DEF Next
<1>3. PICK s \in SlotIds :
        /\ gamepak_memory_map' = [gamepak_memory_map EXCEPT ![s] =
                                    [page_timestamp |-> page_time, physical_index |-> p]]
        /\ \A q \in PageIds :
             memory_map_read'["wait0"][q] =
               IF q = p THEN s
               ELSE IF q = gamepak_memory_map[s].physical_index THEN Null
               ELSE memory_map_read["wait0"][q]
  <2>1. "wait0" \in Mirrors
    BY DEF Mirrors
  <2> QED BY <1>1, <2>1, AccessLoads
<1>4. port' = [port EXCEPT ![s] = byte]
  BY <1>3 DEF ClockAccess
<1>5. byte \in SUBSET Wires
  BY ClockAssumption DEF Loaded, Typing, Chips
<1> HIDE DEF byte
<1>6. Typing'
  BY <1>1, <1>2, <1>4, <1>5 DEF Typing
<1>7. ASSUME driver.at = "hear", PageZero' # Null
      PROVE  SIO \in port'[PageZero'] <=> Answered(driver.bit)
  <2>1. /\ SIO \in rtc.registers[0] <=> Answered(driver.bit)
        /\ PageZero # Null => (SIO \in port[PageZero] <=> Answered(driver.bit))
        /\ rtc.state # "DISABLED"
    BY <1>7 DEF Follows, Answering, Answers
  <2>2. CASE p = 0
    <3>1. PageZero' = s
      BY <1>3, <2>2, Constants DEF PageZero
    <3>2. byte = rtc.registers[0]
      BY <2>1, <2>2 DEF byte, Loaded
    <3> QED BY <1>4, <2>1, <3>1, <3>2 DEF Typing
  <2>3. CASE p # 0
    <3>1. PageZero' = PageZero /\ gamepak_memory_map[s].physical_index # 0
      BY <1>3, <1>7, <2>3, Constants DEF PageZero
    <3>2. PageZero # s
      <4>1. game # NoGame /\ ~Fits(game)
        BY <1>1, AccessLoads DEF Access
      <4>2. "wait0" \in Mirrors /\ Kept("wait0", 0)
        BY DEF Mirrors, Kept
      <4> QED BY <1>7, <3>1, <4>1, <4>2, Constants DEF Inv, SlotKnows, PageZero
    <3> QED BY <1>4, <1>7, <2>1, <3>1, <3>2 DEF Typing
  <2> QED BY <2>2, <2>3
<1>8. Answering'
  BY <1>1, <1>7 DEF Follows, Answering, Answers, Selected, Answered, Bits, Replies, Wire
<1>9. Ready' /\ Listening' /\ Heard'
  BY <1>1 DEF Follows, Ready, Listening, Selected, Before, Heard, AnswerHeard, Hears
<1> QED BY <1>2, <1>6, <1>8, <1>9 DEF Follows

(* A reset, alone or with another cartridge, disables the clock. *)
LEMMA ClockDisabled ==
  ASSUME Typing, rtc' = Disabled
  PROVE  /\ rtc' \in Chips /\ rtc'.state = "DISABLED" /\ rtc'.registers[0] \subseteq {SCK}
<1>1. NoWires \in [0..2 -> SUBSET Wires] /\ NoWires[0] = {} /\ "DISABLED" \in States
  BY DEF NoWires, States
<1> QED BY <1>1 DEF Disabled, Typing, Chips

LEMMA ClockResetStep ==
  ASSUME Inv, Typing, ClockReset \/ \E g \in Games : ClockLoadGamepak(g)
  PROVE  [Next]_vars /\ Typing' /\ Follows'
<1>1. /\ rtc' = Disabled /\ driver' = Resting
      /\ Reset \/ \E g \in Games : LoadGamepak(g)
  BY DEF ClockReset, ClockLoadGamepak
<1>2. port' \in [SlotIds -> SUBSET Wires]
  BY ClockAssumption DEF ClockReset, ClockLoadGamepak, Typing
<1>3. [Next]_vars
  BY <1>1 DEF Next
<1> QED BY <1>1, <1>2, <1>3, ClockDisabled, AtRest DEF Typing

LEMMA ClockInitially == ClockInit => ClockInv
<1> SUFFICES ASSUME ClockInit PROVE ClockInv
  OBVIOUS
<1>1. Inv
  BY Initially DEF ClockInit
<1>2. rtc \in Chips /\ rtc.state = "DISABLED" /\ rtc.registers[0] = {}
  <2>1. /\ NoWires \in [0..2 -> SUBSET Wires] /\ NoWires[0] = {} /\ "DISABLED" \in States
        /\ [i \in 0..(DateBytes - 1) |-> {}] \in [0..(DateBytes - 1) -> Low]
        /\ {6} \in Low /\ {} \in SUBSET (0..7) /\ 0 \in Nat /\ 0 \in Int
    BY DEF NoWires, States, Low
  <2> QED BY <2>1 DEF ClockInit, Chips
<1>3. driver \in Drivers /\ driver.at = "rest" /\ driver.asked = RESET /\ driver.heard = {}
  <2>1. "rest" \in Places /\ RESET \in Commands /\ {} \in Byte
    BY DEF Places, Commands, Byte
  <2> QED BY <2>1 DEF ClockInit, Resting, Drivers
<1>4. Typing
  BY <1>2, <1>3, ClockAssumption DEF ClockInit, Typing
<1>5. Ready /\ Listening /\ Answering
  BY <1>2, <1>3 DEF Ready, Listening, Answering
<1>6. Heard
  BY <1>3 DEF Heard, AnswerHeard, Hears
<1> QED BY <1>1, <1>4, <1>5, <1>6 DEF ClockInv, Follows

LEMMA ClockStep == ClockInv /\ [ClockNext]_clockVars => [Next]_vars /\ ClockInv'
<1> SUFFICES ASSUME ClockInv, [ClockNext]_clockVars PROVE [Next]_vars /\ ClockInv'
  OBVIOUS
<1>1. Inv /\ Typing /\ Follows
  BY DEF ClockInv
<1>2. [Next]_vars /\ Typing' /\ Follows'
  <2>1. CASE Driver
    BY <1>1, <2>1, AskStep, RaiseStep, StartStep, OutputStep, CommandLowStep,
       CommandHighStep, StatusLowStep, StatusHighStep, InputStep, ClockLowStep,
       ClockHighStep, HearStep, EndStep DEF Driver
  <2>2. CASE Cartridge
    BY <1>1, <2>2, ClockAccessStep, ClockResetStep DEF Cartridge
  <2>3. CASE UNCHANGED clockVars
    <3>1. /\ vars' = vars /\ port' = port /\ rtc' = rtc /\ driver' = driver /\ reply' = reply
      BY <2>3 DEF clockVars, clock
    <3>2. PageZero' = PageZero /\ game' = game
      BY <3>1 DEF vars, PageZero
    <3>3. Typing'
      BY <1>1, <3>1, <3>2 DEF Typing
    <3>4. Ready' /\ Listening' /\ Heard'
      BY <1>1, <3>1
         DEF Follows, Ready, Listening, Selected, Before, Heard, AnswerHeard, Hears
    <3>5. Answering'
      BY <1>1, <3>1, <3>2
         DEF Follows, Answering, Answers, Selected, Answered, Bits, Replies, Wire
    <3> QED BY <3>1, <3>3, <3>4, <3>5 DEF Follows
  <2> QED BY <2>1, <2>2, <2>3 DEF ClockNext
<1>3. Inv'
  BY <1>1, <1>2, NextStep
<1> QED BY <1>2, <1>3 DEF ClockInv

-----------------------------------------------------------------------------
(* With the clock on page 0 the cartridge's pages are still loaded and     *)
(* evicted as GamepakCache says, so that MapTrue and PagesStay hold        *)
(* (write_rtc, load_gamepak_page).                                         *)
THEOREM ClockUsesPages == ClockSpec => Spec
<1>1. ClockInit => Init
  BY DEF ClockInit
<1> QED BY <1>1, ClockInitially, ClockStep, PTL DEF ClockSpec, Spec

(* Whatever is loaded, evicted and reset in between, the game hears the    *)
(* answer, for answers and dates of any length (write_rtc).                *)
THEOREM AnswersAreHeard == ClockSpec => []AnswerHeard
<1>1. ClockInv => AnswerHeard
  BY DEF ClockInv, Follows, Heard
<1> QED BY <1>1, ClockInitially, ClockStep, PTL DEF ClockSpec

(* The clock has taken and given as many bits as the game has sent and     *)
(* read, and is ready for the next command (write_rtc).                    *)
THEOREM ClockGetsReady == ClockSpec => []CommandsEnd
<1>1. ClockInv => CommandsEnd
  BY DEF ClockInv, Follows, Ready, CommandsEnd
<1> QED BY <1>1, ClockInitially, ClockStep, PTL DEF ClockSpec
=============================================================================
