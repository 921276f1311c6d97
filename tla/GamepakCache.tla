---------------------------- MODULE GamepakCache ----------------------------
(***************************************************************************)
(* The cartridge in memory (memory.c). A game that fits in the buffer is   *)
(* read into it whole. One that does not, where malloc gave less than      *)
(* 32MB, is read page by page: an access to a page that memory_map_read    *)
(* has no pointer for loads it over the page loaded longest ago. The       *)
(* cartridge appears at three places of the address space, and a page is   *)
(* mapped at all of them or none.                                          *)
(*                                                                         *)
(* A page is a number, its contents the game's name and that number. The   *)
(* few bytes of page 0 the clock's port lies on are left out, and a file   *)
(* that cannot be read any more. page_time does not come near 2^32.        *)
(***************************************************************************)
EXTENDS Integers

CONSTANTS
  Slots,      \* gamepak_ram_pages
  Pages,      \* pages of the address range, 1024
  HalfRange,  \* the first page at 0x9000000, 0xB000000 and 0xD000000: 512
  Games, NoGame,
  SizeOf,     \* pages of each game: gamepak_size
  Null

ASSUME GamepakAssumption ==
  /\ Slots \in Nat \ {0} /\ Pages \in Nat \ {0}
  /\ HalfRange \in Nat
  /\ NoGame \notin Games
  /\ SizeOf \in [Games -> 1..Pages]
  /\ Null \notin Nat

Mirrors == {"wait0", "wait1", "wait2"}  \* from 0x8000000, 0xA000000, 0xC000000
SlotIds == 0..(Slots - 1)
PageIds == 0..(Pages - 1)

VARIABLES
  game,                \* the cartridge; gamepak_size and gamepak_file_large
  memory_map_read,     \* of the mirrors' pages
  gamepak_memory_map,  \* what the slots were last loaded with
  page_time,
  gamepak_rom          \* the contents of the slots

vars == <<game, memory_map_read, gamepak_memory_map, page_time, gamepak_rom>>

Fits(g) == SizeOf[g] <= Slots

-----------------------------------------------------------------------------
(* evict_gamepak_page: the last of the slots with the smallest timestamp. *)
Evictable(s) ==
  \A t \in SlotIds :
    \/ gamepak_memory_map[t].page_timestamp > gamepak_memory_map[s].page_timestamp
    \/ gamepak_memory_map[t].page_timestamp = gamepak_memory_map[s].page_timestamp /\ t <= s

(* A bug: the page of the slot's own number is unmapped. *)
RemappedBySlot(s, p) ==
  [m \in Mirrors |-> [memory_map_read[m] EXCEPT ![s] = Null, ![p] = s]]

(* A bug: the evicted page stays mapped in the other two mirrors. *)
RemappedAtFirst(s, p) ==
  [m \in Mirrors |->
     IF m = "wait0"
     THEN [memory_map_read[m] EXCEPT ![gamepak_memory_map[s].physical_index] = Null, ![p] = s]
     ELSE [memory_map_read[m] EXCEPT ![p] = s]]

Remapped(s, p) ==
  [m \in Mirrors |->
     [memory_map_read[m] EXCEPT ![gamepak_memory_map[s].physical_index] = Null, ![p] = s]]

LoadGamepakPage(p) ==
  \E s \in SlotIds :
    /\ Evictable(s)
    /\ memory_map_read' = Remapped(s, p)
    /\ gamepak_memory_map' = [gamepak_memory_map EXCEPT ![s] =
                                [page_timestamp |-> page_time, physical_index |-> p]]
    /\ page_time' = page_time + 1
    /\ gamepak_rom' = [gamepak_rom EXCEPT ![s] = <<game, p>>]

(* A load, the fetch of a translation, a transfer or a write to the clock  *)
(* at a page that has no pointer. Past the end of the game nothing is      *)
(* loaded.                                                                 *)
Access(m, p) ==
  /\ game # NoGame
  /\ memory_map_read[m][p] = Null /\ p < SizeOf[game]
  /\ LoadGamepakPage(p)
  /\ UNCHANGED game

(* init_memory_gamepak. For a large game it clears the map up to 0xD000000. *)
Cleared(m) ==
  [p \in PageIds |-> IF m = "wait2" /\ p >= HalfRange THEN memory_map_read[m][p] ELSE Null]

InitMemoryGamepak(g) ==
  IF Fits(g)
  THEN /\ memory_map_read' = [m \in Mirrors |->
                                [p \in PageIds |-> IF p < SizeOf[g] THEN p ELSE Null]]
       /\ UNCHANGED gamepak_memory_map
  ELSE /\ memory_map_read' = [m \in Mirrors |-> Cleared(m)]
       /\ gamepak_memory_map' = [s \in SlotIds |-> [page_timestamp |-> 0, physical_index |-> 0]]

(* loadROM: load_gamepak_raw reads a game that fits, and of one that does  *)
(* not the header into the first slot; reset_gba follows.                  *)
LoadGamepak(g) ==
  /\ game' = g
  /\ gamepak_rom' = [s \in SlotIds |->
                       IF Fits(g) THEN IF s < SizeOf[g] THEN <<g, s>> ELSE gamepak_rom[s]
                       ELSE IF s = 0 THEN Null ELSE gamepak_rom[s]]
  /\ InitMemoryGamepak(g)
  /\ UNCHANGED page_time

(* reset_gba of the same game. *)
Reset ==
  /\ game # NoGame
  /\ InitMemoryGamepak(game)
  /\ UNCHANGED <<game, page_time, gamepak_rom>>

-----------------------------------------------------------------------------
Init ==
  /\ game = NoGame
  /\ memory_map_read = [m \in Mirrors |-> [p \in PageIds |-> Null]]
  /\ gamepak_memory_map = [s \in SlotIds |-> [page_timestamp |-> 0, physical_index |-> 0]]
  /\ page_time = 0
  /\ gamepak_rom = [s \in SlotIds |-> Null]

Next ==
  \/ \E m \in Mirrors, p \in PageIds : Access(m, p)
  \/ \E g \in Games : LoadGamepak(g)
  \/ Reset

Spec == Init /\ [][Next]_vars

-----------------------------------------------------------------------------
(* The type of the state; memory_map_read points into the buffer           *)
(* (load_gamepak_page, init_memory_gamepak).                               *)
TypeOK ==
  /\ game \in Games \cup {NoGame}
  /\ memory_map_read \in [Mirrors -> [PageIds -> SlotIds \cup {Null}]]
  /\ gamepak_memory_map \in [SlotIds -> [page_timestamp : Nat, physical_index : PageIds]]
  /\ page_time \in Nat
  /\ gamepak_rom \in [SlotIds -> (Games \X PageIds) \cup {Null}]

(* What the map is cleared for and kept up to date: all but the last       *)
(* mirror's second half, where a large game's reset forgets to clear it.   *)
Kept(m, p) == m # "wait2" \/ p < HalfRange

(* A page is read as what it is: wherever the map has a pointer for it,    *)
(* the slot holds that page of the game in the slot, whatever was evicted, *)
(* loaded twice, reset or exchanged before (load_gamepak_page).            *)
MapTrue ==
  \A m \in Mirrors, p \in PageIds :
    Kept(m, p) /\ memory_map_read[m][p] # Null =>
      gamepak_rom[memory_map_read[m][p]] = <<game, p>>

(* A page in memory stays mapped until its slot is loaded with another.    *)
(* Page 0 alone is unmapped at times with a slot that was never used, or   *)
(* an older copy of it: their physical_index is 0 (evict_gamepak_page).    *)
PagesStay ==
  [][\A m \in Mirrors, p \in PageIds :
       LET s == memory_map_read[m][p] IN
       p # 0 /\ s # Null /\ page_time' # page_time /\ memory_map_read'[m][p] # s
         => gamepak_memory_map'[s].physical_index # p]_vars
=============================================================================
