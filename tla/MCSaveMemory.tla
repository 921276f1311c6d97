---------------------------- MODULE MCSaveMemory ----------------------------
(* Two games with chips that differ, or one with the largest.              *)
EXTENDS SaveMemory, TLC

CONSTANTS g1, g2

SramAndFlash == {g1 :> "sram" @@ g2 :> "flash64"}
LargeFlash   == g1 :> "flash128"
AllChips     == SramAndFlash \cup {g1 :> "eeprom8k" @@ g2 :> "eeprom512", LargeFlash}

(* Nothing is promised to a spoiled game: once all are, the search stops.  *)
SomeGameSound == spoiled # DOMAIN kind

(* A bound: savestates of the large flash only, whose banks they hold.     *)
StatesOfLargeFlash == \A s \in Slots : snap[s] = NoSnap \/ kind = LargeFlash
=============================================================================
