------------------------------ MODULE MCEeprom ------------------------------
EXTENDS Eeprom

(* Words whose addresses have bits at both ends of both bytes. *)
MCWordsOf == [k \in Sizes |-> IF k = "512B" THEN {0, 1, 34} ELSE {1, 512, 770}]
MCValues == {{}, {0, 8, 63}}
=============================================================================
