---------------------------- MODULE EepromStore -----------------------------
(***************************************************************************)
(* What an EEPROM promises to the game: words that are read back as they   *)
(* were last written. Resets and savestates change which word the chip is  *)
(* about to send, never the words.                                         *)
(***************************************************************************)
CONSTANTS Words, Values, Blank, Nothing

VARIABLES
  store,   \* the words
  asked,   \* the word the chip has been asked for
  answer   \* what the game read last

vars == <<store, asked, answer>>

Init ==
  /\ store = [w \in Words |-> Blank]
  /\ asked = Nothing
  /\ answer = Nothing

Ask(w) ==
  /\ asked = Nothing
  /\ asked' = w
  /\ UNCHANGED <<store, answer>>

Answer ==
  /\ asked # Nothing
  /\ answer' = store[asked]
  /\ asked' = Nothing
  /\ UNCHANGED store

Put(w, v) ==
  /\ asked = Nothing
  /\ store' = [store EXCEPT ![w] = v]
  /\ UNCHANGED <<asked, answer>>

(* A reset, or a savestate that comes back. *)
Turn ==
  /\ asked' \in Words \cup {Nothing}
  /\ UNCHANGED <<store, answer>>

Next ==
  \/ \E w \in Words : Ask(w) \/ \E v \in Values : Put(w, v)
  \/ Answer
  \/ Turn

Spec == Init /\ [][Next]_vars
=============================================================================
