------------------------- MODULE MCTranslationCache -------------------------
EXTENDS TranslationCache

Word(op, arg) == [op |-> op, arg |-> arg]
Program(code) ==
  [a \in Addr |-> IF a \in DOMAIN code THEN code[a] ELSE Word("exit", 0)]

(* Three EWRAM pages of four words, then IWRAM at 12: a loop on page 0     *)
(* that calls a routine in IWRAM, and code that goes on over two pages.    *)
Loop == Program([a \in {0, 1, 2, 12, 13} |->
                   CASE a = 0 -> Word("op", 1) [] a = 1 -> Word("branch", 12)
                     [] a = 2 -> Word("jump", 0) [] a = 12 -> Word("op", 2)
                     [] a = 13 -> Word("exit", 0)])
TwoPages == Program([a \in {4, 5, 8} |->
                       CASE a = 4 -> Word("op", 1) [] a = 5 -> Word("jump", 8)
                         [] a = 8 -> Word("op", 2)])

AllPrograms == {Loop, TwoPages}
AllEntries == {0, 4, 8, 12}
AllPokes == {<<12, Word("op", 3)>>, <<1, Word("op", 3)>>,
             <<5, Word("branch", 12)>>}

(* Bound of the model: a history ends with the lookup after a flush that   *)
(* forgot a tag.                                                           *)
Trusted == leftover = {} \/ call # "run"
=============================================================================
