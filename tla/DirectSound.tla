----------------------------- MODULE DirectSound -----------------------------
(***************************************************************************)
(* The two FIFOs of direct sound (sound.c) and the DMA channels that keep  *)
(* them filled (trigger_dma and dma_transfer of memory.c). An overflow of  *)
(* a timer plays one sample of a FIFO; when that leaves it half full or    *)
(* less, the DMA channel that serves it supplies another half.             *)
(*                                                                         *)
(* base and top are the code's only knowledge of a FIFO: as many samples   *)
(* are due as top is ahead of base, modulo its size, so that full and      *)
(* empty look alike. A sample is its serial number among those supplied    *)
(* to the FIFO, or Silence where the memory was cleared. What is mixed     *)
(* into sound_buffer is left out.                                          *)
(***************************************************************************)
EXTENDS Integers, FiniteSets

CONSTANTS
  Half,       \* bytes of one transfer: four words, 16
  Repeats,    \* repeat_type: what the game may choose for sound DMA
  NoChannel   \* DMA_NO_DIRECT_SOUND

Channels == {"A", "B"}
Dmas     == {1, 2}

ASSUME DirectSoundAssumption ==
  /\ Half \in Nat \ {0}
  /\ Repeats \subseteq BOOLEAN
  /\ NoChannel \notin Channels

Size    == 2 * Half
Slots   == 0..(Size - 1)
Silence == 0

VARIABLES
  fifo, base, top,  \* direct_sound_channel[]: fifo, fifo_base, fifo_top
  dma,              \* dma[1], dma[2]
  audio,            \* global_enable_audio, the user's setting
  put,              \* history: samples supplied
  heard,            \* history: the last sample played or given up
  fill,             \* history: samples due, with full and empty told apart
  late,             \* history: old samples played since a DMA serves the FIFO
  flowing           \* history: it has played a sample since

vars == <<fifo, base, top, dma, audio, put, heard, fill, late, flowing>>

InactiveDma ==
  [start_type |-> "inactive", direct_sound_channel |-> NoChannel, repeat |-> FALSE]

Cleared == [ch \in Channels |-> [i \in Slots |-> Silence]]
Zero    == [ch \in Channels |-> 0]

Init ==
  /\ fifo = Cleared /\ base = Zero /\ top = Zero
  /\ dma = [d \in Dmas |-> InactiveDma]
  /\ audio \in BOOLEAN
  /\ put = Zero /\ heard = Zero /\ fill = Zero /\ late = Zero
  /\ flowing = [ch \in Channels |-> FALSE]

-----------------------------------------------------------------------------
(* Indices, modulo Size. *)
At(i, n) == IF i + n >= Size THEN i + n - Size ELSE i + n
Ahead(i, j) == IF j >= i THEN j - i ELSE j - i + Size

(* A bug: the last byte of a transfer is not stored. *)
QueuedShort(slots, t, p, n) ==
  [i \in Slots |-> IF Ahead(t, i) < n - 1 THEN p + Ahead(t, i) + 1 ELSE slots[i]]

(* sound_timer_queue: the n samples after p, from the slot t on. *)
Queued(slots, t, p, n) ==
  [i \in Slots |-> IF Ahead(t, i) < n THEN p + Ahead(t, i) + 1 ELSE slots[i]]

(* A bug: more than half full is asked for too. *)
WantsTooEarly(b, t) == Ahead(b, t) <= Half + 1
(* A bug: only a FIFO of exactly one half is filled. *)
WantsExactlyHalf(b, t) == Ahead(b, t) = Half

Wants(b, t) == Ahead(b, t) <= Half

(* dma[1] and dma[2], where they were started for the FIFO. *)
Serving(ch) == {d \in Dmas : dma[d].direct_sound_channel = ch}

(* dma_transfer without repeat ends the DMA, but not its direct_sound_channel. *)
AfterTransfer(x) == [x EXCEPT !.start_type = IF x.repeat THEN @ ELSE "inactive"]

(* A bug: the FIFO is filled before the sample is taken out of it. *)
FillsFirst(ch) ==
  LET n      == IF Wants(base[ch], top[ch]) THEN Half * Cardinality(Serving(ch)) ELSE 0
      slots  == Queued(fifo[ch], top[ch], put[ch], n)
      played == slots[base[ch]]
      fresh  == played > heard[ch]
  IN /\ audio
     /\ base' = [base EXCEPT ![ch] = At(@, 1)]
     /\ fifo' = [fifo EXCEPT ![ch] = slots]
     /\ top' = [top EXCEPT ![ch] = At(@, n)]
     /\ put' = [put EXCEPT ![ch] = @ + n]
     /\ heard' = [heard EXCEPT ![ch] = IF fresh THEN played ELSE @]
     /\ fill' = [fill EXCEPT ![ch] = Ahead(At(base[ch], 1), At(top[ch], n))]
     /\ late' = [late EXCEPT ![ch] = IF ~fresh /\ Serving(ch) # {} THEN @ + 1 ELSE @]
     /\ flowing' = [flowing EXCEPT ![ch] = @ \/ (fresh /\ Serving(ch) # {})]
     /\ UNCHANGED <<dma, audio>>

(* sound_timer. An empty FIFO is played all the same, and is full of what  *)
(* it has played then. With the sound off nothing is taken out of it, and  *)
(* a full one, with base = top, is taken for empty and filled again.       *)
Timer(ch) ==
  LET played == fifo[ch][base[ch]]
      fresh  == audio /\ played > heard[ch]
      b      == IF audio THEN At(base[ch], 1) ELSE base[ch]
      left   == IF ~audio THEN fill[ch]
                ELSE IF fill[ch] = 0 THEN Size - 1 ELSE fill[ch] - 1
      n      == IF Wants(b, top[ch]) THEN Half * Cardinality(Serving(ch)) ELSE 0
      again  == n > 0 /\ left = Size
  IN /\ base' = [base EXCEPT ![ch] = b]
     /\ fifo' = [fifo EXCEPT ![ch] = Queued(@, top[ch], put[ch], n)]
     /\ top' = [top EXCEPT ![ch] = At(@, n)]
     /\ dma' = [d \in Dmas |-> IF n > 0 /\ d \in Serving(ch) THEN AfterTransfer(dma[d])
                               ELSE dma[d]]
     /\ put' = [put EXCEPT ![ch] = @ + n]
     /\ heard' = [heard EXCEPT ![ch] = IF again THEN put[ch] ELSE IF fresh THEN played ELSE @]
     /\ fill' = [fill EXCEPT ![ch] = IF again THEN n ELSE left + n]
     /\ late' = [late EXCEPT ![ch] =
                  IF audio /\ ~fresh /\ Serving(ch) # {} THEN @ + 1 ELSE @]
     /\ flowing' = [flowing EXCEPT ![ch] = @ \/ (fresh /\ Serving(ch) # {})]
     /\ UNCHANGED audio

(* The game stores one, two or four samples itself, as many as have room.  *)
QueueByHand(ch, n) ==
  /\ Serving(ch) = {}
  /\ fill[ch] + n <= Size
  /\ fifo' = [fifo EXCEPT ![ch] = Queued(@, top[ch], put[ch], n)]
  /\ top' = [top EXCEPT ![ch] = At(@, n)]
  /\ put' = [put EXCEPT ![ch] = @ + n]
  /\ fill' = [fill EXCEPT ![ch] = @ + n]
  /\ UNCHANGED <<base, dma, audio, heard, late, flowing>>

(* trigger_sound with the reset bit of a channel. sound_reset_fifo clears  *)
(* the samples of A, whichever channel it is for, and leaves the indices.  *)
ResetFifo(ch) ==
  /\ fifo' = [fifo EXCEPT !["A"] = Cleared["A"]]
  /\ heard' = [heard EXCEPT !["A"] = put["A"]]
  /\ late' = [late EXCEPT !["A"] = 0]
  /\ flowing' = [flowing EXCEPT !["A"] = FALSE]
  /\ UNCHANGED <<base, top, dma, audio, put, fill>>

-----------------------------------------------------------------------------
(* trigger_dma, for a destination that is a FIFO. The game does not let    *)
(* two DMA channels serve one FIFO.                                        *)
StartDma(d, ch, r) ==
  /\ dma[d].start_type = "inactive"
  /\ \A e \in Dmas : dma[e].start_type = "special" => dma[e].direct_sound_channel # ch
  /\ dma' = [dma EXCEPT ![d] =
              [start_type |-> "special", direct_sound_channel |-> ch, repeat |-> r]]
  /\ UNCHANGED <<fifo, base, top, audio, put, heard, fill, late, flowing>>

StopDma(d) ==
  /\ dma' = [dma EXCEPT ![d].start_type = "inactive", ![d].direct_sound_channel = NoChannel]
  /\ late' = [ch \in Channels |-> IF d \in Serving(ch) THEN 0 ELSE late[ch]]
  /\ flowing' = [ch \in Channels |-> flowing[ch] /\ d \notin Serving(ch)]
  /\ UNCHANGED <<fifo, base, top, audio, put, heard, fill>>

(* The user switches the sound on or off, with the emulator parked.        *)
SetOption ==
  /\ audio' = ~audio
  /\ UNCHANGED <<fifo, base, top, dma, put, heard, fill, late, flowing>>

(* reset_gba: init_main and reset_sound. *)
ResetGba ==
  /\ fifo' = Cleared /\ base' = Zero /\ top' = Zero
  /\ dma' = [d \in Dmas |-> [dma[d] EXCEPT !.start_type = "inactive",
                                           !.direct_sound_channel = NoChannel]]
  /\ put' = Zero /\ heard' = Zero /\ fill' = Zero /\ late' = Zero
  /\ flowing' = [ch \in Channels |-> FALSE]
  /\ UNCHANGED audio

Next ==
  \/ \E ch \in Channels :
       \/ Timer(ch)
       \/ \E n \in {1, 2, 4} : QueueByHand(ch, n)
       \/ ResetFifo(ch)
       \/ \E d \in Dmas, r \in Repeats : StartDma(d, ch, r)
  \/ \E d \in Dmas : StopDma(d)
  \/ SetOption
  \/ ResetGba

Spec == Init /\ [][Next]_vars

-----------------------------------------------------------------------------
(* All indices stay inside the FIFO. *)
TypeOK ==
  /\ fifo \in [Channels -> [Slots -> Nat]]
  /\ base \in [Channels -> Slots] /\ top \in [Channels -> Slots]
  /\ dma \in [Dmas -> [start_type : {"inactive", "special"},
                       direct_sound_channel : Channels \cup {NoChannel},
                       repeat : BOOLEAN]]
  /\ audio \in BOOLEAN
  /\ put \in [Channels -> Nat] /\ heard \in [Channels -> Nat]
  /\ fill \in [Channels -> 0..Size]
  /\ late \in [Channels -> Nat] /\ flowing \in [Channels -> BOOLEAN]

(* No transfer overwrites a sample that is still to be played: the FIFO    *)
(* asks only when it has room, although it cannot tell full from empty.    *)
NoneOverwritten ==
  \A ch \in Channels :
    \A n \in (heard[ch] + 1)..put[ch] : \E i \in Slots : fifo[ch][i] = n

(* Samples are played in the order they were supplied and none is left     *)
(* out, also when the DMA stops and starts again or the FIFO ran empty.    *)
InOrder ==
  [][\A ch \in Channels :
       audio /\ Timer(ch) => heard'[ch] \in {heard[ch], heard[ch] + 1}]_vars

(* While a DMA serves it the FIFO does not run empty: once a sample of it  *)
(* has been played, the one played next is always the next one.            *)
Fed == \A ch \in Channels : flowing[ch] => fifo[ch][base[ch]] = heard[ch] + 1

(* What a FIFO held before, or replays after it ran empty, delays the      *)
(* samples of the DMA by no more than its size.                            *)
SoonHeard == \A ch \in Channels : late[ch] <= Size
=============================================================================
