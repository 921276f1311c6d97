-------------------------- MODULE DirectSound_proofs --------------------------
(***************************************************************************)
(* Samples are played in order and in time, for transfers of any size and  *)
(* games whose sound DMA repeats.                                          *)
(***************************************************************************)
EXTENDS DirectSound, FiniteSetTheorems, TLAPS

-----------------------------------------------------------------------------
(* The inductive invariant. *)

(* In the FIFO of the slots s, from b to t, f samples are due; those of    *)
(* them that are still to be heard, h + 1 to p, are the last in it, one    *)
(* after the other. All the others are older.                              *)
Lined(s, b, t, f, p, h) ==
  /\ t = At(b, f) /\ h <= p /\ p - h <= f
  /\ \A j \in Slots :
       IF Ahead(b, j) < f /\ Ahead(b, j) >= f - (p - h)
       THEN s[j] = p - f + Ahead(b, j) + 1
       ELSE s[j] <= h

(* How many old samples are played before the next one. *)
Old(f, p, h) == IF f = 0 THEN Size ELSE f - (p - h)

InLine == \A ch \in Channels : Lined(fifo[ch], base[ch], top[ch], fill[ch], put[ch], heard[ch])

Served ==
  /\ \A d \in Dmas :
       IF dma[d].direct_sound_channel = NoChannel THEN dma[d].start_type = "inactive"
       ELSE dma[d].start_type = "special" /\ dma[d].repeat
  /\ \A ch \in Channels, d, e \in Dmas : d \in Serving(ch) /\ e \in Serving(ch) => d = e

InTime ==
  \A ch \in Channels :
    /\ flowing[ch] => Serving(ch) # {} /\ put[ch] - heard[ch] = fill[ch] /\ fill[ch] > 0
    /\ Serving(ch) = {} => late[ch] = 0
    /\ late[ch] + Old(fill[ch], put[ch], heard[ch]) <= Size

Inv == TypeOK /\ InLine /\ Served /\ InTime

-----------------------------------------------------------------------------
(* Indices and slots. *)

LEMMA HalfPositive == Half \in Nat \ {0} /\ Size = 2 * Half /\ Size \in Nat /\ NoChannel \notin Channels
  BY DirectSoundAssumption DEF Size

LEMMA Indices ==
  ASSUME NEW b \in Slots, NEW j \in Slots, NEW n \in 0..Size
  PROVE  /\ At(b, n) \in Slots /\ Ahead(b, j) \in Slots /\ At(b, Ahead(b, j)) = j
         /\ Ahead(b, At(b, n)) = IF n = Size THEN 0 ELSE n
  BY HalfPositive DEF At, Ahead, Slots

LEMMA QueuedTypes ==
  ASSUME NEW s \in [Slots -> Nat], NEW t \in Slots, NEW p \in Nat, NEW n \in Nat
  PROVE  Queued(s, t, p, n) \in [Slots -> Nat]
<1>1. \A i \in Slots : Ahead(t, i) \in Nat
  BY HalfPositive DEF Ahead, Slots
<1> QED BY <1>1 DEF Queued

(* Samples queued behind the others stay in line. *)
LEMMA QueueInLine ==
  ASSUME NEW s \in [Slots -> Nat], NEW b \in Slots, NEW t, NEW f \in 0..Size, NEW p \in Nat,
         NEW h \in Nat, Lined(s, b, t, f, p, h), NEW n \in Nat, f + n <= Size
  PROVE  Lined(Queued(s, t, p, n), b, At(t, n), f + n, p + n, h)
<1> USE HalfPositive
<1>1. t = At(b, f) /\ h <= p /\ p - h <= f
  BY DEF Lined
<1>2. At(t, n) = At(b, f + n)
  BY <1>1 DEF At, Slots
<1>3. ASSUME NEW j \in Slots
      PROVE  IF Ahead(b, j) < f + n /\ Ahead(b, j) >= (f + n) - (p + n - h)
             THEN Queued(s, t, p, n)[j] = (p + n) - (f + n) + Ahead(b, j) + 1
             ELSE Queued(s, t, p, n)[j] <= h
  <2>1. Ahead(t, j) = IF Ahead(b, j) >= f THEN Ahead(b, j) - f ELSE Ahead(b, j) - f + Size
    BY <1>1 DEF At, Ahead, Slots
  <2>2. Ahead(b, j) \in Slots
    BY Indices
  <2>3. Queued(s, t, p, n)[j] = IF Ahead(t, j) < n THEN p + Ahead(t, j) + 1 ELSE s[j]
    BY DEF Queued
  <2>4. IF Ahead(b, j) < f /\ Ahead(b, j) >= f - (p - h)
        THEN s[j] = p - f + Ahead(b, j) + 1 ELSE s[j] <= h
    BY DEF Lined
  <2>5. Ahead(b, j) \in Nat /\ Ahead(b, j) < Size
    BY <2>2 DEF Slots
  <2>6. CASE Ahead(b, j) < f
    <3>1. ~(Ahead(t, j) < n)
      BY <2>1, <2>5, <2>6
    <3> QED BY <1>1, <2>3, <2>4, <2>5, <2>6, <3>1
  <2>7. CASE Ahead(b, j) >= f
    <3>1. Ahead(t, j) = Ahead(b, j) - f
      BY <2>1, <2>7
    <3> QED BY <1>1, <2>3, <2>4, <2>5, <2>7, <3>1
  <2> QED BY <2>5, <2>6, <2>7
<1> QED BY <1>1, <1>2, <1>3 DEF Lined

(* A sample is played: the next one, or an old one. *)
LEMMA PlayInLine ==
  ASSUME NEW s \in [Slots -> Nat], NEW b \in Slots, NEW t, NEW f \in 0..Size, NEW p \in Nat,
         NEW h \in Nat, Lined(s, b, t, f, p, h),
         NEW g, g = IF f = 0 THEN Size - 1 ELSE f - 1,
         NEW k, k = IF s[b] > h THEN s[b] ELSE h
  PROVE  /\ Lined(s, At(b, 1), t, g, p, k) /\ g \in 0..(Size - 1) /\ k \in {h, h + 1}
         /\ s[b] > h <=> f > 0 /\ p - h = f
         /\ s[b] > h => s[b] = h + 1
<1> USE HalfPositive
<1>1. t = At(b, f) /\ h <= p /\ p - h <= f /\ s[b] \in Nat /\ Ahead(b, b) = 0
  BY DEF Lined, Ahead, Slots
<1>2. IF 0 < f /\ 0 >= f - (p - h) THEN s[b] = p - f + 1 ELSE s[b] <= h
  BY <1>1 DEF Lined
<1>3. t = At(At(b, 1), g)
  BY <1>1 DEF At, Slots
<1>4. k \in {h, h + 1} /\ (s[b] > h <=> f > 0 /\ p - h = f) /\ (s[b] > h => s[b] = h + 1)
  BY <1>1, <1>2
<1>5. ASSUME NEW j \in Slots
      PROVE  IF Ahead(At(b, 1), j) < g /\ Ahead(At(b, 1), j) >= g - (p - k)
             THEN s[j] = p - g + Ahead(At(b, 1), j) + 1 ELSE s[j] <= k
  <2>1. Ahead(At(b, 1), j) = IF Ahead(b, j) = 0 THEN Size - 1 ELSE Ahead(b, j) - 1
    BY DEF At, Ahead, Slots
  <2>2. Ahead(b, j) \in Slots /\ (Ahead(b, j) = 0 => j = b) /\ s[j] \in Nat
    BY DEF Ahead, Slots
  <2>3. IF Ahead(b, j) < f /\ Ahead(b, j) >= f - (p - h)
        THEN s[j] = p - f + Ahead(b, j) + 1 ELSE s[j] <= h
    BY DEF Lined
  <2>4. Ahead(b, j) \in Nat /\ Ahead(b, j) < Size
    BY <2>2 DEF Slots
  <2>5. CASE j = b
    BY <1>1, <1>2, <1>4, <2>1, <2>5
  <2>6. CASE j # b
    <3>1. Ahead(At(b, 1), j) = Ahead(b, j) - 1 /\ Ahead(b, j) > 0
      BY <2>1, <2>2, <2>4, <2>6
    <3> QED BY <1>1, <1>2, <1>4, <2>2, <2>3, <2>4, <3>1
  <2> QED BY <2>5, <2>6
<1> QED BY <1>1, <1>3, <1>4, <1>5 DEF Lined

(* A full FIFO that is taken for empty. *)
LEMMA FullAsEmpty ==
  ASSUME NEW s \in [Slots -> Nat], NEW b \in Slots, NEW t, NEW p \in Nat, NEW h \in Nat,
         Lined(s, b, t, Size, p, h)
  PROVE  Lined(s, b, t, 0, p, p)
<1> USE HalfPositive
<1>1. t = At(b, 0)
  BY DEF Lined, At, Slots
<1>2. ASSUME NEW j \in Slots
      PROVE  s[j] <= p /\ Ahead(b, j) \in Nat
  <2>1. Ahead(b, j) \in Nat /\ Ahead(b, j) < Size /\ s[j] \in Nat
    BY DEF Ahead, Slots
  <2>2. h <= p /\ IF Ahead(b, j) < Size /\ Ahead(b, j) >= Size - (p - h)
                  THEN s[j] = p - Size + Ahead(b, j) + 1 ELSE s[j] <= h
    BY DEF Lined
  <2> QED BY <2>1, <2>2
<1> QED BY <1>1, <1>2 DEF Lined

-----------------------------------------------------------------------------
(* One overflow of a timer. *)

(* A DMA channel at most serves the FIFO, and goes on serving it. *)
LEMMA OneServes ==
  ASSUME Served, TypeOK, NEW ch \in Channels
  PROVE  /\ Cardinality(Serving(ch)) = IF Serving(ch) = {} THEN 0 ELSE 1
         /\ \A d \in Serving(ch) : AfterTransfer(dma[d]) = dma[d]
<1>1. CASE Serving(ch) = {}
  BY <1>1, FS_EmptySet
<1>2. CASE Serving(ch) # {}
  <2>1. PICK d \in Serving(ch) : TRUE
    BY <1>2
  <2>2. Serving(ch) = {d}
    BY <2>1 DEF Served, Serving
  <2>3. Cardinality({d}) = 1
    BY FS_Singleton
  <2>4. dma[d].repeat /\ d \in Dmas
    BY <2>1, DirectSoundAssumption DEF Served, Serving
  <2>5. AfterTransfer(dma[d]) = dma[d]
    BY <2>4 DEF AfterTransfer, TypeOK
  <2> QED BY <1>2, <2>2, <2>3, <2>5
<1> QED BY <1>1, <1>2

(* What is known of the FIFO that is played from, and of its DMA. *)
LEMMA OneFifo ==
  ASSUME Inv, NEW ch \in Channels
  PROVE  /\ fifo[ch] \in [Slots -> Nat] /\ base[ch] \in Slots /\ top[ch] \in Slots
         /\ fill[ch] \in 0..Size /\ put[ch] \in Nat /\ heard[ch] \in Nat
         /\ late[ch] \in Nat /\ flowing[ch] \in BOOLEAN
         /\ Lined(fifo[ch], base[ch], top[ch], fill[ch], put[ch], heard[ch])
         /\ flowing[ch] => Serving(ch) # {} /\ put[ch] - heard[ch] = fill[ch] /\ fill[ch] > 0
         /\ Serving(ch) = {} => late[ch] = 0
         /\ late[ch] + Old(fill[ch], put[ch], heard[ch]) <= Size
  BY DEF Inv, TypeOK, InLine, InTime

(* Whether the FIFO asks for samples. *)
LEMMA Asks ==
  ASSUME NEW b \in Slots, NEW f \in 0..Size
  PROVE  Wants(b, At(b, f)) <=> f <= Half \/ f = Size
<1>1. Ahead(b, At(b, f)) = IF f = Size THEN 0 ELSE f
  BY HalfPositive DEF At, Ahead, Slots
<1> QED BY <1>1, HalfPositive DEF Wants

(* What an overflow leaves of its FIFO. *)
LEMMA TimerPlays ==
  ASSUME Inv, NEW ch \in Channels, Timer(ch)
  PROVE  /\ dma' = dma /\ Serving(ch)' = Serving(ch)
         /\ fifo' = [fifo EXCEPT ![ch] = fifo'[ch]] /\ fifo'[ch] \in [Slots -> Nat]
         /\ base' = [base EXCEPT ![ch] = base'[ch]] /\ base'[ch] \in Slots
         /\ top' = [top EXCEPT ![ch] = top'[ch]] /\ top'[ch] \in Slots
         /\ fill' = [fill EXCEPT ![ch] = fill'[ch]] /\ fill'[ch] \in 0..Size
         /\ put' = [put EXCEPT ![ch] = put'[ch]] /\ put'[ch] \in Nat
         /\ heard' = [heard EXCEPT ![ch] = heard'[ch]] /\ heard'[ch] \in Nat
         /\ late' = [late EXCEPT ![ch] = late'[ch]] /\ late'[ch] \in Nat
         /\ flowing' = [flowing EXCEPT ![ch] = flowing'[ch]] /\ flowing'[ch] \in BOOLEAN
         /\ UNCHANGED audio
         /\ Lined(fifo'[ch], base'[ch], top'[ch], fill'[ch], put'[ch], heard'[ch])
         /\ flowing'[ch] => Serving(ch) # {} /\ put'[ch] - heard'[ch] = fill'[ch] /\ fill'[ch] > 0
         /\ Serving(ch) = {} => late'[ch] = 0
         /\ late'[ch] + Old(fill'[ch], put'[ch], heard'[ch]) <= Size
         /\ audio => heard'[ch] \in {heard[ch], heard[ch] + 1}
<1> DEFINE s == fifo[ch]  t == top[ch]  f == fill[ch]  p == put[ch]  h == heard[ch]
           on == Serving(ch) # {}
           played == s[base[ch]]
           fresh == audio /\ played > h
           b == IF audio THEN At(base[ch], 1) ELSE base[ch]
           left == IF ~audio THEN f ELSE IF f = 0 THEN Size - 1 ELSE f - 1
           n == IF Wants(b, t) THEN Half * Cardinality(Serving(ch)) ELSE 0
           again == n > 0 /\ left = Size
           k == IF fresh THEN played ELSE h
           f2 == IF again THEN n ELSE left + n
           h2 == IF again THEN p ELSE k
           l2 == IF audio /\ ~fresh /\ on THEN late[ch] + 1 ELSE late[ch]
<1> USE HalfPositive
<1>1. /\ s \in [Slots -> Nat] /\ base[ch] \in Slots /\ t \in Slots /\ f \in 0..Size
      /\ p \in Nat /\ h \in Nat /\ late[ch] \in Nat /\ flowing[ch] \in BOOLEAN
      /\ Lined(s, base[ch], t, f, p, h)
      /\ flowing[ch] => on /\ p - h = f /\ f > 0
      /\ ~on => late[ch] = 0
      /\ late[ch] + Old(f, p, h) <= Size
  BY OneFifo
<1>2. audio \in BOOLEAN /\ played \in Nat
  BY <1>1 DEF Inv, TypeOK
<1>3. h <= p /\ p - h <= f
  BY <1>1 DEF Lined
<1>4. /\ Lined(s, b, t, left, p, k) /\ left \in 0..Size /\ b \in Slots /\ k \in {h, h + 1}
      /\ fresh <=> audio /\ f > 0 /\ p - h = f
      /\ k = IF fresh THEN h + 1 ELSE h
      /\ audio => left < Size
  <2>1. CASE audio
    <3> DEFINE g == IF f = 0 THEN Size - 1 ELSE f - 1
               m == IF s[base[ch]] > h THEN s[base[ch]] ELSE h
    <3>1. /\ Lined(s, At(base[ch], 1), t, g, p, m) /\ g \in 0..(Size - 1) /\ m \in {h, h + 1}
          /\ s[base[ch]] > h <=> f > 0 /\ p - h = f
          /\ s[base[ch]] > h => s[base[ch]] = h + 1
      <4> HIDE DEF g, m
      <4>1. g = IF f = 0 THEN Size - 1 ELSE f - 1
        BY DEF g
      <4>2. m = IF s[base[ch]] > h THEN s[base[ch]] ELSE h
        BY DEF m
      <4> QED BY <1>1, <4>1, <4>2, PlayInLine
    <3>2. At(base[ch], 1) \in Slots
      BY <1>1 DEF At, Slots
    <3>3. left = g /\ k = m /\ b = At(base[ch], 1)
      BY <2>1
    <3> QED BY <2>1, <1>1, <3>1, <3>2, <3>3
  <2>2. CASE ~audio
    BY <1>1, <2>2
  <2> QED BY <1>2, <2>1, <2>2
<1>5. /\ Cardinality(Serving(ch)) = IF Serving(ch) = {} THEN 0 ELSE 1
      /\ \A d \in Serving(ch) : AfterTransfer(dma[d]) = dma[d]
  BY OneServes DEF Inv
<1>6. Wants(b, t) <=> left <= Half \/ left = Size
  <2>1. t = At(b, left)
    BY <1>4 DEF Lined
  <2> HIDE DEF b, left
  <2> QED BY <1>4, <2>1, Asks
<1>7. n = IF on /\ (left <= Half \/ left = Size) THEN Half ELSE 0
  BY <1>5, <1>6
<1>8. /\ f2 \in 0..Size /\ h2 \in Nat /\ l2 \in Nat
      /\ flowing[ch] \/ (fresh /\ on) => on /\ p + n - h2 = f2 /\ f2 > 0
      /\ ~on => l2 = 0
      /\ l2 + Old(f2, p + n, h2) <= Size
  <2>1. fresh \in BOOLEAN /\ on \in BOOLEAN
    OBVIOUS
  <2>2. /\ left = IF ~audio THEN f ELSE IF f = 0 THEN Size - 1 ELSE f - 1
        /\ f2 = IF n > 0 /\ left = Size THEN n ELSE left + n
        /\ h2 = IF n > 0 /\ left = Size THEN p ELSE k
        /\ l2 = IF audio /\ ~fresh /\ on THEN late[ch] + 1 ELSE late[ch]
    OBVIOUS
  <2>3. fresh <=> audio /\ f > 0 /\ p - h = f
    BY <1>4
  <2>4. k = IF fresh THEN h + 1 ELSE h
    BY <1>4
  <2> HIDE DEF fresh, on, left, n, k, f2, h2, l2, f, p, h
  <2>5. f2 \in 0..Size /\ h2 \in Nat /\ l2 \in Nat /\ (~on => l2 = 0)
    BY <1>1, <1>2, <1>3, <1>7, <2>1, <2>2, <2>3, <2>4
  <2>6. flowing[ch] \/ (fresh /\ on) => on /\ p + n - h2 = f2 /\ f2 > 0
    BY <1>1, <1>2, <1>3, <1>7, <2>1, <2>2, <2>3, <2>4
  <2>7. l2 + Old(f2, p + n, h2) <= Size
    <3>1. CASE ~audio
      BY <1>1, <1>2, <1>3, <1>7, <2>1, <2>2, <2>3, <2>4, <3>1 DEF Old
    <3>2. CASE audio /\ fresh
      BY <1>1, <1>2, <1>3, <1>7, <2>1, <2>2, <2>3, <2>4, <3>2 DEF Old
    <3>3. CASE audio /\ ~fresh
      BY <1>1, <1>2, <1>3, <1>7, <2>1, <2>2, <2>3, <2>4, <3>3 DEF Old
    <3> QED BY <3>1, <3>2, <3>3
  <2> QED BY <2>5, <2>6, <2>7
<1>9. Lined(Queued(s, t, p, n), b, At(t, n), f2, p + n, h2)
  <2>1. CASE again
    <3>1. Lined(s, b, t, 0, p, p)
      <4>1. Lined(s, b, t, Size, p, k) /\ k \in Nat
        BY <1>1, <1>4, <2>1
      <4> HIDE DEF b, k, s, t, p
      <4> QED BY <1>1, <1>4, <4>1, FullAsEmpty
    <3>2. 0 + n <= Size /\ n \in Nat
      BY <1>7
    <3>3. Lined(Queued(s, t, p, n), b, At(t, n), 0 + n, p + n, p)
      <4> HIDE DEF b, n, s, t, p
      <4>1. 0 \in 0..Size
        OBVIOUS
      <4> QED BY <1>1, <1>4, <3>1, <3>2, <4>1, QueueInLine
    <3>4. f2 = 0 + n /\ h2 = p
      BY <2>1, <3>2
    <3> HIDE DEF f2, h2, b, n, s, t, p
    <3> QED BY <3>3, <3>4
  <2>2. CASE ~again
    <3>1. left + n <= Size /\ n \in Nat /\ k \in Nat
      BY <1>1, <1>4, <1>7, <2>2
    <3>2. Lined(Queued(s, t, p, n), b, At(t, n), left + n, p + n, k)
      <4> HIDE DEF b, n, s, t, p, left, k
      <4> QED BY <1>1, <1>4, <3>1, QueueInLine
    <3>3. f2 = left + n /\ h2 = k
      BY <2>2
    <3> HIDE DEF f2, h2, b, n, s, t, p, left, k
    <3> QED BY <3>2, <3>3
  <2> QED BY <2>1, <2>2
<1>10. /\ fifo' = [fifo EXCEPT ![ch] = Queued(s, t, p, n)]
       /\ base' = [base EXCEPT ![ch] = b] /\ top' = [top EXCEPT ![ch] = At(t, n)]
       /\ put' = [put EXCEPT ![ch] = p + n] /\ heard' = [heard EXCEPT ![ch] = h2]
       /\ fill' = [fill EXCEPT ![ch] = f2] /\ late' = [late EXCEPT ![ch] = l2]
       /\ flowing' = [flowing EXCEPT ![ch] = flowing[ch] \/ (fresh /\ on)]
       /\ dma' = [d \in Dmas |-> IF n > 0 /\ d \in Serving(ch) THEN AfterTransfer(dma[d])
                                 ELSE dma[d]]
       /\ UNCHANGED audio
  BY <1>1 DEF Timer, Inv, TypeOK
<1>11. /\ fifo'[ch] = Queued(s, t, p, n) /\ base'[ch] = b /\ top'[ch] = At(t, n)
       /\ put'[ch] = p + n /\ heard'[ch] = h2 /\ fill'[ch] = f2 /\ late'[ch] = l2
       /\ flowing'[ch] = (flowing[ch] \/ (fresh /\ on))
  BY <1>10 DEF Inv, TypeOK
<1>12. dma' = dma
  BY <1>5, <1>10 DEF Inv, TypeOK
<1>13. Serving(ch)' = Serving(ch)
  BY <1>12 DEF Serving
<1>14. Queued(s, t, p, n) \in [Slots -> Nat] /\ At(t, n) \in Slots /\ p + n \in Nat
  <2>1. n \in Nat /\ n <= Size
    BY <1>7
  <2>2. At(t, n) \in Slots
    BY <1>1, <2>1 DEF At, Slots
  <2>3. s \in [Slots -> Nat] /\ t \in Slots /\ p \in Nat
    BY <1>1
  <2>4. p + n \in Nat
    BY <2>1, <2>3
  <2>5. Queued(s, t, p, n) \in [Slots -> Nat]
    <3> HIDE DEF s, t, p, n
    <3> QED BY <2>1, <2>3, QueuedTypes
  <2> QED BY <2>2, <2>4, <2>5
<1>15. audio => h2 \in {h, h + 1}
  BY <1>4
<1> HIDE DEF s, t, f, p, h, on, played, fresh, b, left, n, again, k, f2, h2, l2
<1>16. (flowing[ch] \/ (fresh /\ on)) \in BOOLEAN
  OBVIOUS
<1>17. /\ Lined(fifo'[ch], base'[ch], top'[ch], fill'[ch], put'[ch], heard'[ch])
       /\ late'[ch] + Old(fill'[ch], put'[ch], heard'[ch]) <= Size
  BY <1>8, <1>9, <1>11
<1>18. /\ flowing'[ch] => on /\ put'[ch] - heard'[ch] = fill'[ch] /\ fill'[ch] > 0
       /\ ~on => late'[ch] = 0
  <2>1. flowing'[ch] => on /\ p + n - h2 = f2 /\ f2 > 0
    BY <1>8, <1>11, Zenon
  <2>2. put'[ch] = p + n /\ heard'[ch] = h2 /\ fill'[ch] = f2 /\ late'[ch] = l2
    BY <1>11
  <2>3. ~on => l2 = 0
    BY <1>8
  <2>4. p + n - h2 = f2 /\ f2 > 0 => put'[ch] - heard'[ch] = fill'[ch] /\ fill'[ch] > 0
    <3>1. p \in Nat /\ n \in Nat /\ h2 \in Nat /\ f2 \in Nat
      BY <1>1, <1>7, <1>8 DEF p
    <3> QED BY <2>2, <3>1
  <2>5. ~on => late'[ch] = 0
    BY <2>2, <2>3
  <2> QED BY <2>1, <2>4, <2>5, Zenon
<1>19. /\ fifo'[ch] \in [Slots -> Nat] /\ base'[ch] \in Slots /\ top'[ch] \in Slots
       /\ fill'[ch] \in 0..Size /\ put'[ch] \in Nat /\ heard'[ch] \in Nat
       /\ late'[ch] \in Nat
  BY <1>4, <1>8, <1>11, <1>14
<1>20. flowing'[ch] \in BOOLEAN
  BY <1>11, <1>16
<1>21. /\ fifo' = [fifo EXCEPT ![ch] = fifo'[ch]] /\ base' = [base EXCEPT ![ch] = base'[ch]]
       /\ top' = [top EXCEPT ![ch] = top'[ch]] /\ fill' = [fill EXCEPT ![ch] = fill'[ch]]
       /\ put' = [put EXCEPT ![ch] = put'[ch]] /\ heard' = [heard EXCEPT ![ch] = heard'[ch]]
       /\ late' = [late EXCEPT ![ch] = late'[ch]]
  BY <1>10, <1>11
<1>22. flowing' = [flowing EXCEPT ![ch] = flowing'[ch]]
  BY <1>10, <1>11
<1>23. audio => heard'[ch] \in {heard[ch], heard[ch] + 1}
  BY <1>11, <1>15 DEF h
<1> QED BY <1>10, <1>12, <1>13, <1>17, <1>18, <1>19, <1>20, <1>21, <1>22, <1>23 DEF on

-----------------------------------------------------------------------------
(* The invariant holds at the start, and every step keeps it.              *)

(* Old samples are never more than the FIFO holds. *)
LEMMA OldFits ==
  ASSUME NEW f \in 0..Size, NEW p \in Nat, NEW h \in Nat, h <= p, p - h <= f
  PROVE  Old(f, p, h) \in 0..Size
  BY HalfPositive DEF Old

(* A FIFO that was cleared has nothing in it that is still to be played. *)
LEMMA ClearedInLine ==
  ASSUME NEW ch \in Channels, NEW b \in Slots, NEW t, NEW f \in 0..Size, t = At(b, f),
         NEW p \in Nat
  PROVE  Lined(Cleared[ch], b, t, f, p, p)
<1>1. \A j \in Slots : Ahead(b, j) \in Nat
  BY HalfPositive DEF Ahead, Slots
<1> QED BY <1>1, HalfPositive DEF Lined, Cleared, Silence

LEMMA TimerKeeps ==
  ASSUME Inv, NEW ch \in Channels, Timer(ch)
  PROVE  Inv'
<1>1. TypeOK'
  BY TimerPlays DEF Inv, TypeOK
<1>2. InLine'
  <2>1. ASSUME NEW c \in Channels
        PROVE  Lined(fifo[c], base[c], top[c], fill[c], put[c], heard[c])'
    <3>1. CASE c = ch
      BY <3>1, TimerPlays
    <3>2. CASE c # ch
      <4>1. /\ fifo'[c] = fifo[c] /\ base'[c] = base[c] /\ top'[c] = top[c]
            /\ fill'[c] = fill[c] /\ put'[c] = put[c] /\ heard'[c] = heard[c]
        BY <3>2, TimerPlays DEF Inv, TypeOK
      <4> QED BY <4>1, OneFifo
    <3> QED BY <3>1, <3>2
  <2> QED BY <2>1 DEF InLine
<1>3. Served'
  BY TimerPlays DEF Inv, Served, Serving
<1>4. InTime'
  <2>1. ASSUME NEW c \in Channels
        PROVE  (/\ flowing[c] => Serving(c) # {} /\ put[c] - heard[c] = fill[c] /\ fill[c] > 0
                /\ Serving(c) = {} => late[c] = 0
                /\ late[c] + Old(fill[c], put[c], heard[c]) <= Size)'
    <3>1. CASE c = ch
      BY <3>1, TimerPlays
    <3>2. CASE c # ch
      <4>1. /\ flowing'[c] = flowing[c] /\ fill'[c] = fill[c] /\ put'[c] = put[c]
            /\ heard'[c] = heard[c] /\ late'[c] = late[c]
        BY <3>2, TimerPlays DEF Inv, TypeOK
      <4>2. Serving(c)' = Serving(c)
        BY TimerPlays DEF Serving
      <4> QED BY <4>1, <4>2, OneFifo
    <3> QED BY <3>1, <3>2
  <2> QED BY <2>1 DEF InTime
<1> QED BY <1>1, <1>2, <1>3, <1>4 DEF Inv

LEMMA QueueKeeps ==
  ASSUME Inv, NEW ch \in Channels, NEW n \in {1, 2, 4}, QueueByHand(ch, n)
  PROVE  Inv'
<1>1. /\ fifo[ch] \in [Slots -> Nat] /\ base[ch] \in Slots /\ top[ch] \in Slots
      /\ fill[ch] \in 0..Size /\ put[ch] \in Nat /\ heard[ch] \in Nat /\ late[ch] \in Nat
      /\ Lined(fifo[ch], base[ch], top[ch], fill[ch], put[ch], heard[ch])
      /\ Serving(ch) = {} /\ late[ch] = 0 /\ ~flowing[ch]
  BY OneFifo DEF QueueByHand
<1>2. n \in Nat /\ n > 0 /\ fill[ch] + n <= Size
  BY DEF QueueByHand
<1>3. Lined(Queued(fifo[ch], top[ch], put[ch], n), base[ch], At(top[ch], n), fill[ch] + n,
            put[ch] + n, heard[ch])
  BY <1>1, <1>2, QueueInLine
<1>4. /\ Queued(fifo[ch], top[ch], put[ch], n) \in [Slots -> Nat]
      /\ At(top[ch], n) \in Slots /\ fill[ch] + n \in 0..Size /\ put[ch] + n \in Nat
  <2>1. Queued(fifo[ch], top[ch], put[ch], n) \in [Slots -> Nat]
    BY <1>1, <1>2, QueuedTypes
  <2>2. fill[ch] + n \in 0..Size /\ put[ch] + n \in Nat
    BY <1>1, <1>2, HalfPositive
  <2>3. At(top[ch], n) \in Slots
    <3>1. n \in 0..Size
      BY <1>1, <1>2, HalfPositive
    <3> QED BY <1>1, <3>1, Indices
  <2> QED BY <2>1, <2>2, <2>3
<1>5. TypeOK'
  BY <1>4 DEF QueueByHand, Inv, TypeOK
<1>6. InLine'
  <2>1. ASSUME NEW c \in Channels
        PROVE  Lined(fifo[c], base[c], top[c], fill[c], put[c], heard[c])'
    <3>1. CASE c = ch
      BY <1>3, <3>1 DEF QueueByHand, Inv, TypeOK
    <3>2. CASE c # ch
      <4>1. /\ fifo'[c] = fifo[c] /\ base'[c] = base[c] /\ top'[c] = top[c]
            /\ fill'[c] = fill[c] /\ put'[c] = put[c] /\ heard'[c] = heard[c]
        BY <3>2 DEF QueueByHand, Inv, TypeOK
      <4> QED BY <4>1, OneFifo
    <3> QED BY <3>1, <3>2
  <2> QED BY <2>1 DEF InLine
<1>7. Served'
  BY DEF QueueByHand, Inv, Served, Serving
<1>8. InTime'
  <2>1. ASSUME NEW c \in Channels
        PROVE  (/\ flowing[c] => Serving(c) # {} /\ put[c] - heard[c] = fill[c] /\ fill[c] > 0
                /\ Serving(c) = {} => late[c] = 0
                /\ late[c] + Old(fill[c], put[c], heard[c]) <= Size)'
    <3>1. flowing' = flowing /\ late' = late /\ heard' = heard /\ Serving(c)' = Serving(c)
      BY DEF QueueByHand, Serving
    <3>2. CASE c = ch
      <4>1. fill'[ch] = fill[ch] + n /\ put'[ch] = put[ch] + n
        BY <1>1 DEF QueueByHand, Inv, TypeOK
      <4>2. heard[ch] <= put[ch] /\ put[ch] - heard[ch] <= fill[ch]
        BY <1>1 DEF Lined
      <4>3. Old(fill[ch] + n, put[ch] + n, heard[ch]) \in 0..Size
        <5>1. /\ heard[ch] <= put[ch] + n
              /\ (put[ch] + n) - heard[ch] <= fill[ch] + n
          BY <1>1, <1>2, <4>2
        <5> QED BY <1>1, <1>4, <5>1, OldFits
      <4> QED BY <1>1, <3>1, <3>2, <4>1, <4>3, HalfPositive
    <3>3. CASE c # ch
      <4>1. fill'[c] = fill[c] /\ put'[c] = put[c]
        BY <3>3 DEF QueueByHand, Inv, TypeOK
      <4> QED BY <3>1, <4>1, OneFifo
    <3> QED BY <3>2, <3>3
  <2> QED BY <2>1 DEF InTime
<1> QED BY <1>5, <1>6, <1>7, <1>8 DEF Inv

LEMMA ResetFifoKeeps ==
  ASSUME Inv, NEW ch \in Channels, ResetFifo(ch)
  PROVE  Inv'
<1>1. Cleared["A"] \in [Slots -> Nat] /\ "A" \in Channels
  BY DEF Cleared, Silence, Channels
<1>2. TypeOK'
  BY <1>1 DEF ResetFifo, Inv, TypeOK
<1>3. InLine'
  <2>1. ASSUME NEW c \in Channels
        PROVE  Lined(fifo[c], base[c], top[c], fill[c], put[c], heard[c])'
    <3>1. base' = base /\ top' = top /\ fill' = fill /\ put' = put
      BY DEF ResetFifo
    <3>2. CASE c = "A"
      <4>1. fifo'[c] = Cleared[c] /\ heard'[c] = put[c]
        BY <3>2 DEF ResetFifo, Inv, TypeOK
      <4>2. top[c] = At(base[c], fill[c])
        BY OneFifo DEF Lined
      <4>3. Lined(Cleared[c], base[c], top[c], fill[c], put[c], put[c])
        BY <4>2, OneFifo, ClearedInLine
      <4> QED BY <3>1, <4>1, <4>3
    <3>3. CASE c # "A"
      <4>1. fifo'[c] = fifo[c] /\ heard'[c] = heard[c]
        BY <3>3 DEF ResetFifo, Inv, TypeOK
      <4> QED BY <3>1, <4>1, OneFifo
    <3> QED BY <3>2, <3>3
  <2> QED BY <2>1 DEF InLine
<1>4. Served'
  BY DEF ResetFifo, Inv, Served, Serving
<1>5. InTime'
  <2>1. ASSUME NEW c \in Channels
        PROVE  (/\ flowing[c] => Serving(c) # {} /\ put[c] - heard[c] = fill[c] /\ fill[c] > 0
                /\ Serving(c) = {} => late[c] = 0
                /\ late[c] + Old(fill[c], put[c], heard[c]) <= Size)'
    <3>1. fill' = fill /\ put' = put /\ Serving(c)' = Serving(c)
      BY DEF ResetFifo, Serving
    <3>2. CASE c = "A"
      <4>1. heard'[c] = put[c] /\ late'[c] = 0 /\ ~flowing'[c]
        BY <3>2 DEF ResetFifo, Inv, TypeOK
      <4>2. fill[c] \in 0..Size /\ put[c] \in Nat
        BY OneFifo
      <4>3. Old(fill[c], put[c], put[c]) \in 0..Size
        BY <4>2, OldFits
      <4> QED BY <3>1, <4>1, <4>3, HalfPositive
    <3>3. CASE c # "A"
      <4>1. flowing'[c] = flowing[c] /\ heard'[c] = heard[c] /\ late'[c] = late[c]
        BY <3>3 DEF ResetFifo, Inv, TypeOK
      <4> QED BY <3>1, <4>1, OneFifo
    <3> QED BY <3>2, <3>3
  <2> QED BY <2>1 DEF InTime
<1> QED BY <1>2, <1>3, <1>4, <1>5 DEF Inv

LEMMA StartDmaKeeps ==
  ASSUME Inv, NEW d \in Dmas, NEW ch \in Channels, StartDma(d, ch, TRUE)
  PROVE  Inv'
<1>1. /\ UNCHANGED <<fifo, base, top, audio, put, heard, fill, late, flowing>>
      /\ dma' = [dma EXCEPT ![d] = [start_type |-> "special", direct_sound_channel |-> ch,
                                    repeat |-> TRUE]]
      /\ dma[d].start_type = "inactive"
      /\ \A e \in Dmas : dma[e].start_type = "special" => dma[e].direct_sound_channel # ch
  BY DEF StartDma
<1>2. TypeOK'
  BY <1>1 DEF Inv, TypeOK
<1>3. InLine'
  BY <1>1 DEF Inv, InLine
<1>4. dma[d].direct_sound_channel = NoChannel /\ Serving(ch) = {}
  BY <1>1, HalfPositive DEF Inv, Served, Serving
<1>5. Serving(ch)' = {d} /\ \A c \in Channels : c # ch => Serving(c)' = Serving(c)
  BY <1>1, <1>4, HalfPositive DEF Inv, TypeOK, Serving
<1>6. Served'
  <2>1. ASSUME NEW e \in Dmas
        PROVE  (IF dma[e].direct_sound_channel = NoChannel THEN dma[e].start_type = "inactive"
                ELSE dma[e].start_type = "special" /\ dma[e].repeat)'
    BY <1>1, HalfPositive DEF Inv, TypeOK, Served
  <2>2. ASSUME NEW c \in Channels, NEW e \in Dmas, NEW g \in Dmas,
               e \in Serving(c)', g \in Serving(c)'
        PROVE  e = g
    BY <1>5, <2>2 DEF Inv, Served
  <2> QED BY <2>1, <2>2 DEF Served
<1>7. InTime'
  <2>1. ASSUME NEW c \in Channels
        PROVE  (/\ flowing[c] => Serving(c) # {} /\ put[c] - heard[c] = fill[c] /\ fill[c] > 0
                /\ Serving(c) = {} => late[c] = 0
                /\ late[c] + Old(fill[c], put[c], heard[c]) <= Size)'
    <3>1. CASE c = ch
      BY <1>1, <1>4, <1>5, <3>1, OneFifo
    <3>2. CASE c # ch
      BY <1>1, <1>5, <3>2, OneFifo
    <3> QED BY <3>1, <3>2
  <2> QED BY <2>1 DEF InTime
<1> QED BY <1>2, <1>3, <1>6, <1>7 DEF Inv

LEMMA StopDmaKeeps ==
  ASSUME Inv, NEW d \in Dmas, StopDma(d)
  PROVE  Inv'
<1>1. /\ UNCHANGED <<fifo, base, top, audio, put, heard, fill>>
      /\ late' = [ch \in Channels |-> IF d \in Serving(ch) THEN 0 ELSE late[ch]]
      /\ flowing' = [ch \in Channels |-> flowing[ch] /\ d \notin Serving(ch)]
      /\ dma' = [dma EXCEPT ![d].start_type = "inactive", ![d].direct_sound_channel = NoChannel]
  BY DEF StopDma
<1>2. TypeOK'
  <2>1. late' \in [Channels -> Nat]
    BY <1>1 DEF Inv, TypeOK
  <2>2. flowing' \in [Channels -> BOOLEAN]
    BY <1>1
  <2>3. dma' \in [Dmas -> [start_type : {"inactive", "special"},
                           direct_sound_channel : Channels \cup {NoChannel},
                           repeat : BOOLEAN]]
    BY <1>1 DEF Inv, TypeOK
  <2> QED BY <1>1, <2>1, <2>2, <2>3 DEF Inv, TypeOK
<1>3. InLine'
  BY <1>1 DEF Inv, InLine
<1>4. \A c \in Channels : Serving(c)' = Serving(c) \ {d}
  BY <1>1, HalfPositive DEF Inv, TypeOK, Serving
<1>5. Served'
  <2>1. ASSUME NEW e \in Dmas
        PROVE  (IF dma[e].direct_sound_channel = NoChannel THEN dma[e].start_type = "inactive"
                ELSE dma[e].start_type = "special" /\ dma[e].repeat)'
    BY <1>1 DEF Inv, TypeOK, Served
  <2> QED BY <1>4, <2>1 DEF Inv, Served
<1>6. InTime'
  <2>1. ASSUME NEW c \in Channels
        PROVE  (/\ flowing[c] => Serving(c) # {} /\ put[c] - heard[c] = fill[c] /\ fill[c] > 0
                /\ Serving(c) = {} => late[c] = 0
                /\ late[c] + Old(fill[c], put[c], heard[c]) <= Size)'
    <3>1. CASE d \in Serving(c)
      <4>1. late'[c] = 0 /\ ~flowing'[c]
        BY <1>1, <3>1
      <4>2. Old(fill[c], put[c], heard[c]) \in 0..Size
        BY OneFifo, OldFits DEF Lined
      <4> QED BY <1>1, <4>1, <4>2, HalfPositive
    <3>2. CASE d \notin Serving(c)
      <4>1. late'[c] = late[c]
        BY <1>1, <3>2
      <4>2. flowing'[c] = flowing[c]
        BY <1>1, <3>2 DEF Inv, TypeOK
      <4>3. Serving(c)' = Serving(c)
        BY <1>4, <3>2
      <4> QED BY <1>1, <4>1, <4>2, <4>3, OneFifo
    <3> QED BY <3>1, <3>2
  <2> QED BY <2>1 DEF InTime
<1> QED BY <1>2, <1>3, <1>5, <1>6 DEF Inv

(* As after switching on, and after a reset. *)
Empty ==
  /\ fifo = Cleared /\ base = Zero /\ top = Zero /\ put = Zero /\ heard = Zero /\ fill = Zero
  /\ late = Zero /\ flowing = [ch \in Channels |-> FALSE] /\ audio \in BOOLEAN
  /\ dma \in [Dmas -> [start_type : {"inactive"}, direct_sound_channel : {NoChannel},
                       repeat : BOOLEAN]]

LEMMA EmptyInv == Empty => Inv
<1> SUFFICES ASSUME Empty PROVE Inv
  OBVIOUS
<1> USE HalfPositive DEF Empty
<1>1. 0 \in Slots /\ 0 \in 0..Size /\ At(0, 0) = 0
  BY DEF Slots, At
<1>2. Zero \in [Channels -> Slots] /\ Zero \in [Channels -> Nat] /\ Zero \in [Channels -> 0..Size]
  BY <1>1 DEF Zero
<1>3. Cleared \in [Channels -> [Slots -> Nat]]
  BY DEF Cleared, Silence
<1>4. TypeOK
  BY <1>2, <1>3 DEF TypeOK
<1>5. InLine
  <2>1. ASSUME NEW c \in Channels
        PROVE  Lined(fifo[c], base[c], top[c], fill[c], put[c], heard[c])
    <3>1. Lined(Cleared[c], 0, 0, 0, 0, 0)
      BY <1>1, ClearedInLine
    <3> QED BY <3>1 DEF Zero
  <2> QED BY <2>1 DEF InLine
<1>6. \A c \in Channels : Serving(c) = {}
  BY DEF Serving
<1>7. Served
  BY <1>6 DEF Served
<1>8. InTime
  <2>1. ASSUME NEW c \in Channels
        PROVE  late[c] = 0 /\ fill[c] = 0 /\ put[c] = 0 /\ heard[c] = 0 /\ ~flowing[c]
    BY DEF Zero
  <2>2. Old(0, 0, 0) = Size
    BY DEF Old
  <2> QED BY <2>1, <2>2 DEF InTime
<1> QED BY <1>4, <1>5, <1>7, <1>8 DEF Inv

LEMMA InitInv == Init => Inv
<1>1. Init => Empty
  BY DEF Init, InactiveDma, Empty
<1> QED BY <1>1, EmptyInv

LEMMA ResetGbaKeeps == Inv /\ ResetGba => Inv'
<1>1. Inv /\ ResetGba => Empty'
  <2>1. ASSUME Inv, ResetGba
        PROVE  dma' \in [Dmas -> [start_type : {"inactive"}, direct_sound_channel : {NoChannel},
                                 repeat : BOOLEAN]]
    BY <2>1 DEF ResetGba, Inv, TypeOK
  <2> QED BY <2>1 DEF ResetGba, Empty, Inv, TypeOK
<1>2. (Empty => Inv)'
  BY EmptyInv, PTL
<1> QED BY <1>1, <1>2

LEMMA StepInv ==
  ASSUME Repeats \subseteq {TRUE}
  PROVE  Inv /\ [Next]_vars => Inv'
<1> SUFFICES ASSUME Inv, [Next]_vars
             PROVE  Inv'
  OBVIOUS
<1>1. ASSUME NEW ch \in Channels, Timer(ch)
      PROVE  Inv'
  BY <1>1, TimerKeeps
<1>2. ASSUME NEW ch \in Channels, NEW n \in {1, 2, 4}, QueueByHand(ch, n)
      PROVE  Inv'
  BY <1>2, QueueKeeps
<1>3. ASSUME NEW ch \in Channels, ResetFifo(ch)
      PROVE  Inv'
  BY <1>3, ResetFifoKeeps
<1>4. ASSUME NEW ch \in Channels, NEW d \in Dmas, NEW r \in Repeats, StartDma(d, ch, r)
      PROVE  Inv'
  BY <1>4, StartDmaKeeps
<1>5. ASSUME NEW d \in Dmas, StopDma(d)
      PROVE  Inv'
  BY <1>5, StopDmaKeeps
<1>6. ASSUME SetOption
      PROVE  Inv'
  <2>1. UNCHANGED <<fifo, base, top, dma, put, heard, fill, late, flowing>> /\ audio' \in BOOLEAN
    BY <1>6 DEF SetOption
  <2> QED BY <2>1 DEF Inv, TypeOK, InLine, Served, InTime, Serving
<1>7. ASSUME ResetGba
      PROVE  Inv'
  BY <1>7, ResetGbaKeeps
<1>8. ASSUME UNCHANGED vars
      PROVE  Inv'
  BY <1>8 DEF vars, Inv, TypeOK, InLine, Served, InTime, Serving
<1> QED BY <1>1, <1>2, <1>3, <1>4, <1>5, <1>6, <1>7, <1>8 DEF Next

-----------------------------------------------------------------------------
(* What follows from the invariant.                                        *)

LEMMA InvAlways ==
  ASSUME Repeats \subseteq {TRUE}
  PROVE  Spec => []Inv
<1>1. Inv /\ [Next]_vars => Inv'
  BY StepInv
<1> QED BY <1>1, InitInv, PTL DEF Spec

(* A sample that is still to be played is where it was put. *)
LEMMA Kept == Inv => NoneOverwritten
<1> SUFFICES ASSUME Inv, NEW ch \in Channels, NEW n \in (heard[ch] + 1)..put[ch]
             PROVE  \E i \in Slots : fifo[ch][i] = n
  BY DEF NoneOverwritten
<1> USE HalfPositive
<1> DEFINE m == fill[ch] - (put[ch] - n) - 1
           i == At(base[ch], m)
<1>1. /\ base[ch] \in Slots /\ fill[ch] \in 0..Size /\ put[ch] \in Nat /\ heard[ch] \in Nat
      /\ Lined(fifo[ch], base[ch], top[ch], fill[ch], put[ch], heard[ch])
  BY OneFifo
<1>2. m \in 0..Size /\ m < fill[ch] /\ m >= fill[ch] - (put[ch] - heard[ch]) /\ m # Size
  BY <1>1 DEF Lined
<1>3. i \in Slots /\ Ahead(base[ch], i) = m
  <2> HIDE DEF m
  <2> QED BY <1>1, <1>2, Indices
<1>4. fifo[ch][i] = put[ch] - fill[ch] + m + 1
  <2> HIDE DEF m, i
  <2> QED BY <1>1, <1>2, <1>3 DEF Lined
<1>5. fifo[ch][i] = n
  BY <1>1, <1>4
<1> QED BY <1>3, <1>5

LEMMA NextOne == Inv => Fed
<1> SUFFICES ASSUME Inv, NEW ch \in Channels, flowing[ch]
             PROVE  fifo[ch][base[ch]] = heard[ch] + 1
  BY DEF Fed
<1>1. /\ base[ch] \in Slots /\ fill[ch] \in 0..Size /\ put[ch] \in Nat /\ heard[ch] \in Nat
      /\ Lined(fifo[ch], base[ch], top[ch], fill[ch], put[ch], heard[ch])
      /\ put[ch] - heard[ch] = fill[ch] /\ fill[ch] > 0
  BY OneFifo
<1>2. Ahead(base[ch], base[ch]) = 0
  BY <1>1, HalfPositive DEF Ahead, Slots
<1> QED BY <1>1, <1>2 DEF Lined

LEMMA NotLate == Inv => SoonHeard
<1> SUFFICES ASSUME Inv, NEW ch \in Channels PROVE late[ch] <= Size
  BY DEF SoonHeard
<1>1. /\ fill[ch] \in 0..Size /\ put[ch] \in Nat /\ heard[ch] \in Nat /\ late[ch] \in Nat
      /\ heard[ch] <= put[ch] /\ put[ch] - heard[ch] <= fill[ch]
      /\ late[ch] + Old(fill[ch], put[ch], heard[ch]) <= Size
  BY OneFifo DEF Lined
<1>2. Old(fill[ch], put[ch], heard[ch]) \in 0..Size
  BY <1>1, OldFits
<1> QED BY <1>1, <1>2, HalfPositive

(* The indices of both FIFOs always stay inside them (sound.c). *)
THEOREM TypeCorrect ==
  ASSUME Repeats \subseteq {TRUE}
  PROVE  Spec => []TypeOK
<1>1. Inv => TypeOK
  BY DEF Inv
<1> QED BY <1>1, InvAlways, PTL

(* A refill never overwrites a sample that is still to be played, although *)
(* the code cannot tell a full FIFO from an empty one (sound_timer).       *)
THEOREM NoSampleLost ==
  ASSUME Repeats \subseteq {TRUE}
  PROVE  Spec => []NoneOverwritten
  BY InvAlways, Kept, PTL

(* Samples are played in order and none is left out (sound_timer).         *)
THEOREM PlayedInOrder ==
  ASSUME Repeats \subseteq {TRUE}
  PROVE  Spec => InOrder
<1>1. Inv => [\A ch \in Channels :
                audio /\ Timer(ch) => heard'[ch] \in {heard[ch], heard[ch] + 1}]_vars
  BY TimerPlays
<1> QED BY <1>1, InvAlways, PTL DEF InOrder

(* Served by a DMA that repeats, a FIFO never runs empty (sound_timer).    *)
THEOREM NeverDry ==
  ASSUME Repeats \subseteq {TRUE}
  PROVE  Spec => []Fed
  BY InvAlways, NextOne, PTL

(* Old contents delay a DMA by at most the size of the FIFO (sound_timer). *)
THEOREM HeardInTime ==
  ASSUME Repeats \subseteq {TRUE}
  PROVE  Spec => []SoonHeard
  BY InvAlways, NotLate, PTL
=============================================================================
