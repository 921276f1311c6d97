----------------------- MODULE TranslationCache_proofs -----------------------
(***************************************************************************)
(* The guest runs its own code, for memories and caches of any size and    *)
(* for any program.  First, the translations stay guarded (IInv): no       *)
(* checked store changes a word the cache holds code of and leaves the     *)
(* code.  Then, everything that leads into the cache leads to the code of  *)
(* the address it stands for (CInv).  Last, a lookup that overflowed the   *)
(* cache succeeds when it starts again (Attempts).                         *)
(***************************************************************************)
EXTENDS TranslationCache, FiniteSetTheorems, SequenceTheorems,
        WellFoundedInduction, TLAPS

(* Every set of numbers has a smallest one: of the intervals below its     *)
(* elements one is minimal for the inclusion of finite sets.               *)
Below(n) == 0 .. n - 1

LEMMA MinOfNat ==
  ASSUME NEW S, S \subseteq Nat, S # {}
  PROVE  Min(S) \in S /\ \A y \in S : Min(S) <= y
<1> DEFINE R == StrictSubsetOrdering(Nat)
           T == {Below(n) : n \in S}
<1>1. \A n \in S : Below(n) \in FiniteSubsetsOf(Nat)
  BY FS_Interval DEF Below, FiniteSubsetsOf
<1>2. T \subseteq FiniteSubsetsOf(Nat) /\ T # {}
  BY <1>1
<1>3. IsWellFoundedOn(R, FiniteSubsetsOf(Nat))
  BY FS_StrictSubsetOrderingWellFounded
<1> HIDE DEF R, T
<1>4. PICK X \in T : \A Y \in T : ~(<<Y, X>> \in R)
  BY <1>2, <1>3, WFMin, Zenon
<1>5. PICK x \in S : X = Below(x)
  BY DEF T
<1>6. ASSUME NEW y \in S, y < x
      PROVE  FALSE
  <2>1. x \in Nat /\ y \in Nat
    OBVIOUS
  <2>2. Below(y) \subseteq Below(x) /\ Below(x) \subseteq Nat
    BY <1>6, <2>1 DEF Below
  <2>3. y \in Below(x) /\ y \notin Below(y)
    BY <1>6, <2>1 DEF Below
  <2>4. <<Below(y), Below(x)>> \in R
    BY <2>2, <2>3 DEF R, StrictSubsetOrdering
  <2> QED BY <2>4, <1>4, <1>5 DEF T
<1>7. \A y \in S : x <= y
  BY <1>6
<1> QED BY <1>7 DEF Min

LEMMA Numbers ==
  /\ Addr = 0 .. Top - 1 /\ Top \in Nat \ {0}
  /\ Iwram \subseteq Addr /\ Ewram \subseteq Addr
  /\ FirstTag \in Nat \ {0} /\ Mark \in Nat \ {0} /\ 0 \in Addr
<1>1. Pages * PageWords \in Nat \ {0} /\ (Pages + 1) * PageWords = Pages * PageWords + PageWords
  BY SizesAssumption
<1> QED BY <1>1, SizesAssumption DEF Addr, Ewram, Iwram, Top, FirstTag, Mark

(* A block starts at its address, is not empty and ends before the last    *)
(* word of IWRAM is passed.                                                *)
LEMMA BlockEnds ==
  ASSUME NEW pc \in Addr
  PROVE  BlockEnd(pc) \in pc + 1 .. Top
<1> DEFINE S == {end \in pc + 1 .. Top : EndsAt(pc, end)}
<1>1. EndsAt(pc, Top)
  BY Zenon DEF EndsAt
<1>2. Top \in S
  BY <1>1, Numbers
<1>3. S \subseteq Nat
  BY Numbers
<1>4. Min(S) \in S
  BY <1>2, <1>3, MinOfNat
<1>5. S \subseteq pc + 1 .. Top
  OBVIOUS
<1> HIDE DEF S
<1>6. BlockEnd(pc) = Min(S)
  BY DEF BlockEnd, S
<1> QED BY <1>4, <1>5, <1>6

LEMMA BlockType ==
  ASSUME NEW pc \in Addr
  PROVE  /\ Size(pc) \in Nat \ {0}
         /\ Block(pc) = pc .. pc + Size(pc) - 1
         /\ Block(pc) \subseteq Addr
BY BlockEnds, Numbers DEF Block, Size

-----------------------------------------------------------------------------
(* The parts of the state: the guest's words, their tags, the generated    *)
(* cells and the translations in progress.                                 *)
Frame == [pc : Addr, at : Int, exits : SUBSET Cells]
Memory == mem \in [Addr -> Words] /\ mem[Top - 1].op = "exit"
Tags == tag \in [Addr -> Nat] /\ tagTop \in Nat \ {0}
Coded(cells) == DOMAIN cells = Cells /\ \A c \in Cells : cells[c].word \in Words
SameCode(new, old) ==
  /\ Coded(new)
  /\ \A c \in Cells : new[c].pc = old[c].pc /\ new[c].word = old[c].word
Cache ==
  /\ ptr \in 0 .. Limit
  /\ Coded(cache)
  /\ \A c \in 0 .. ptr - 1 : cache[c].pc \in Addr
Calls ==
  /\ want \in Addr
  /\ stack \in Seq(Frame)
  /\ call \in {"run", "lookup", "redo", "link"}
  /\ call = "link" => stack # <<>>
  /\ call = "run" => run.pc \in Addr

IInv == Memory /\ Tags /\ Cache /\ Calls /\ Guarded

(* An empty cache guards everything.                                       *)
LEMMA NoCodeCoded == Coded(NoCode)
BY Numbers DEF Coded, NoCode, NoCell, Words

LEMMA FlushGuards ==
  ASSUME NEW t \in [Addr -> Nat], NEW s, NEW cells, NEW ptrs,
         Coded(cells), Flush(t, s, cells, ptrs)
  PROVE  Tags' /\ Cache' /\ Guarded'
<1>1. Flushed(t, s) \in [Addr -> Nat]
  <2> DEFINE cleared == ClearedIwram(s["iwram"]) \cup ClearedEwram(s["ewram"])
  <2> HIDE DEF cleared
  <2>1. Flushed(t, s) = [a \in Addr |-> IF a \in cleared THEN 0 ELSE t[a]]
    BY DEF Flushed, cleared
  <2> QED BY <2>1
<1>2. Tags'
  BY <1>1, Numbers DEF Flush, Tags
<1>3. ptr' = 0 /\ Coded(cache')
  BY NoCodeCoded DEF Flush
<1>4. Cache' /\ Guarded'
  BY <1>3, SizesAssumption DEF Cache, Coded, Guarded
<1> QED BY <1>2, <1>3, <1>4

(* The generated cells stand for the words of the block, the cells before  *)
(* them are as they were.                                                  *)
LEMMA GeneratedCode ==
  ASSUME Memory, Coded(cache), NEW pc \in Addr, NEW at \in Nat
  PROVE  /\ Coded(Generated(pc, at))
         /\ \A c \in Cells : c < at => Generated(pc, at)[c] = cache[c]
         /\ \A c \in Cells : at <= c /\ c < at + Size(pc) =>
              /\ Generated(pc, at)[c].pc = pc + (c - at)
              /\ Generated(pc, at)[c].word = mem[pc + (c - at)]
<1> DEFINE block == Block(pc)
           link(a) == IF Direct(mem[a]) /\ mem[a].arg \in block
                      THEN at + (mem[a].arg - pc) ELSE None
           code(a) == [pc |-> a, word |-> mem[a], link |-> link(a)]
<1>1. block = pc .. pc + Size(pc) - 1 /\ block \subseteq Addr /\ Size(pc) \in Nat
  BY BlockType
<1>2. Generated(pc, at) =
        [c \in Cells |-> IF c >= at /\ pc + (c - at) \in block
                         THEN code(pc + (c - at)) ELSE cache[c]]
  BY DEF Generated
<1>3. \A a \in block : code(a).pc = a /\ code(a).word = mem[a] /\ mem[a] \in Words
  BY <1>1 DEF Memory
<1> HIDE DEF code, link, block
<1>4. \A c \in Cells : c \in Int
  BY SizesAssumption DEF Cells
<1>5. Coded(Generated(pc, at))
  BY <1>2, <1>3 DEF Coded
<1>6. \A c \in Cells : c < at => Generated(pc, at)[c] = cache[c]
  BY <1>2, <1>4
<1>7. ASSUME NEW c \in Cells, at <= c, c < at + Size(pc)
      PROVE  /\ Generated(pc, at)[c].pc = pc + (c - at)
             /\ Generated(pc, at)[c].word = mem[pc + (c - at)]
  <2>1. pc + (c - at) \in block /\ c >= at
    BY <1>1, <1>4, <1>7, Numbers
  <2>2. Generated(pc, at)[c] = code(pc + (c - at))
    BY <1>2, <2>1
  <2> QED BY <1>3, <2>1, <2>2
<1> QED BY <1>5, <1>6, <1>7

(* Handing a place on changes links only.                                  *)
LEMMA DeliverKeeps ==
  ASSUME NEW pc, NEW place, NEW frames \in Seq(Frame), NEW cells,
         Coded(cells), Deliver(pc, place, frames, cells)
  PROVE  /\ SameCode(cache', cells)
         /\ stack' \in Seq(Frame)
         /\ call' \in {"run", "link"}
         /\ call' = "link" => stack' # <<>>
         /\ call' = "run" => run'.pc = pc
<1>1. CASE frames = <<>>
  BY <1>1 DEF Deliver, SameCode
<1>2. CASE frames # <<>>
  <2> DEFINE top == Len(frames)
             exit == Min(frames[top].exits)
             rest == [frames[top] EXCEPT !.exits = @ \ {exit}]
  <2>1. top \in 1 .. Len(frames) /\ frames[top] \in Frame
    BY <1>2
  <2>2. /\ call' = "link"
        /\ cache' = [cells EXCEPT ![exit].link = place]
        /\ stack' = [frames EXCEPT ![top].exits = @ \ {exit}]
    BY <1>2 DEF Deliver
  <2> HIDE DEF exit
  <2>3. SameCode(cache', cells)
    BY <2>2 DEF Coded, SameCode
  <2>4. rest \in Frame
    BY <2>1 DEF Frame
  <2>5. stack' = [frames EXCEPT ![top] = rest]
    BY <2>2
  <2>6. stack' \in Seq(Frame) /\ Len(stack') = Len(frames)
    BY <2>1, <2>4, <2>5, ExceptSeq
  <2>7. stack' # <<>>
    BY <2>1, <2>6
  <2> QED BY <2>2, <2>3, <2>6, <2>7
<1> QED BY <1>1, <1>2

(* The translations that the last one is nested in. *)
LEMMA OuterFrames ==
  ASSUME stack \in Seq(Frame), stack # <<>>
  PROVE  /\ Front(stack) \in Seq(Frame) /\ Len(Front(stack)) = Len(stack) - 1
         /\ \A i \in 1 .. Len(stack) - 1 : Front(stack)[i] = stack[i]
         /\ stack[Len(stack)] \in Frame
<1>1. \A i \in 1 .. Len(stack) - 1 : stack[i] \in Frame
  OBVIOUS
<1>2. Len(stack) \in Nat \ {0} /\ stack[Len(stack)] \in Frame
  OBVIOUS
<1>3. Front(stack) = SubSeq(stack, 1, Len(stack) - 1)
  BY DEF Front
<1>4. Front(stack) \in Seq(Frame)
  BY <1>1, <1>2, <1>3, SubSeqProperties
<1>5. Front(stack) = [i \in 1 .. Len(stack) - 1 |-> stack[i]]
  BY <1>2, <1>3
<1> HIDE DEF Front
<1> QED BY <1>2, <1>4, <1>5

-----------------------------------------------------------------------------
(* What guards the translations depends on the words, the tags, the code   *)
(* and the history; these stay as they are when only links change.         *)
LEMMA SameGuard ==
  ASSUME IInv, UNCHANGED <<mem, tag, tagTop, ptr, unseen>>,
         SameCode(cache', cache)
  PROVE  Memory' /\ Tags' /\ Cache' /\ Guarded'
<1>1. 0 .. ptr - 1 \subseteq Cells
  BY SizesAssumption DEF IInv, Cache, Cells
<1>2. Memory' /\ Tags'
  BY DEF IInv, Memory, Tags
<1>3. Cache'
  BY <1>1 DEF IInv, Cache, SameCode
<1>4. Guarded'
  BY <1>1 DEF IInv, Guarded, SameCode
<1> QED BY <1>2, <1>3, <1>4

LEMMA FoundStep == ASSUME IInv, Found PROVE IInv'
<1>1. stack \in Seq(Frame) /\ Coded(cache)
  BY DEF IInv, Calls, Cache
<1>2. Deliver(want, blockPtrs[tag[want]], stack, cache)
  BY DEF Found
<1>3. UNCHANGED <<mem, tag, tagTop, ptr, unseen>> /\ want' = want
  BY DEF Found, tags
<1>4. SameCode(cache', cache)
  BY <1>1, <1>2, DeliverKeeps
<1>6. Memory' /\ Tags' /\ Cache' /\ Guarded'
  BY <1>3, <1>4, SameGuard
<1>5. Calls'
  BY <1>1, <1>2, <1>3, DeliverKeeps DEF IInv, Calls
<1> QED BY <1>5, <1>6 DEF IInv

LEMMA LinkedStep == ASSUME IInv, Linked PROVE IInv'
<1> DEFINE frame == stack[Len(stack)]
           outer == Front(stack)
<1>1. stack \in Seq(Frame) /\ Coded(cache) /\ stack # <<>>
  BY DEF IInv, Calls, Cache, Linked
<1>2. outer \in Seq(Frame) /\ frame.pc \in Addr
  BY <1>1, OuterFrames DEF Frame
<1>3. Deliver(frame.pc, frame.at, outer, cache)
  BY DEF Linked
<1>4. UNCHANGED <<mem, tag, tagTop, ptr, unseen>> /\ want' = want
  BY DEF Linked, tags
<1> HIDE DEF frame, outer
<1>5. SameCode(cache', cache)
  BY <1>1, <1>2, <1>3, DeliverKeeps
<1>6. Memory' /\ Tags' /\ Cache' /\ Guarded'
  BY <1>4, <1>5, SameGuard
<1>7. Calls'
  BY <1>1, <1>2, <1>3, <1>4, DeliverKeeps DEF IInv, Calls
<1> QED BY <1>6, <1>7 DEF IInv

LEMMA LinkStep == ASSUME IInv, Link PROVE IInv'
<1> DEFINE exits == stack[Len(stack)].exits
<1>1. exits # {} /\ stack # <<>>
  BY DEF Link, IInv, Calls
<1>2. stack[Len(stack)] \in Frame
  BY <1>1 DEF IInv, Calls
<1>3. exits \subseteq Cells /\ Cells \subseteq Nat
  BY <1>2, SizesAssumption DEF Frame, Cells
<1> HIDE DEF exits
<1>4. Min(exits) \in Cells
  BY <1>1, <1>3, MinOfNat
<1>5. cache[Min(exits)].word.arg \in Addr
  BY <1>4 DEF IInv, Cache, Coded, Words
<1>6. call' = "lookup" /\ want' = cache[Min(exits)].word.arg
  BY DEF Link, exits
<1>7. UNCHANGED <<mem, tag, tagTop, cache, ptr, stack, unseen>>
  BY DEF Link, tags
<1>8. Calls'
  BY <1>5, <1>6, <1>7 DEF IInv, Calls
<1>9. Memory' /\ Tags' /\ Cache' /\ Guarded'
  BY <1>7, SameGuard DEF IInv, Cache, SameCode
<1> QED BY <1>8, <1>9 DEF IInv

(* The tags of a new block: all its words have one, no word loses one.     *)
LEMMA MarkedTags ==
  ASSUME Tags, want \in Addr
  PROVE  /\ Marked \in [Addr -> Nat]
         /\ \A a \in Addr : tag[a] # 0 => Marked[a] # 0
         /\ \A a \in Block(want) : Marked[a] # 0
<1> DEFINE block == Block(want)
<1>1. block \subseteq Addr
  BY BlockType
<1>2. Marked = [a \in Addr |-> IF a = want THEN tagTop
                    ELSE IF a \in block /\ tag[a] = 0 THEN Mark ELSE tag[a]]
  BY DEF Marked
<1> HIDE DEF block
<1>3. /\ Marked \in [Addr -> Nat]
      /\ \A a \in Addr : tag[a] # 0 => Marked[a] # 0
      /\ \A a \in block : Marked[a] # 0
  BY <1>1, <1>2, Numbers DEF Tags
<1> QED BY <1>3 DEF block

LEMMA TranslateStep == ASSUME IInv, Translate PROVE IInv'
<1> DEFINE size == Size(want)
           cells == Generated(want, ptr)
           frame == [pc |-> want, at |-> ptr,
                     exits |-> {ptr + (a - want) : a \in External(want)}]
<1>1. want \in Addr /\ ptr \in 0 .. Limit /\ Coded(cache)
  BY DEF IInv, Calls, Cache
<1>2. /\ size \in Nat \ {0} /\ Block(want) = want .. want + size - 1
      /\ Block(want) \subseteq Addr
  BY <1>1, BlockType
<1>3. ptr + size <= Limit /\ ptr' = ptr + size /\ tag' = Marked /\ tagTop' = tagTop + 1
  BY DEF Translate, Fits
<1>4. /\ cache' = cells /\ stack' = Append(stack, frame) /\ call' = "link"
      /\ UNCHANGED <<mem, want, unseen>>
  BY DEF Translate
<1>5. /\ Coded(cells)
      /\ \A c \in Cells : c < ptr => cells[c] = cache[c]
      /\ \A c \in Cells : ptr <= c /\ c < ptr + size =>
           cells[c].pc = want + (c - ptr) /\ cells[c].word = mem[want + (c - ptr)]
  BY <1>1, GeneratedCode, SizesAssumption DEF IInv
<1>6. /\ Marked \in [Addr -> Nat]
      /\ \A a \in Addr : tag[a] # 0 => Marked[a] # 0
      /\ \A a \in Block(want) : Marked[a] # 0
  BY <1>1, MarkedTags DEF IInv
<1>7. frame \in Frame
  <2>1. External(want) \subseteq Block(want)
    BY DEF External
  <2>2. {ptr + (a - want) : a \in External(want)} \subseteq Cells
    BY <2>1, <1>1, <1>2, <1>3, Numbers, SizesAssumption DEF Cells
  <2> QED BY <1>1, <2>2, SizesAssumption DEF Frame
<1> HIDE DEF size, cells, frame
<1>8. Memory'
  BY <1>4 DEF IInv, Memory
<1>9. Tags'
  BY <1>3, <1>6 DEF IInv, Tags
<1>10. ASSUME NEW c \in 0 .. ptr + size - 1
       PROVE  /\ cells[c].pc \in Addr /\ Marked[cells[c].pc] # 0
              /\ cells[c].pc \notin unseen => cells[c].word = mem[cells[c].pc]
  <2>1. c \in Cells
    BY <1>1, <1>2, <1>3, SizesAssumption DEF Cells
  <2>2. CASE c < ptr
    <3>1. c \in 0 .. ptr - 1 /\ cells[c] = cache[c]
      BY <1>1, <1>5, <2>1, <2>2
    <3>2. cache[c].pc \in Addr
      BY <3>1 DEF IInv, Cache
    <3>3. tag[cache[c].pc] # 0
      BY <3>1 DEF IInv, Guarded
    <3>4. cache[c].pc \notin unseen => cache[c].word = mem[cache[c].pc]
      BY <3>1 DEF IInv, Guarded
    <3> QED BY <1>6, <3>1, <3>2, <3>3, <3>4
  <2>3. CASE ptr <= c
    <3>1. cells[c].pc = want + (c - ptr) /\ cells[c].word = mem[want + (c - ptr)]
      BY <1>1, <1>2, <1>5, <2>1, <2>3
    <3>2. want + (c - ptr) \in Block(want)
      BY <1>1, <1>2, <2>3, Numbers
    <3> QED BY <1>2, <1>6, <3>1, <3>2
  <2> QED BY <2>2, <2>3, <1>1
<1>11. Cache'
  BY <1>1, <1>2, <1>3, <1>4, <1>5, <1>10, SizesAssumption DEF Cache
<1>12. Guarded'
  <2>1. ASSUME NEW c \in 0 .. ptr' - 1
        PROVE  /\ tag'[cache'[c].pc] # 0
               /\ cache'[c].pc \notin unseen' => cache'[c].word = mem'[cache'[c].pc]
    <3>1. c \in 0 .. ptr + size - 1
      BY <1>1, <1>2, <1>3
    <3> QED BY <1>3, <1>4, <1>10, <3>1
  <2> QED BY <2>1, Zenon DEF Guarded
<1>13. Calls'
  <2>1. stack \in Seq(Frame)
    BY DEF IInv, Calls
  <2>2. stack' \in Seq(Frame) /\ stack' # <<>>
    BY <1>4, <1>7, <2>1, AppendProperties
  <2> QED BY <1>1, <1>4, <2>2 DEF Calls
<1> QED BY <1>8, <1>9, <1>11, <1>12, <1>13 DEF IInv

LEMMA OverflowStep == ASSUME IInv, Overflow PROVE IInv'
<1>1. want \in Addr /\ ptr \in Nat /\ Coded(cache) /\ stack \in Seq(Frame)
  BY SizesAssumption DEF IInv, Calls, Cache
<1>2. Coded(Generated(want, ptr))
  BY <1>1, GeneratedCode DEF IInv
<1>3. Marked \in [Addr -> Nat]
  BY <1>1, MarkedTags DEF IInv
<1>4. PICK s, cells, ptrs : cells = Generated(want, ptr) /\ Flush(Marked, s, cells, ptrs)
  BY DEF Overflow
<1>5. Tags' /\ Cache' /\ Guarded'
  BY <1>2, <1>3, <1>4, FlushGuards
<1>6. /\ call' = "redo" /\ stack' = <<>> /\ mem' = mem
      /\ want' = IF stack = <<>> THEN want ELSE stack[1].pc
  BY DEF Overflow
<1>7. stack # <<>> => stack[1] \in Frame
  BY <1>1
<1>8. want' \in Addr
  BY <1>1, <1>6, <1>7 DEF Frame
<1>9. Calls'
  BY <1>6, <1>8 DEF Calls
<1>10. Memory'
  BY <1>6 DEF IInv, Memory
<1> QED BY <1>5, <1>9, <1>10 DEF IInv

-----------------------------------------------------------------------------
(* The guest's steps that store nothing.                                   *)
LEMMA QuietSteps ==
  ASSUME IInv, Step \/ Branch \/ Exit
  PROVE  IInv'
<1>1. UNCHANGED <<mem, tag, tagTop, cache, ptr, stack, unseen>>
  BY DEF Step, Branch, Exit, tags
<1>2. Memory' /\ Tags' /\ Cache' /\ Guarded'
  BY <1>1, SameGuard DEF IInv, Cache, SameCode
<1>3. CASE Exit
  <2>1. call' = "lookup" /\ want' \in Addr
    BY <1>3, ProgramsAssumption DEF Exit, LookUp
  <2> QED BY <1>1, <1>2, <2>1 DEF IInv, Calls
<1>4. CASE Step \/ Branch
  <2>1. /\ call' = call /\ want' = want
        /\ run.pc \in Addr /\ cache[run.at].word = mem[run.pc]
    BY <1>4 DEF Step, Branch, Running, Current, IInv, Calls
  <2>2. CASE Step
    <3>1. mem[run.pc].op # "exit" /\ run'.pc = run.pc + 1
      BY <2>1, <2>2 DEF Step, NextCell
    <3>2. run.pc # Top - 1
      BY <3>1 DEF IInv, Memory
    <3>3. run'.pc \in Addr
      BY <2>1, <3>1, <3>2, Numbers
    <3> QED BY <1>1, <1>2, <2>1, <3>3 DEF IInv, Calls
  <2>3. CASE Branch
    <3>1. run'.pc = mem[run.pc].arg
      BY <2>1, <2>3 DEF Branch
    <3>2. mem[run.pc] \in Words
      BY <2>1 DEF IInv, Memory
    <3>3. run'.pc \in Addr
      BY <3>1, <3>2 DEF Words
    <3> QED BY <1>1, <1>2, <2>1, <3>3 DEF IInv, Calls
  <2> QED BY <1>4, <2>2, <2>3
<1> QED BY <1>3, <1>4

(* A store that no tag gives away leaves the cells' words alone, or is     *)
(* one of those nobody checks.                                             *)
LEMMA StoreStep == ASSUME IInv, Store PROVE IInv'
<1>1. PICK poke \in Pokes, width \in {"word", "byte", "block"} :
        LET a == poke[1] IN
        /\ mem' = [mem EXCEPT ![a] = poke[2]]
        /\ IF Noticed(a)[width]
           THEN /\ Flush(tag, span, cache, blockPtrs)
                /\ LookUp(run.pc + 1)
                /\ UNCHANGED run
           ELSE /\ NextCell
                /\ unseen' = IF Missed(a, width) THEN unseen \cup {a} ELSE unseen
                /\ UNCHANGED <<tags, blockPtrs, cache, ptr, call, want, flushes,
                               leftover>>
  BY DEF Store
<1> DEFINE a == poke[1]
<1>2. a \in Addr /\ a # Top - 1 /\ poke[2] \in Words
  BY ProgramsAssumption
<1>3. Memory'
  BY <1>1, <1>2 DEF IInv, Memory
<1>4. stack' = stack
  BY DEF Store
<1>5. CASE Noticed(a)[width]
  <2>1. Flush(tag, span, cache, blockPtrs) /\ LookUp(run.pc + 1)
    BY <1>1, <1>5
  <2>2. Tags' /\ Cache' /\ Guarded'
    BY <2>1, FlushGuards DEF IInv, Tags, Cache
  <2>3. run.pc + 1 \in Addr
    <3>1. run.pc \in Addr /\ mem[run.pc].op = "op"
      BY DEF Store, Running, Current, IInv, Calls
    <3> QED BY <3>1, Numbers DEF IInv, Memory
  <2>4. Calls'
    BY <1>4, <2>1, <2>3 DEF IInv, Calls, LookUp
  <2> QED BY <1>3, <2>2, <2>4 DEF IInv
<1>6. CASE ~Noticed(a)[width]
  <2>1. /\ unseen' = IF Missed(a, width) THEN unseen \cup {a} ELSE unseen
        /\ UNCHANGED <<tag, tagTop, cache, ptr, call, want>>
    BY <1>1, <1>6 DEF tags
  <2>2. tag[a] = 0 \/ (a \in unseen' /\ unseen \subseteq unseen')
    <3>1. tag[a] \in Nat
      BY <1>2 DEF IInv, Tags
    <3>2. CASE width = "word"
      BY <1>6, <3>2 DEF Noticed
    <3>3. CASE width = "byte"
      BY <1>6, <2>1, <3>3 DEF Noticed, Missed
    <3>4. CASE width = "block"
      BY <2>1, <3>4 DEF Missed
    <3> QED BY <3>2, <3>3, <3>4
  <2>3. unseen \subseteq unseen'
    BY <2>1
  <2>4. \A b \in Addr : b # a => mem'[b] = mem[b]
    BY <1>1 DEF IInv, Memory
  <2>5. ASSUME NEW c \in 0 .. ptr - 1
        PROVE  /\ tag[cache[c].pc] # 0
               /\ cache[c].pc \notin unseen' => cache[c].word = mem'[cache[c].pc]
    <3>1. cache[c].pc \in Addr
      BY DEF IInv, Cache
    <3>2. tag[cache[c].pc] # 0
      BY DEF IInv, Guarded
    <3>3. cache[c].pc \notin unseen => cache[c].word = mem[cache[c].pc]
      BY DEF IInv, Guarded
    <3>4. cache[c].pc \notin unseen' => cache[c].pc # a
      BY <2>2, <3>2
    <3> QED BY <2>3, <2>4, <3>1, <3>2, <3>3, <3>4
  <2>6. Guarded'
    BY <2>1, <2>5 DEF Guarded
  <2>7. Tags' /\ Cache'
    BY <2>1 DEF IInv, Tags, Cache
  <2>8. run'.pc \in Addr
    <3>1. run.pc \in Addr /\ mem[run.pc].op = "op" /\ run'.pc = run.pc + 1
      BY <1>1, <1>6 DEF Store, Running, Current, NextCell, IInv, Calls
    <3> QED BY <3>1, Numbers DEF IInv, Memory
  <2>9. Calls'
    BY <1>4, <2>1, <2>8 DEF IInv, Calls
  <2> QED BY <1>3, <2>6, <2>7, <2>9 DEF IInv
<1> QED BY <1>5, <1>6

LEMMA LoadStateStep == ASSUME IInv, LoadState PROVE IInv'
<1>1. Flush(tag, span, cache, blockPtrs) /\ stack' = stack
  BY DEF LoadState
<1>2. Tags' /\ Cache' /\ Guarded'
  BY <1>1, FlushGuards DEF IInv, Tags, Cache
<1>3. Memory'
  BY ProgramsAssumption DEF LoadState, Memory
<1>4. call' = "lookup" /\ want' \in Addr
  BY ProgramsAssumption DEF LoadState, LookUp
<1>5. Calls'
  BY <1>1, <1>4 DEF IInv, Calls
<1> QED BY <1>2, <1>3, <1>5 DEF IInv

LEMMA ResetStep == ASSUME IInv, Reset PROVE IInv'
<1>1. /\ tag' = [a \in Addr |-> 0] /\ tagTop' = FirstTag /\ ptr' = 0
      /\ cache' = NoCode /\ stack' = stack
  BY DEF Reset
<1>2. Tags'
  BY <1>1, Numbers DEF Tags
<1>3. Cache' /\ Guarded'
  BY <1>1, NoCodeCoded, SizesAssumption DEF Cache, Guarded
<1>4. Memory'
  BY ProgramsAssumption DEF Reset, Memory
<1>5. call' = "lookup" /\ want' \in Addr
  BY ProgramsAssumption DEF Reset, LookUp
<1>6. Calls'
  BY <1>1, <1>5 DEF IInv, Calls
<1> QED BY <1>2, <1>3, <1>4, <1>6 DEF IInv

-----------------------------------------------------------------------------
(* The caches start empty and every tag 0 (init_translater), which is the    *)
(* invariant of the proof.                                                   *)
THEOREM Starts == Init => IInv
<1> SUFFICES ASSUME Init PROVE IInv
  OBVIOUS
<1>1. Memory
  BY ProgramsAssumption DEF Init, Memory
<1>2. Tags
  BY Numbers DEF Init, Tags
<1>3. Cache /\ Guarded
  BY NoCodeCoded, SizesAssumption DEF Init, Cache, Guarded
<1>4. Calls
  BY ProgramsAssumption DEF Init, Calls
<1> QED BY <1>1, <1>2, <1>3, <1>4 DEF IInv

(* Every step of the program, of its stores and of the translator keeps the  *)
(* invariant: a store through the checked paths flushes, a flush clears the  *)
(* tags it recorded, a translation tags what it reads.                       *)
THEOREM Preserves == IInv /\ [Next]_vars => IInv'
<1> SUFFICES ASSUME IInv, [Next]_vars PROVE IInv'
  OBVIOUS
<1>1. CASE Lookup
  BY <1>1, FoundStep, TranslateStep, OverflowStep, LinkStep, LinkedStep DEF Lookup
<1>2. CASE Guest
  BY <1>2, QuietSteps, StoreStep, LoadStateStep, ResetStep DEF Guest
<1>3. CASE UNCHANGED vars
  <2>1. UNCHANGED <<mem, tag, tagTop, cache, ptr, call, want, stack, run, unseen>>
    BY <1>3 DEF vars
  <2> QED BY <2>1 DEF IInv, Memory, Tags, Cache, Calls, Guarded
<1> QED BY <1>1, <1>2, <1>3 DEF Next

(* Every word the cache holds code of carries a tag, and its code is       *)
(* current unless a store nobody checks wrote over it.                     *)
THEOREM StaysGuarded == Spec => []Guarded
<1>1. IInv => Guarded
  BY DEF IInv
<1> QED BY <1>1, Starts, Preserves, PTL DEF Spec

-----------------------------------------------------------------------------
(* Types. *)

LEMMA FlushTypes ==
  ASSUME NEW t \in [Addr -> {0} \cup FirstTag .. Mark], NEW s, NEW cells,
         NEW ptrs \in [FirstTag .. MaxTag -> Cells], Flush(t, s, cells, ptrs)
  PROVE  /\ tag' \in [Addr -> {0} \cup FirstTag .. Mark] /\ tagTop' = FirstTag /\ ptr' = 0
         /\ blockPtrs' \in [FirstTag .. MaxTag -> Cells]
         /\ unseen' = {} /\ leftover' = {a \in Addr : Entry(tag'[a])}
         /\ span' = [r \in DOMAIN s |-> NoSpan]
<1> DEFINE cleared == ClearedIwram(s["iwram"]) \cup ClearedEwram(s["ewram"])
<1>1. Flushed(t, s) = [a \in Addr |-> IF a \in cleared THEN 0 ELSE t[a]]
  BY DEF Flushed
<1> HIDE DEF cleared
<1>2. Flushed(t, s) \in [Addr -> {0} \cup FirstTag .. Mark]
  BY <1>1
<1>3. NoBlocks \in [FirstTag .. MaxTag -> Cells]
  BY SizesAssumption DEF NoBlocks, Cells
<1> QED BY <1>2, <1>3 DEF Flush

LEMMA MarkedTypes ==
  ASSUME IInv, TypeOK, tagTop < Mark
  PROVE  /\ Marked \in [Addr -> {0} \cup FirstTag .. Mark]
         /\ tagTop \in FirstTag .. MaxTag
         /\ [blockPtrs EXCEPT ![tagTop] = ptr] \in [FirstTag .. MaxTag -> Cells]
         /\ Marked[want] = tagTop
         /\ \A a \in Addr : a # want /\ Entry(Marked[a]) => Marked[a] = tag[a]
         /\ \A a \in Addr : Entry(tag[a]) => Entry(Marked[a])
<1>1. tagTop \in FirstTag .. MaxTag /\ Mark \in FirstTag .. Mark
  BY SizesAssumption DEF TypeOK, Mark, FirstTag
<1>2. ptr \in Cells
  BY SizesAssumption DEF TypeOK, Cells
<1> DEFINE block == Block(want)
<1>3. Marked = [a \in Addr |-> IF a = want THEN tagTop
                    ELSE IF a \in block /\ tag[a] = 0 THEN Mark ELSE tag[a]]
  BY DEF Marked
<1> HIDE DEF block
<1>4. Marked \in [Addr -> {0} \cup FirstTag .. Mark]
  BY <1>1, <1>3 DEF TypeOK
<1>5. want \in Addr
  BY DEF IInv, Calls
<1>6. Entry(tagTop) /\ ~Entry(Mark) /\ ~Entry(0)
  BY <1>1, SizesAssumption DEF Entry, Mark, FirstTag
<1> QED BY <1>1, <1>2, <1>3, <1>4, <1>5, <1>6 DEF TypeOK

LEMMA TypeStep ==
  ASSUME IInv, TypeOK, [Next]_vars
  PROVE  TypeOK'
<1>1. mem' \in [Addr -> Words] /\ ptr' \in 0 .. Limit /\ call' \in {"run", "lookup", "redo", "link"}
  BY Preserves DEF IInv, Memory, Cache, Calls
<1>2. CASE Found \/ Link \/ Linked \/ Step \/ Branch \/ Exit \/ UNCHANGED vars
  <2>1. UNCHANGED <<tag, tagTop, blockPtrs, ptr, unseen, leftover>> /\ flushes' \in {0, flushes}
    BY <1>2 DEF Found, Link, Linked, Step, Branch, Exit, LookUp, vars, tags
  <2> QED BY <1>1, <2>1 DEF TypeOK
<1>3. CASE Translate
  <2>1. /\ Marked \in [Addr -> {0} \cup FirstTag .. Mark] /\ tagTop \in FirstTag .. MaxTag
        /\ [blockPtrs EXCEPT ![tagTop] = ptr] \in [FirstTag .. MaxTag -> Cells]
    BY <1>3, MarkedTypes DEF Translate
  <2>2. tagTop + 1 \in FirstTag .. Mark
    BY <2>1, SizesAssumption DEF Mark, FirstTag
  <2> QED BY <1>1, <1>3, <2>1, <2>2 DEF Translate, TypeOK
<1>4. ASSUME NEW t \in [Addr -> {0} \cup FirstTag .. Mark], NEW s, NEW cells,
             NEW ptrs \in [FirstTag .. MaxTag -> Cells], Flush(t, s, cells, ptrs),
             flushes' \in Nat
      PROVE  TypeOK'
  <2>1. FirstTag \in FirstTag .. Mark
    BY SizesAssumption DEF Mark, FirstTag
  <2> QED BY <1>1, <1>4, <2>1, FlushTypes DEF TypeOK
<1>5. CASE Overflow
  <2>1. /\ Marked \in [Addr -> {0} \cup FirstTag .. Mark]
        /\ [blockPtrs EXCEPT ![tagTop] = ptr] \in [FirstTag .. MaxTag -> Cells]
    BY <1>5, MarkedTypes DEF Overflow
  <2>2. flushes' \in Nat
    BY <1>5 DEF Overflow, TypeOK
  <2> QED BY <1>4, <1>5, <2>1, <2>2 DEF Overflow
<1>6. CASE Store
  <2>1. PICK poke \in Pokes, width \in {"word", "byte", "block"} :
          LET a == poke[1] IN
          IF Noticed(a)[width]
          THEN Flush(tag, span, cache, blockPtrs) /\ LookUp(run.pc + 1)
          ELSE /\ unseen' = IF Missed(a, width) THEN unseen \cup {a} ELSE unseen
               /\ UNCHANGED <<tags, blockPtrs, ptr, flushes, leftover>>
    BY <1>6 DEF Store
  <2>2. poke[1] \in Addr
    BY ProgramsAssumption
  <2>3. CASE Noticed(poke[1])[width]
    BY <1>4, <2>1, <2>3 DEF TypeOK, LookUp
  <2>4. CASE ~Noticed(poke[1])[width]
    <3>1. /\ unseen' = IF Missed(poke[1], width) THEN unseen \cup {poke[1]} ELSE unseen
          /\ UNCHANGED <<tag, tagTop, blockPtrs, ptr, flushes, leftover>>
      BY <2>1, <2>4 DEF tags
    <3> QED BY <1>1, <2>2, <3>1 DEF TypeOK
  <2> QED BY <2>3, <2>4
<1>7. CASE LoadState
  BY <1>4, <1>7 DEF LoadState, LookUp, TypeOK
<1>8. CASE Reset
  <2>1. FirstTag \in FirstTag .. Mark /\ NoBlocks \in [FirstTag .. MaxTag -> Cells]
    BY SizesAssumption DEF Mark, FirstTag, NoBlocks, Cells
  <2> QED BY <1>1, <1>8, <2>1 DEF Reset, LookUp, TypeOK
<1> QED BY <1>2, <1>3, <1>5, <1>6, <1>7, <1>8 DEF Next, Lookup, Guest

-----------------------------------------------------------------------------
(* What makes the code that is run the code of the guest's pc: every tag   *)
(* leads to its block, every cell to the next and every exit to the block  *)
(* it is for, unless a translation in progress is still to patch it.       *)
Leads(cells, top, place, pc) == place \in 0 .. top - 1 /\ cells[place].pc = pc

TagsLead(tags_, tagEnd, ptrs, cells, top) ==
  \A a \in Addr : Entry(tags_[a]) =>
    tags_[a] < tagEnd /\ Leads(cells, top, ptrs[tags_[a]], a)

Open(frames) == {c \in Cells : \E i \in 1 .. Len(frames) : c \in frames[i].exits}

Joined(cells, top, open) ==
  \A c \in 0 .. top - 1 :
    /\ cells[c].word.op \in {"op", "branch"} => Leads(cells, top, c + 1, cells[c].pc + 1)
    /\ Direct(cells[c].word) => c \in open \/ Leads(cells, top, cells[c].link, cells[c].word.arg)

Wanted(cells, frame) == cells[Min(frame.exits)].word.arg

(* Each translation waits for the one after it, the last one for pc. *)
Waits(cells, frames, pc) ==
  frames # <<>> => frames[Len(frames)].exits # {} /\ Wanted(cells, frames[Len(frames)]) = pc

Nested(cells, top, frames) ==
  \A i \in 1 .. Len(frames) :
    /\ Leads(cells, top, frames[i].at, frames[i].pc)
    /\ frames[i].exits \subseteq 0 .. top - 1
    /\ i < Len(frames) => frames[i].exits # {} /\ Wanted(cells, frames[i]) = frames[i + 1].pc

Spanned(tags_, spans) ==
  \A a \in Addr : Entry(tags_[a]) =>
    /\ spans[Region(a)].min # None /\ spans[Region(a)].max # None
    /\ spans[Region(a)].min <= a /\ a < spans[Region(a)].max

CellTypes == cache \in [Cells -> [pc : Int, word : Words, link : Int]]
SpanTypes == span \in [{"iwram", "ewram"} -> [min : Int, max : Int]]

Chained ==
  /\ TagsLead(tag, tagTop, blockPtrs, cache, ptr)
  /\ Joined(cache, ptr, Open(stack))
  /\ Nested(cache, ptr, stack)
  /\ call = "lookup" => Waits(cache, stack, want)
  /\ call = "run" => Leads(cache, ptr, run.at, run.pc)
  /\ Spanned(tag, span)

CInv ==
  /\ IInv /\ TypeOK /\ CellTypes /\ SpanTypes
  /\ \A a \in leftover : Entry(tag[a])
  /\ call = "run" => stack = <<>>
  /\ call = "redo" => ptr = 0 /\ stack = <<>> /\ \A a \in Addr : Entry(tag[a]) => a \in leftover
  /\ leftover = {} => Chained

LEMMA Regions ==
  /\ \A a \in Addr : Region(a) \in {"iwram", "ewram"}
  /\ \A a \in Addr : a >= 0 /\ a \in Int
  BY Numbers DEF Region

(* Cells that keep their address and word keep what is known of them. *)
LEMMA SameLeads ==
  ASSUME NEW old, NEW new, SameCode(new, old), NEW top \in 0 .. Limit, NEW place, NEW pc
  PROVE  Leads(old, top, place, pc) <=> Leads(new, top, place, pc)
  BY SizesAssumption DEF Leads, SameCode, Cells

LEMMA MinExit ==
  ASSUME NEW frame \in Frame, frame.exits # {}
  PROVE  Min(frame.exits) \in frame.exits /\ Min(frame.exits) \in Cells
  BY MinOfNat, SizesAssumption DEF Frame, Cells

LEMMA SameWanted ==
  ASSUME NEW old, NEW new, SameCode(new, old), NEW frame \in Frame, frame.exits # {}
  PROVE  Wanted(new, frame) = Wanted(old, frame)
  BY MinExit DEF SameCode, Wanted

(* A place that is handed on leads to where it was wanted. *)
LEMMA DeliverChains ==
  ASSUME NEW frames \in Seq(Frame), NEW pc, NEW place, Coded(cache), CellTypes,
         ptr \in 0 .. Limit,
         Joined(cache, ptr, Open(frames)), Nested(cache, ptr, frames),
         Waits(cache, frames, pc), Leads(cache, ptr, place, pc),
         Deliver(pc, place, frames, cache)
  PROVE  /\ SameCode(cache', cache)
         /\ Joined(cache', ptr, Open(stack')) /\ Nested(cache', ptr, stack')
         /\ call' = "run" => stack' = <<>> /\ Leads(cache', ptr, run'.at, run'.pc)
         /\ call' \in {"run", "link"}
<1>1. SameCode(cache', cache) /\ call' \in {"run", "link"}
  BY DeliverKeeps
<1>2. CASE frames = <<>>
  <2>1. /\ call' = "run" /\ run' = [pc |-> pc, at |-> place] /\ cache' = cache /\ stack' = frames
    BY <1>2 DEF Deliver
  <2> QED BY <1>1, <1>2, <2>1
<1>3. CASE frames # <<>>
  <2> DEFINE top == Len(frames)
             exit == Min(frames[top].exits)
             rest == [frames[top] EXCEPT !.exits = @ \ {exit}]
  <2>1. /\ top \in 1 .. Len(frames) /\ frames[top] \in Frame /\ frames[top].exits # {}
        /\ cache[exit].word.arg = pc
    BY <1>3 DEF Waits, Wanted
  <2>2. exit \in frames[top].exits /\ exit \in Cells
    BY <2>1, MinExit
  <2>3. /\ call' = "link" /\ cache' = [cache EXCEPT ![exit].link = place]
        /\ stack' = [frames EXCEPT ![top].exits = @ \ {exit}]
    BY <1>3 DEF Deliver
  <2>4. rest \in Frame
    BY <2>1 DEF Frame
  <2> HIDE DEF exit
  <2>5. /\ stack' = [frames EXCEPT ![top] = rest] /\ Len(stack') = top
        /\ stack'[top] = rest
        /\ \A i \in 1 .. top : i # top => stack'[i] = frames[i]
    <3>1. stack' = [frames EXCEPT ![top] = rest]
      BY <2>3 DEF rest, exit
    <3> HIDE DEF rest
    <3>2. /\ [frames EXCEPT ![top] = rest] \in Seq(Frame)
          /\ Len([frames EXCEPT ![top] = rest]) = Len(frames)
          /\ \A i \in 1 .. top : [frames EXCEPT ![top] = rest][i] = IF i = top THEN rest ELSE frames[i]
      BY <2>1, <2>4, ExceptSeq
    <3> QED BY <2>1, <3>1, <3>2
  <2>6. /\ rest.at = frames[top].at /\ rest.pc = frames[top].pc
        /\ rest.exits = frames[top].exits \ {exit}
    BY <2>1 DEF Frame
  <2> HIDE DEF rest
  <2>7. \A i \in 1 .. top : frames[i] \in Frame
    OBVIOUS
  <2>8. \A c \in Open(frames) : c # exit => c \in Open(stack')
    <3> SUFFICES ASSUME NEW c \in Open(frames), c # exit PROVE c \in Open(stack')
      OBVIOUS
    <3>1. PICK i \in 1 .. top : c \in frames[i].exits
      BY DEF Open
    <3>2. c \in stack'[i].exits
      BY <2>5, <2>6, <3>1
    <3> QED BY <2>5, <3>2 DEF Open
  <2>9. /\ \A c \in Cells : cache'[c].pc = cache[c].pc /\ cache'[c].word = cache[c].word
        /\ \A c \in Cells : c # exit => cache'[c].link = cache[c].link
        /\ cache'[exit].link = place
    <3>1. \A c \in Cells : c # exit => cache'[c] = cache[c]
      BY <2>3 DEF Coded
    <3>2. cache'[exit].link = place
      <4>1. cache'[exit] = [cache[exit] EXCEPT !.link = place]
        BY <2>2, <2>3 DEF Coded
      <4>2. cache[exit] \in [pc : Int, word : Words, link : Int]
        BY <2>2 DEF CellTypes
      <4> QED BY <4>1, <4>2
    <3> QED BY <1>1, <3>1, <3>2 DEF SameCode
  <2>10. Joined(cache', ptr, Open(stack'))
    <3> SUFFICES ASSUME NEW c \in 0 .. ptr - 1
                 PROVE  /\ cache'[c].word.op \in {"op", "branch"} =>
                             Leads(cache', ptr, c + 1, cache'[c].pc + 1)
                        /\ Direct(cache'[c].word) =>
                             c \in Open(stack') \/ Leads(cache', ptr, cache'[c].link, cache'[c].word.arg)
      BY DEF Joined
    <3>1. c \in Cells
      BY SizesAssumption DEF Cells
    <3>2. cache'[c].pc = cache[c].pc /\ cache'[c].word = cache[c].word
      BY <2>9, <3>1
    <3>3. /\ cache[c].word.op \in {"op", "branch"} => Leads(cache, ptr, c + 1, cache[c].pc + 1)
          /\ Direct(cache[c].word) =>
               c \in Open(frames) \/ Leads(cache, ptr, cache[c].link, cache[c].word.arg)
      BY DEF Joined
    <3>4. CASE c = exit
      BY <1>1, <2>1, <2>9, <3>2, <3>3, <3>4, SameLeads DEF exit
    <3>5. CASE c # exit
      BY <1>1, <2>8, <2>9, <3>1, <3>2, <3>3, <3>5, SameLeads
    <3> QED BY <3>4, <3>5
  <2>11. Nested(cache', ptr, stack')
    <3> SUFFICES ASSUME NEW i \in 1 .. top
                 PROVE  /\ Leads(cache', ptr, stack'[i].at, stack'[i].pc)
                        /\ stack'[i].exits \subseteq 0 .. ptr - 1
                        /\ i < top => stack'[i].exits # {}
                                      /\ Wanted(cache', stack'[i]) = stack'[i + 1].pc
      BY <2>5 DEF Nested
    <3>1. /\ Leads(cache, ptr, frames[i].at, frames[i].pc)
          /\ frames[i].exits \subseteq 0 .. ptr - 1
          /\ i < top => frames[i].exits # {} /\ Wanted(cache, frames[i]) = frames[i + 1].pc
      BY DEF Nested
    <3>2. stack'[i].at = frames[i].at /\ stack'[i].pc = frames[i].pc
      BY <2>5, <2>6
    <3>3. stack'[i].exits \subseteq frames[i].exits
      BY <2>5, <2>6
    <3>4. Leads(cache', ptr, stack'[i].at, stack'[i].pc)
      BY <1>1, <3>1, <3>2, SameLeads
    <3>5. ASSUME i < top
          PROVE  stack'[i].exits # {} /\ Wanted(cache', stack'[i]) = stack'[i + 1].pc
      <4>1. stack'[i] = frames[i] /\ i + 1 \in 1 .. top
        BY <2>1, <2>5, <3>5
      <4>2. stack'[i + 1].pc = frames[i + 1].pc
        BY <2>5, <2>6, <4>1
      <4>3. Wanted(cache', frames[i]) = Wanted(cache, frames[i])
        BY <1>1, <2>7, <3>1, <3>5, SameWanted
      <4> QED BY <3>1, <3>5, <4>1, <4>2, <4>3
    <3> QED BY <3>1, <3>3, <3>4, <3>5
  <2> QED BY <1>1, <2>3, <2>10, <2>11
<1> QED BY <1>2, <1>3

LEMMA DeliverTypes ==
  ASSUME CellTypes, NEW pc, NEW place \in Int, NEW frames, Deliver(pc, place, frames, cache)
  PROVE  CellTypes' /\ call' \in {"run", "link"} /\ (call' = "run" => stack' = <<>>)
<1>1. CASE frames = <<>>
  BY <1>1 DEF Deliver, CellTypes
<1>2. CASE frames # <<>>
  <2> DEFINE exit == Min(frames[Len(frames)].exits)
  <2>1. call' = "link" /\ cache' = [cache EXCEPT ![exit].link = place]
    BY <1>2 DEF Deliver
  <2> HIDE DEF exit
  <2>2. CASE exit \in Cells
    <3>1. cache[exit] \in [pc : Int, word : Words, link : Int]
      BY <2>2 DEF CellTypes
    <3>2. [cache[exit] EXCEPT !.link = place] \in [pc : Int, word : Words, link : Int]
      BY <3>1
    <3>3. cache' = [cache EXCEPT ![exit] = [cache[exit] EXCEPT !.link = place]]
      BY <2>1
    <3> QED BY <2>1, <3>2, <3>3 DEF CellTypes
  <2>3. CASE exit \notin Cells
    BY <2>1, <2>3 DEF CellTypes
  <2> QED BY <2>1, <2>2, <2>3
<1> QED BY <1>1, <1>2

LEMMA FoundChains == ASSUME CInv, Found PROVE CInv'
<1>1. IInv' /\ TypeOK'
  BY FoundStep, TypeStep DEF CInv, Next, Lookup
<1>2. /\ call = "lookup" /\ Entry(tag[want]) /\ want \in Addr /\ stack \in Seq(Frame)
      /\ Deliver(want, blockPtrs[tag[want]], stack, cache)
      /\ UNCHANGED <<tag, tagTop, span, blockPtrs, ptr, want, leftover>>
      /\ ptr \in 0 .. Limit /\ Coded(cache) /\ CellTypes
  BY DEF Found, tags, CInv, IInv, Calls, Cache
<1>3. blockPtrs[tag[want]] \in Int
  <2>1. tag[want] \in FirstTag .. MaxTag
    BY <1>2, SizesAssumption DEF CInv, TypeOK, Entry, FirstTag, Mark
  <2> QED BY <2>1, SizesAssumption DEF CInv, TypeOK, Cells
<1>4. CellTypes' /\ call' \in {"run", "link"} /\ (call' = "run" => stack' = <<>>)
  BY <1>2, <1>3, DeliverTypes
<1>5. ASSUME leftover' = {} PROVE Chained'
  <2>1. Chained
    BY <1>2, <1>5 DEF CInv
  <2>2. Leads(cache, ptr, blockPtrs[tag[want]], want)
    BY <1>2, <2>1 DEF Chained, TagsLead
  <2>3. /\ SameCode(cache', cache)
        /\ Joined(cache', ptr, Open(stack')) /\ Nested(cache', ptr, stack')
        /\ call' = "run" => stack' = <<>> /\ Leads(cache', ptr, run'.at, run'.pc)
    BY <1>2, <2>1, <2>2, DeliverChains DEF Chained
  <2>4. TagsLead(tag, tagTop, blockPtrs, cache', ptr)
    BY <1>2, <2>1, <2>3, SameLeads DEF Chained, TagsLead
  <2> QED BY <1>2, <1>4, <2>1, <2>3, <2>4 DEF Chained
<1> QED BY <1>1, <1>2, <1>4, <1>5 DEF CInv, SpanTypes

(* The exits of the last translation are all patched: what is open is      *)
(* what the translations around it left open.                              *)
LEMMA LinkedChains == ASSUME CInv, Linked PROVE CInv'
<1> DEFINE frame == stack[Len(stack)]
           outer == Front(stack)
<1>1. IInv' /\ TypeOK'
  BY LinkedStep, TypeStep DEF CInv, Next, Lookup
<1>2. /\ call = "link" /\ stack \in Seq(Frame) /\ stack # <<>> /\ frame.exits = {}
      /\ Deliver(frame.pc, frame.at, outer, cache)
      /\ UNCHANGED <<tag, tagTop, span, blockPtrs, ptr, want, leftover>>
      /\ ptr \in 0 .. Limit /\ Coded(cache) /\ CellTypes
  BY DEF Linked, tags, CInv, IInv, Calls, Cache
<1>3. /\ outer \in Seq(Frame) /\ Len(outer) = Len(stack) - 1 /\ frame \in Frame
      /\ \A i \in 1 .. Len(outer) : outer[i] = stack[i]
  BY <1>2, OuterFrames
<1>4. frame.at \in Int
  BY <1>3 DEF Frame
<1> HIDE DEF outer
<1>5. CellTypes' /\ call' \in {"run", "link"} /\ (call' = "run" => stack' = <<>>)
  BY <1>2, <1>4, DeliverTypes
<1>6. ASSUME leftover' = {} PROVE Chained'
  <2>1. Chained
    BY <1>2, <1>6 DEF CInv
  <2>2. Len(stack) \in 1 .. Len(stack)
    BY <1>2
  <2>3. Leads(cache, ptr, frame.at, frame.pc)
    BY <2>1, <2>2 DEF Chained, Nested
  <2>4. Nested(cache, ptr, outer)
    <3> SUFFICES ASSUME NEW i \in 1 .. Len(outer)
                 PROVE  /\ Leads(cache, ptr, outer[i].at, outer[i].pc)
                        /\ outer[i].exits \subseteq 0 .. ptr - 1
                        /\ i < Len(outer) => outer[i].exits # {}
                             /\ Wanted(cache, outer[i]) = outer[i + 1].pc
      BY DEF Nested
    <3>1. i \in 1 .. Len(stack) /\ i < Len(stack) /\ outer[i] = stack[i]
      BY <1>2, <1>3
    <3>2. i < Len(outer) => outer[i + 1] = stack[i + 1]
      BY <1>2, <1>3
    <3> QED BY <2>1, <3>1, <3>2 DEF Chained, Nested
  <2>5. Waits(cache, outer, frame.pc)
    <3> SUFFICES ASSUME outer # <<>>
                 PROVE  outer[Len(outer)].exits # {} /\ Wanted(cache, outer[Len(outer)]) = frame.pc
      BY DEF Waits
    <3>1. Len(outer) \in 1 .. Len(stack) /\ Len(outer) < Len(stack) /\ Len(outer) + 1 = Len(stack)
          /\ outer[Len(outer)] = stack[Len(outer)]
      BY <1>2, <1>3
    <3> QED BY <2>1, <3>1 DEF Chained, Nested
  <2>6. Joined(cache, ptr, Open(outer))
    <3>1. Open(stack) = Open(outer)
      <4>1. ASSUME NEW c \in Cells, NEW i \in 1 .. Len(stack), c \in stack[i].exits
            PROVE  i \in 1 .. Len(outer) /\ c \in outer[i].exits
        <5>1. i # Len(stack)
          BY <1>2, <4>1
        <5> QED BY <1>2, <1>3, <4>1, <5>1
      <4>2. ASSUME NEW c \in Cells, NEW i \in 1 .. Len(outer), c \in outer[i].exits
            PROVE  i \in 1 .. Len(stack) /\ c \in stack[i].exits
        BY <1>2, <1>3, <4>2
      <4> QED BY <4>1, <4>2 DEF Open
    <3> QED BY <2>1, <3>1 DEF Chained
  <2>7. /\ SameCode(cache', cache)
        /\ Joined(cache', ptr, Open(stack')) /\ Nested(cache', ptr, stack')
        /\ call' = "run" => stack' = <<>> /\ Leads(cache', ptr, run'.at, run'.pc)
    <3> HIDE DEF frame
    <3> QED BY <1>2, <1>3, <2>3, <2>4, <2>5, <2>6, DeliverChains
  <2>8. TagsLead(tag, tagTop, blockPtrs, cache', ptr)
    BY <1>2, <2>1, <2>7, SameLeads DEF Chained, TagsLead
  <2> QED BY <1>2, <1>5, <2>1, <2>7, <2>8 DEF Chained
<1> QED BY <1>1, <1>2, <1>5, <1>6 DEF CInv, SpanTypes

LEMMA LinkChains == ASSUME CInv, Link PROVE CInv'
<1>1. IInv' /\ TypeOK'
  BY LinkStep, TypeStep DEF CInv, Next, Lookup
<1>2. /\ call = "link" /\ call' = "lookup"
      /\ stack[Len(stack)].exits # {} /\ want' = Wanted(cache, stack[Len(stack)])
      /\ UNCHANGED <<tag, tagTop, span, blockPtrs, cache, ptr, stack, leftover>>
  BY DEF Link, tags, Wanted
<1>3. Chained => Chained'
  BY <1>2 DEF Chained, Waits
<1> QED BY <1>1, <1>2, <1>3 DEF CInv, SpanTypes, CellTypes

-----------------------------------------------------------------------------
(* A block runs into its last word only to leave it.                       *)
LEMMA LastWord ==
  ASSUME Memory, NEW pc \in Addr
  PROVE  mem[BlockEnd(pc) - 1].op \in {"jump", "exit"}
<1> DEFINE S == {end \in pc + 1 .. Top : EndsAt(pc, end)}
<1>1. EndsAt(pc, Top)
  BY Zenon DEF EndsAt
<1>2. Top \in S /\ S \subseteq Nat
  BY <1>1, Numbers
<1>3. Min(S) \in S
  BY <1>2, MinOfNat
<1>4. BlockEnd(pc) = Min(S)
  BY DEF BlockEnd
<1>5. EndsAt(pc, BlockEnd(pc))
  BY <1>3, <1>4
<1> HIDE DEF S
<1>6. mem[BlockEnd(pc) - 1].op \in {"jump", "exit"} \/ BlockEnd(pc) = Top
  BY <1>5 DEF EndsAt
<1> QED BY <1>6 DEF Memory

(* The exits of a new block are linked within it, or left open.            *)
LEMMA GeneratedLinks ==
  ASSUME Memory, CellTypes, NEW pc \in Addr, NEW at \in Nat
  PROVE  /\ Generated(pc, at) \in [Cells -> [pc : Int, word : Words, link : Int]]
         /\ \A c \in Cells :
              /\ at <= c /\ c < at + Size(pc)
              /\ Direct(mem[pc + (c - at)]) /\ mem[pc + (c - at)].arg \in Block(pc)
              => Generated(pc, at)[c].link = at + (mem[pc + (c - at)].arg - pc)
<1> DEFINE block == Block(pc)
           link(a) == IF Direct(mem[a]) /\ mem[a].arg \in block
                      THEN at + (mem[a].arg - pc) ELSE None
           code(a) == [pc |-> a, word |-> mem[a], link |-> link(a)]
<1>1. block = pc .. pc + Size(pc) - 1 /\ block \subseteq Addr /\ Size(pc) \in Nat
  BY BlockType
<1>2. Generated(pc, at) =
        [c \in Cells |-> IF c >= at /\ pc + (c - at) \in block
                         THEN code(pc + (c - at)) ELSE cache[c]]
  BY DEF Generated
<1>3. \A a \in block : mem[a] \in Words /\ a \in Int
  BY <1>1, Numbers DEF Memory
<1>4. \A a \in block : link(a) \in Int
  BY <1>3, <1>1, Numbers DEF Words, None
<1>5. \A a \in block : code(a) \in [pc : Int, word : Words, link : Int]
  <2> HIDE DEF link
  <2> QED BY <1>3, <1>4
<1>6. \A a \in block : Direct(mem[a]) /\ mem[a].arg \in block => code(a).link = at + (mem[a].arg - pc)
  OBVIOUS
<1> HIDE DEF code, link, block
<1>7. \A c \in Cells : c \in Int
  BY SizesAssumption DEF Cells
<1>8. Generated(pc, at) \in [Cells -> [pc : Int, word : Words, link : Int]]
  BY <1>2, <1>5 DEF CellTypes
<1>9. ASSUME NEW c \in Cells, at <= c, c < at + Size(pc),
             Direct(mem[pc + (c - at)]), mem[pc + (c - at)].arg \in block
      PROVE  Generated(pc, at)[c].link = at + (mem[pc + (c - at)].arg - pc)
  <2>1. pc + (c - at) \in block /\ c >= at
    BY <1>1, <1>7, <1>9, Numbers
  <2>2. Generated(pc, at)[c] = code(pc + (c - at))
    BY <1>2, <2>1
  <2> QED BY <1>6, <1>9, <2>1, <2>2
<1> QED BY <1>8, <1>9 DEF block

(* The spans only grow, and reach over the new block.                      *)
LEMMA SpanGrows ==
  ASSUME SpanTypes, NEW pc \in Addr, NEW end \in Int, end > pc, NEW s,
         s = Extended(Widened(span, pc), pc, end)
  PROVE  /\ s \in [{"iwram", "ewram"} -> [min : Int, max : Int]]
         /\ s[Region(pc)].min # None /\ s[Region(pc)].max # None
         /\ s[Region(pc)].min <= pc /\ pc < s[Region(pc)].max
         /\ \A r \in {"iwram", "ewram"} : span[r].min # None /\ span[r].max # None =>
              /\ s[r].min # None /\ s[r].max # None
              /\ s[r].min <= span[r].min /\ span[r].max <= s[r].max
<1> DEFINE here == Region(pc)
           min == IF span[here].min = None \/ pc < span[here].min THEN pc ELSE span[here].min
           max == IF span[here].max = None \/ end > span[here].max THEN end ELSE span[here].max
<1>1. here \in {"iwram", "ewram"} /\ pc >= 0 /\ pc \in Int
  BY Regions
<1> HIDE DEF here
<1>2. \A r \in {"iwram", "ewram"} : span[r] \in [min : Int, max : Int]
  BY DEF SpanTypes
<1>3. /\ min \in Int /\ max \in Int /\ min # None /\ max # None
      /\ min <= pc /\ pc < max
      /\ span[here].min # None => min <= span[here].min
      /\ span[here].max # None => span[here].max <= max
  BY <1>1, <1>2 DEF None
<1>4. Widened(span, pc) = [span EXCEPT ![here] = [span[here] EXCEPT !.min = min]]
  BY DEF Widened, here
<1>5. /\ Widened(span, pc) \in [{"iwram", "ewram"} -> [min : Int, max : Int]]
      /\ Widened(span, pc)[here].min = min /\ Widened(span, pc)[here].max = span[here].max
      /\ \A r \in {"iwram", "ewram"} : r # here => Widened(span, pc)[r] = span[r]
  <2> HIDE DEF min
  <2> QED BY <1>1, <1>2, <1>3, <1>4 DEF SpanTypes
<1> DEFINE w == Widened(span, pc)
<1>6. s = [w EXCEPT ![here] = [w[here] EXCEPT !.max = max]]
  BY <1>5 DEF Extended, here
<1> HIDE DEF min, max, w
<1>7. /\ s \in [{"iwram", "ewram"} -> [min : Int, max : Int]]
      /\ s[here].min = min /\ s[here].max = max
      /\ \A r \in {"iwram", "ewram"} : r # here => s[r] = span[r]
  BY <1>1, <1>3, <1>5, <1>6 DEF w
<1>8. ASSUME NEW r \in {"iwram", "ewram"}, span[r].min # None, span[r].max # None
      PROVE  /\ s[r].min # None /\ s[r].max # None
             /\ s[r].min <= span[r].min /\ span[r].max <= s[r].max
  <2>1. CASE r = here
    BY <1>3, <1>7, <1>8, <2>1
  <2>2. CASE r # here
    BY <1>2, <1>7, <1>8, <2>2
  <2> QED BY <2>1, <2>2
<1> QED BY <1>3, <1>7, <1>8 DEF here

-----------------------------------------------------------------------------
(* Before a block is generated everything but its own tag is chained, in a *)
(* lookup as in the second attempt, which starts with empty caches.        *)
OthersLead(tags_) ==
  \A a \in Addr : a # want /\ Entry(tags_[a]) =>
    /\ tags_[a] < tagTop /\ Leads(cache, ptr, blockPtrs[tags_[a]], a)
    /\ span[Region(a)].min # None /\ span[Region(a)].max # None
    /\ span[Region(a)].min <= a /\ a < span[Region(a)].max

LEMMA MissingChains ==
  ASSUME CInv, Missing, leftover \ {want} = {}
  PROVE  /\ OthersLead(tag)
         /\ Joined(cache, ptr, Open(stack)) /\ Nested(cache, ptr, stack)
         /\ Waits(cache, stack, want)
<1>1. CASE call = "lookup"
  <2>1. leftover = {}
    BY <1>1 DEF CInv, Missing
  <2>2. Chained
    BY <2>1 DEF CInv
  <2> QED BY <1>1, <2>2 DEF Chained, TagsLead, Spanned, OthersLead
<1>2. CASE call = "redo"
  <2>1. ptr = 0 /\ stack = <<>> /\ \A a \in Addr : Entry(tag[a]) => a = want
    BY <1>2 DEF CInv
  <2>2. OthersLead(tag)
    BY <2>1, Zenon DEF OthersLead
  <2> QED BY <2>1, <2>2 DEF Joined, Nested, Waits
<1> QED BY <1>1, <1>2 DEF Missing

LEMMA TranslateChains == ASSUME CInv, Translate PROVE CInv'
<1> DEFINE size == Size(want)
           top == ptr + size
           cells == Generated(want, ptr)
           open == {ptr + (a - want) : a \in External(want)}
           frame == [pc |-> want, at |-> ptr, exits |-> open]
<1>1. IInv' /\ TypeOK' /\ Missing
  BY TranslateStep, TypeStep DEF CInv, Next, Lookup, Translate
<1>2. /\ want \in Addr /\ ptr \in 0 .. Limit /\ ptr \in Nat /\ Coded(cache) /\ Memory /\ CellTypes
      /\ stack \in Seq(Frame) /\ want \in Int /\ want >= 0
  BY Regions, SizesAssumption DEF CInv, IInv, Calls, Cache
<1>3. /\ size \in Nat \ {0} /\ Block(want) = want .. want + size - 1
      /\ Block(want) \subseteq Addr /\ BlockEnd(want) = want + size /\ BlockEnd(want) \in Int
  BY <1>2, BlockType, BlockEnds, Numbers DEF Size
<1>4. /\ tag' = Marked /\ tagTop' = tagTop + 1 /\ ptr' = top /\ top <= Limit
      /\ blockPtrs' = [blockPtrs EXCEPT ![tagTop] = ptr]
      /\ cache' = cells /\ stack' = Append(stack, frame) /\ call' = "link"
      /\ span' = Extended(Widened(span, want), want, BlockEnd(want))
      /\ leftover' = leftover \ {want} /\ want' = want
  BY DEF Translate, Fits
<1>5. /\ \A c \in Cells : c < ptr => cells[c] = cache[c]
      /\ \A c \in Cells : ptr <= c /\ c < top =>
           cells[c].pc = want + (c - ptr) /\ cells[c].word = mem[want + (c - ptr)]
  BY <1>2, GeneratedCode
<1>6. /\ cells \in [Cells -> [pc : Int, word : Words, link : Int]]
      /\ \A c \in Cells :
           /\ ptr <= c /\ c < top
           /\ Direct(mem[want + (c - ptr)]) /\ mem[want + (c - ptr)].arg \in Block(want)
           => cells[c].link = ptr + (mem[want + (c - ptr)].arg - want)
  BY <1>2, GeneratedLinks
<1>7. /\ Marked[want] = tagTop /\ tagTop \in FirstTag .. MaxTag
      /\ \A a \in Addr : a # want /\ Entry(Marked[a]) => Marked[a] = tag[a]
      /\ \A a \in Addr : Entry(tag[a]) => Entry(Marked[a])
      /\ blockPtrs \in [FirstTag .. MaxTag -> Cells]
  BY MarkedTypes DEF CInv, Translate, TypeOK
<1>8. /\ span' \in [{"iwram", "ewram"} -> [min : Int, max : Int]]
      /\ span'[Region(want)].min # None /\ span'[Region(want)].max # None
      /\ span'[Region(want)].min <= want /\ want < span'[Region(want)].max
      /\ \A r \in {"iwram", "ewram"} : span[r].min # None /\ span[r].max # None =>
           /\ span'[r].min # None /\ span'[r].max # None
           /\ span'[r].min <= span[r].min /\ span[r].max <= span'[r].max
  <2>1. BlockEnd(want) > want
    BY <1>2, <1>3
  <2> QED BY <1>2, <1>3, <1>4, <2>1, SpanGrows DEF CInv
<1>9. mem[want + size - 1].op \in {"jump", "exit"}
  BY <1>2, <1>3, LastWord
<1>10. \A a \in Block(want) : mem[a] \in Words
  BY <1>2, <1>3 DEF Memory
<1>11. External(want) = {a \in Block(want) : Direct(mem[a]) /\ mem[a].arg \notin Block(want)}
  BY DEF External
<1>12. open \subseteq ptr .. top - 1
  BY <1>2, <1>3, <1>11
<1>13. \A c \in Cells : c \in Int /\ c >= 0
  BY SizesAssumption DEF Cells
<1>14. 0 .. top - 1 \subseteq Cells
  BY <1>2, <1>3, <1>4, SizesAssumption DEF Cells
<1>15. frame \in Frame
  <2>1. open \subseteq Cells
    BY <1>2, <1>12, <1>14, SMTT(60)
  <2> HIDE DEF open
  <2> QED BY <1>2, <2>1 DEF Frame
<1>16. /\ Len(stack') = Len(stack) + 1 /\ stack'[Len(stack) + 1] = frame
       /\ \A i \in 1 .. Len(stack) : stack'[i] = stack[i]
  <2> HIDE DEF frame
  <2> QED BY <1>2, <1>4, <1>15, AppendProperties
<1>17. frame.pc = want /\ frame.at = ptr /\ frame.exits = open
  OBVIOUS
<1> HIDE DEF size, cells, open, frame
<1>18. \A place, pc : Leads(cache, ptr, place, pc) => Leads(cells, top, place, pc)
  <2> SUFFICES ASSUME NEW place, NEW pc, Leads(cache, ptr, place, pc)
               PROVE  Leads(cells, top, place, pc)
    OBVIOUS
  <2>1. place \in 0 .. ptr - 1 /\ cache[place].pc = pc
    BY DEF Leads
  <2>2. place \in 0 .. top - 1
    BY <1>2, <1>3, <2>1
  <2>3. cells[place] = cache[place]
    BY <1>2, <1>5, <1>14, <2>1, <2>2
  <2> QED BY <2>1, <2>2, <2>3 DEF Leads
<1>19. \A a \in Block(want) : Leads(cells, top, ptr + (a - want), a)
  <2> SUFFICES ASSUME NEW a \in Block(want) PROVE Leads(cells, top, ptr + (a - want), a)
    OBVIOUS
  <2>1. /\ ptr + (a - want) \in 0 .. top - 1 /\ ptr <= ptr + (a - want)
        /\ want + ((ptr + (a - want)) - ptr) = a
    BY <1>2, <1>3
  <2>2. cells[ptr + (a - want)].pc = a
    BY <1>2, <1>3, <1>5, <1>14, <2>1
  <2> QED BY <2>1, <2>2 DEF Leads
<1>20. ASSUME leftover' = {} PROVE Chained'
  <2>1. /\ OthersLead(tag)
        /\ Joined(cache, ptr, Open(stack)) /\ Nested(cache, ptr, stack)
        /\ Waits(cache, stack, want)
    BY <1>1, <1>4, <1>20, MissingChains
  <2>2. Leads(cells, top, ptr, want)
    <3>1. want \in Block(want) /\ ptr + (want - want) = ptr
      BY <1>2, <1>3
    <3> HIDE DEF top
    <3> QED BY <1>19, <3>1, Zenon
  <2>3. TagsLead(Marked, tagTop + 1, blockPtrs', cells, top)
    <3> SUFFICES ASSUME NEW a \in Addr, Entry(Marked[a])
                 PROVE  Marked[a] < tagTop + 1 /\ Leads(cells, top, blockPtrs'[Marked[a]], a)
      BY DEF TagsLead
    <3>1. CASE a = want
      BY <1>4, <1>7, <2>2, <3>1 DEF FirstTag
    <3>2. CASE a # want
      <4>1. Marked[a] = tag[a]
        BY <1>7, <3>2
      <4>2. tag[a] < tagTop /\ Leads(cells, top, blockPtrs[tag[a]], a)
        BY <1>18, <2>1, <3>2, <4>1 DEF OthersLead
      <4>3. tag[a] \in Nat /\ tagTop \in Int
        BY <1>7, SizesAssumption DEF CInv, IInv, Tags, FirstTag
      <4>4. tag[a] \in FirstTag .. MaxTag
        BY <1>7, <4>1, <4>2, <4>3, SizesAssumption DEF Entry, FirstTag
      <4>5. blockPtrs'[tag[a]] = blockPtrs[tag[a]]
        BY <1>4, <1>7, <4>2, <4>3, <4>4
      <4> QED BY <4>1, <4>2, <4>3, <4>5
    <3> QED BY <3>1, <3>2
  <2>4. Joined(cells, top, Open(stack'))
    <3> SUFFICES ASSUME NEW c \in 0 .. top - 1
                 PROVE  /\ cells[c].word.op \in {"op", "branch"} =>
                             Leads(cells, top, c + 1, cells[c].pc + 1)
                        /\ Direct(cells[c].word) =>
                             c \in Open(stack') \/ Leads(cells, top, cells[c].link, cells[c].word.arg)
      BY DEF Joined
    <3>1. c \in Cells
      BY <1>14
    <3>2. CASE c < ptr
      <4>1. cells[c] = cache[c] /\ c \in 0 .. ptr - 1
        BY <1>2, <1>5, <3>1, <3>2
      <4>2. c \in Open(stack) => c \in Open(stack')
        BY <1>2, <1>16 DEF Open
      <4> QED BY <1>18, <2>1, <4>1, <4>2 DEF Joined
    <3>3. CASE ptr <= c
      <4> DEFINE a == want + (c - ptr)
      <4>1. /\ cells[c].pc = a /\ cells[c].word = mem[a] /\ a \in Block(want)
            /\ c = ptr + (a - want)
        BY <1>2, <1>3, <1>5, <3>1, <3>3
      <4>2. ASSUME mem[a].op \in {"op", "branch"} PROVE Leads(cells, top, c + 1, a + 1)
        <5>1. a # want + size - 1
          BY <1>9, <4>2
        <5>2. a + 1 \in Block(want) /\ ptr + ((a + 1) - want) = c + 1
          BY <1>2, <1>3, <4>1, <5>1
        <5> HIDE DEF a
        <5> QED BY <1>19, <5>2
      <4>3. ASSUME Direct(mem[a]), mem[a].arg \in Block(want)
            PROVE  Leads(cells, top, cells[c].link, mem[a].arg)
        <5>1. cells[c].link = ptr + (mem[a].arg - want)
          BY <1>2, <1>3, <1>6, <3>1, <3>3, <4>3
        <5> HIDE DEF a
        <5> QED BY <1>19, <4>3, <5>1
      <4>4. ASSUME Direct(mem[a]), mem[a].arg \notin Block(want)
            PROVE  c \in Open(stack')
        <5>1. a \in External(want)
          BY <1>11, <4>1, <4>4
        <5> HIDE DEF a
        <5>2. c \in open
          BY <4>1, <5>1 DEF open
        <5>3. Len(stack) + 1 \in 1 .. Len(stack')
          BY <1>2, <1>16
        <5> QED BY <1>16, <1>17, <3>1, <5>2, <5>3 DEF Open
      <4> HIDE DEF a
      <4> QED BY <4>1, <4>2, <4>3, <4>4
    <3> QED BY <1>2, <1>13, <3>1, <3>2, <3>3
  <2>5. Nested(cells, top, stack')
    <3> SUFFICES ASSUME NEW i \in 1 .. Len(stack')
                 PROVE  /\ Leads(cells, top, stack'[i].at, stack'[i].pc)
                        /\ stack'[i].exits \subseteq 0 .. top - 1
                        /\ i < Len(stack') => stack'[i].exits # {}
                             /\ Wanted(cells, stack'[i]) = stack'[i + 1].pc
      BY DEF Nested
    <3>1. CASE i = Len(stack) + 1
      <4>1. stack'[i] = frame /\ ~(i < Len(stack'))
        BY <1>2, <1>16, <3>1
      <4>2. open \subseteq 0 .. top - 1
        BY <1>2, <1>3, <1>12
      <4> QED BY <1>17, <2>2, <4>1, <4>2
    <3>2. CASE i # Len(stack) + 1
      <4>1. i \in 1 .. Len(stack) /\ stack'[i] = stack[i] /\ stack[i] \in Frame
        BY <1>2, <1>16, <3>2
      <4>2. /\ Leads(cache, ptr, stack[i].at, stack[i].pc)
            /\ stack[i].exits \subseteq 0 .. ptr - 1
            /\ i < Len(stack) => stack[i].exits # {}
                 /\ Wanted(cache, stack[i]) = stack[i + 1].pc
        BY <2>1, <4>1 DEF Nested
      <4>3. stack[i].exits # {} /\ Wanted(cache, stack[i]) = stack'[i + 1].pc
        <5>1. CASE i = Len(stack)
          <6>1. stack # <<>>
            BY <1>2, <4>1
          <6> QED BY <1>16, <1>17, <2>1, <5>1, <6>1 DEF Waits
        <5>2. CASE i # Len(stack)
          <6>1. i < Len(stack) /\ i + 1 \in 1 .. Len(stack)
            BY <1>2, <4>1, <5>2
          <6> QED BY <1>16, <4>2, <6>1
        <5> QED BY <5>1, <5>2
      <4>4. Wanted(cells, stack[i]) = Wanted(cache, stack[i])
        <5>1. Min(stack[i].exits) \in stack[i].exits /\ Min(stack[i].exits) \in Cells
          BY <4>1, <4>3, MinExit
        <5>2. cells[Min(stack[i].exits)] = cache[Min(stack[i].exits)]
          BY <1>2, <1>5, <4>2, <5>1
        <5> QED BY <5>2 DEF Wanted
      <4>5. stack[i].exits \subseteq 0 .. top - 1
        BY <1>2, <1>3, <4>2
      <4> QED BY <1>18, <4>1, <4>2, <4>3, <4>4, <4>5
    <3> QED BY <3>1, <3>2
  <2>6. Spanned(Marked, span')
    <3> SUFFICES ASSUME NEW a \in Addr, Entry(Marked[a])
                 PROVE  /\ span'[Region(a)].min # None /\ span'[Region(a)].max # None
                        /\ span'[Region(a)].min <= a /\ a < span'[Region(a)].max
      BY DEF Spanned
    <3>1. CASE a = want
      BY <1>8, <3>1
    <3>2. CASE a # want
      <4>1. tag[a] = Marked[a]
        BY <1>7, <3>2
      <4>2. /\ span[Region(a)].min # None /\ span[Region(a)].max # None
            /\ span[Region(a)].min <= a /\ a < span[Region(a)].max
        BY <2>1, <3>2, <4>1 DEF OthersLead
      <4>3. Region(a) \in {"iwram", "ewram"} /\ a \in Int
        BY Regions
      <4>4. span[Region(a)] \in [min : Int, max : Int] /\ span'[Region(a)] \in [min : Int, max : Int]
        BY <1>8, <4>3 DEF CInv, SpanTypes
      <4>5. /\ span'[Region(a)].min # None /\ span'[Region(a)].max # None
            /\ span'[Region(a)].min <= span[Region(a)].min
            /\ span[Region(a)].max <= span'[Region(a)].max
        BY <1>8, <4>2, <4>3
      <4> QED BY <4>2, <4>3, <4>4, <4>5
    <3> QED BY <3>1, <3>2
  <2> HIDE DEF top
  <2> QED BY <1>4, <2>3, <2>4, <2>5, <2>6 DEF Chained
<1>21. CellTypes' /\ SpanTypes'
  BY <1>4, <1>6, <1>8 DEF CellTypes, SpanTypes
<1>22. \A a \in leftover' : Entry(tag'[a])
  <2>1. \A a \in leftover : Entry(tag[a]) /\ a \in Addr
    BY DEF CInv, TypeOK
  <2> QED BY <1>4, <1>7, <2>1
<1> QED BY <1>1, <1>4, <1>20, <1>21, <1>22 DEF CInv

-----------------------------------------------------------------------------
(* After a flush there is nothing to chain, or a tag was left over.        *)
Cell == [pc : Int, word : Words, link : Int]

LEMMA NoCodeTypes == NoCode \in [Cells -> Cell]
<1>1. NoCell \in Cell
  BY Numbers DEF NoCell, Cell, Words, None
<1> HIDE DEF Cell
<1> QED BY <1>1 DEF NoCode

LEMMA EmptyChains ==
  ASSUME \A a \in Addr : ~Entry(tag'[a]), ptr' = 0, stack' = <<>>, call' # "run"
  PROVE  Chained'
<1>1. TagsLead(tag', tagTop', blockPtrs', cache', 0) /\ Spanned(tag', span')
  BY Zenon DEF TagsLead, Spanned
<1>2. Joined(cache', 0, Open(<<>>)) /\ Nested(cache', 0, <<>>) /\ Waits(cache', <<>>, want')
  BY DEF Joined, Nested, Waits
<1> QED BY <1>1, <1>2 DEF Chained

LEMMA FlushChains ==
  ASSUME NEW t \in [Addr -> {0} \cup FirstTag .. Mark],
         NEW s, DOMAIN s = {"iwram", "ewram"}, NEW cells \in [Cells -> Cell],
         NEW ptrs \in [FirstTag .. MaxTag -> Cells], Flush(t, s, cells, ptrs),
         stack' = <<>>, call' # "run"
  PROVE  /\ CellTypes' /\ SpanTypes' /\ ptr' = 0
         /\ \A a \in Addr : a \in leftover' <=> Entry(tag'[a])
         /\ \A a \in leftover' : a \in Addr
         /\ leftover' = {} => Chained'
<1>1. /\ ptr' = 0 /\ leftover' = {a \in Addr : Entry(tag'[a])}
      /\ span' = [r \in DOMAIN s |-> NoSpan]
  BY FlushTypes
<1>2. cache' \in [Cells -> Cell]
  BY NoCodeTypes DEF Flush
<1>3. SpanTypes'
  BY <1>1 DEF SpanTypes, NoSpan, None
<1>4. leftover' = {} => Chained'
  BY <1>1, EmptyChains
<1> QED BY <1>1, <1>2, <1>3, <1>4 DEF CellTypes, Cell

LEMMA OverflowChains == ASSUME CInv, Overflow PROVE CInv'
<1>1. IInv' /\ TypeOK'
  BY OverflowStep, TypeStep DEF CInv, Next, Lookup
<1>2. call' = "redo" /\ stack' = <<>>
  BY DEF Overflow
<1>3. want \in Addr /\ ptr \in Nat /\ Memory /\ CellTypes /\ SpanTypes
  BY SizesAssumption DEF CInv, IInv, Calls, Cache
<1>4. /\ Marked \in [Addr -> {0} \cup FirstTag .. Mark]
      /\ [blockPtrs EXCEPT ![tagTop] = ptr] \in [FirstTag .. MaxTag -> Cells]
  BY MarkedTypes DEF CInv, Overflow
<1>5. Generated(want, ptr) \in [Cells -> Cell]
  BY <1>3, GeneratedLinks DEF Cell
<1>6. DOMAIN Widened(span, want) = {"iwram", "ewram"}
  BY <1>3 DEF SpanTypes, Widened
<1>7. Flush(Marked, Widened(span, want), Generated(want, ptr),
            [blockPtrs EXCEPT ![tagTop] = ptr])
  BY DEF Overflow
<1>8. /\ CellTypes' /\ SpanTypes' /\ ptr' = 0
      /\ \A a \in Addr : a \in leftover' <=> Entry(tag'[a])
      /\ \A a \in leftover' : a \in Addr
      /\ leftover' = {} => Chained'
  BY <1>2, <1>4, <1>5, <1>6, <1>7, FlushChains
<1> QED BY <1>1, <1>2, <1>8 DEF CInv

(* A flush by the running guest.                                           *)
LEMMA GuestFlushChains ==
  ASSUME CInv, call = "run", Flush(tag, span, cache, blockPtrs),
         call' = "lookup", UNCHANGED stack
  PROVE  /\ CellTypes' /\ SpanTypes' /\ stack' = <<>>
         /\ \A a \in leftover' : Entry(tag'[a])
         /\ leftover' = {} => Chained'
<1>1. /\ tag \in [Addr -> {0} \cup FirstTag .. Mark] /\ stack' = <<>>
      /\ blockPtrs \in [FirstTag .. MaxTag -> Cells]
      /\ cache \in [Cells -> Cell] /\ DOMAIN span = {"iwram", "ewram"}
  BY DEF CInv, TypeOK, CellTypes, SpanTypes, Cell
<1>2. /\ CellTypes' /\ SpanTypes' /\ ptr' = 0
      /\ \A a \in Addr : a \in leftover' <=> Entry(tag'[a])
      /\ \A a \in leftover' : a \in Addr
      /\ leftover' = {} => Chained'
  BY <1>1, FlushChains
<1> QED BY <1>1, <1>2

-----------------------------------------------------------------------------
(* The next cell stands for the next word, and the link of a branch for    *)
(* its target: with no translation in progress nothing is left open.       *)
LEMMA RunLeads ==
  ASSUME CInv, Running, leftover = {}
  PROVE  /\ cache[run.at].word.op \in {"op", "branch"} => Leads(cache, ptr, run.at + 1, run.pc + 1)
         /\ Direct(cache[run.at].word) =>
              Leads(cache, ptr, cache[run.at].link, cache[run.at].word.arg)
<1>1. Chained /\ call = "run" /\ stack = <<>>
  BY DEF CInv, Running
<1>2. run.at \in 0 .. ptr - 1 /\ cache[run.at].pc = run.pc /\ Joined(cache, ptr, Open(stack))
  BY <1>1 DEF Chained, Leads
<1>3. Open(stack) = {}
  BY <1>1 DEF Open
<1> QED BY <1>2, <1>3 DEF Joined

LEMMA RunChains ==
  ASSUME CInv, Running, UNCHANGED <<tag, tagTop, span, blockPtrs, cache, ptr, stack, leftover>>,
         call' = "run", leftover = {} => Leads(cache, ptr, run'.at, run'.pc)
  PROVE  /\ CellTypes' /\ SpanTypes' /\ stack' = <<>>
         /\ \A a \in leftover' : Entry(tag'[a])
         /\ leftover' = {} => Chained'
<1>1. leftover' = {} => Chained'
  BY DEF CInv, Chained
<1> QED BY <1>1 DEF CInv, CellTypes, SpanTypes, Running

LEMMA QuietChains == ASSUME CInv, Step \/ Branch \/ Exit PROVE CInv'
<1>1. IInv' /\ TypeOK' /\ Running
  BY QuietSteps, TypeStep DEF CInv, Next, Guest, Step, Branch, Exit
<1>2. UNCHANGED <<tag, tagTop, span, blockPtrs, cache, ptr, stack, leftover>> /\ call = "run"
  BY DEF Step, Branch, Exit, tags, Running
<1>3. CASE Step
  <2>1. run'.pc = run.pc + 1 /\ run'.at = run.at + 1 /\ call' = "run"
        /\ cache[run.at].word.op \in {"op", "branch"}
    BY <1>2, <1>3 DEF Step, NextCell
  <2>2. /\ CellTypes' /\ SpanTypes' /\ stack' = <<>>
        /\ \A a \in leftover' : Entry(tag'[a])
        /\ leftover' = {} => Chained'
    BY <1>1, <1>2, <2>1, RunLeads, RunChains
  <2> QED BY <1>1, <2>1, <2>2 DEF CInv
<1>4. CASE Branch
  <2>1. run'.pc = cache[run.at].word.arg /\ run'.at = cache[run.at].link /\ call' = "run"
        /\ Direct(cache[run.at].word)
    BY <1>2, <1>4 DEF Branch
  <2>2. /\ CellTypes' /\ SpanTypes' /\ stack' = <<>>
        /\ \A a \in leftover' : Entry(tag'[a])
        /\ leftover' = {} => Chained'
    BY <1>1, <1>2, <2>1, RunLeads, RunChains
  <2> QED BY <1>1, <2>1, <2>2 DEF CInv
<1>5. CASE Exit
  <2>1. call' = "lookup" /\ stack' = <<>>
    BY <1>2, <1>5 DEF Exit, LookUp, CInv
  <2>2. leftover' = {} => Chained'
    BY <1>2, <2>1 DEF CInv, Chained, Waits
  <2> QED BY <1>1, <1>2, <2>1, <2>2 DEF CInv, CellTypes, SpanTypes
<1> QED BY <1>3, <1>4, <1>5

LEMMA StoreChains == ASSUME CInv, Store PROVE CInv'
<1>1. IInv' /\ TypeOK' /\ Running /\ cache[run.at].word.op = "op" /\ stack' = stack /\ call = "run"
  BY StoreStep, TypeStep DEF CInv, Next, Guest, Store, Running
<1>2. PICK poke \in Pokes, width \in {"word", "byte", "block"} :
        LET a == poke[1] IN
        IF Noticed(a)[width]
        THEN Flush(tag, span, cache, blockPtrs) /\ LookUp(run.pc + 1)
        ELSE NextCell /\ UNCHANGED <<tags, blockPtrs, cache, ptr, call, leftover>>
  BY DEF Store
<1>3. CASE Noticed(poke[1])[width]
  <2>1. Flush(tag, span, cache, blockPtrs) /\ call' = "lookup"
    BY <1>2, <1>3 DEF LookUp
  <2>2. /\ CellTypes' /\ SpanTypes' /\ stack' = <<>>
        /\ \A a \in leftover' : Entry(tag'[a])
        /\ leftover' = {} => Chained'
    BY <1>1, <2>1, GuestFlushChains
  <2> QED BY <1>1, <2>1, <2>2 DEF CInv
<1>4. CASE ~Noticed(poke[1])[width]
  <2>1. /\ run'.pc = run.pc + 1 /\ run'.at = run.at + 1 /\ call' = "run"
        /\ UNCHANGED <<tag, tagTop, span, blockPtrs, cache, ptr, stack, leftover>>
    BY <1>1, <1>2, <1>4 DEF NextCell, tags
  <2>2. /\ CellTypes' /\ SpanTypes' /\ stack' = <<>>
        /\ \A a \in leftover' : Entry(tag'[a])
        /\ leftover' = {} => Chained'
    BY <1>1, <2>1, RunLeads, RunChains
  <2> QED BY <1>1, <2>1, <2>2 DEF CInv
<1> QED BY <1>3, <1>4

LEMMA LoadStateChains == ASSUME CInv, LoadState PROVE CInv'
<1>1. IInv' /\ TypeOK'
  BY LoadStateStep, TypeStep DEF CInv, Next, Guest
<1>2. call = "run" /\ Flush(tag, span, cache, blockPtrs) /\ call' = "lookup" /\ UNCHANGED stack
  BY DEF LoadState, Running, LookUp
<1>3. /\ CellTypes' /\ SpanTypes' /\ stack' = <<>>
      /\ \A a \in leftover' : Entry(tag'[a])
      /\ leftover' = {} => Chained'
  BY <1>2, GuestFlushChains
<1> QED BY <1>1, <1>2, <1>3 DEF CInv

LEMMA NoTags == ~Entry(0)
BY SizesAssumption DEF Entry, FirstTag

LEMMA ResetChains == ASSUME CInv, Reset PROVE CInv'
<1>1. IInv' /\ TypeOK'
  BY ResetStep, TypeStep DEF CInv, Next, Guest
<1>2. /\ call = "run" /\ call' = "lookup" /\ tag' = [a \in Addr |-> 0] /\ ptr' = 0
      /\ span' = [r \in DOMAIN span |-> NoSpan] /\ leftover' = {} /\ cache' = NoCode
      /\ stack' = stack
  BY DEF Reset, LookUp
<1>3. stack' = <<>> /\ \A a \in Addr : ~Entry(tag'[a])
  BY <1>2, NoTags DEF CInv
<1>4. CellTypes'
  BY <1>2, NoCodeTypes DEF CellTypes, Cell
<1>5. SpanTypes'
  BY <1>2 DEF CInv, SpanTypes, NoSpan, None
<1>6. Chained'
  BY <1>2, <1>3, EmptyChains
<1> QED BY <1>1, <1>2, <1>3, <1>4, <1>5, <1>6 DEF CInv

-----------------------------------------------------------------------------
(* The chains start empty.                                                 *)
LEMMA ChainsStart == Init => CInv
<1> SUFFICES ASSUME Init PROVE CInv
  OBVIOUS
<1>1. IInv
  BY Starts
<1>2. TypeOK
  <2>1. FirstTag \in FirstTag .. Mark /\ NoBlocks \in [FirstTag .. MaxTag -> Cells]
    BY SizesAssumption DEF Mark, FirstTag, NoBlocks, Cells
  <2> QED BY <1>1, <2>1 DEF Init, TypeOK, IInv, Memory, Cache, Calls
<1>3. CellTypes
  BY NoCodeTypes DEF Init, CellTypes, Cell
<1>4. SpanTypes
  BY DEF Init, SpanTypes, NoSpan, None
<1>5. call = "lookup" /\ stack = <<>> /\ ptr = 0 /\ leftover = {} /\ \A a \in Addr : ~Entry(tag[a])
  BY NoTags DEF Init
<1>6. Chained
  <2>1. TagsLead(tag, tagTop, blockPtrs, cache, 0) /\ Spanned(tag, span)
    BY <1>5, Zenon DEF TagsLead, Spanned
  <2>2. Joined(cache, 0, Open(<<>>)) /\ Nested(cache, 0, <<>>) /\ Waits(cache, <<>>, want)
    BY DEF Joined, Nested, Waits
  <2> QED BY <1>5, <2>1, <2>2 DEF Chained
<1> QED BY <1>1, <1>2, <1>3, <1>4, <1>5, <1>6 DEF CInv

(* Every lookup, translation, flush and step of the guest keeps them.      *)
LEMMA ChainsKept == CInv /\ [Next]_vars => CInv'
<1> SUFFICES ASSUME CInv, [Next]_vars PROVE CInv'
  OBVIOUS
<1>1. CASE Lookup
  BY <1>1, FoundChains, TranslateChains, OverflowChains, LinkChains, LinkedChains DEF Lookup
<1>2. CASE Guest
  BY <1>2, QuietChains, StoreChains, LoadStateChains, ResetChains DEF Guest
<1>3. CASE UNCHANGED vars
  <2>1. IInv' /\ TypeOK'
    BY Preserves, TypeStep DEF CInv
  <2>2. UNCHANGED <<tag, tagTop, span, blockPtrs, cache, ptr, call, want, stack, run, leftover>>
    BY <1>3 DEF vars, tags
  <2> QED BY <2>1, <2>2 DEF CInv, CellTypes, SpanTypes, Chained
<1> QED BY <1>1, <1>2, <1>3 DEF Next

(* Blocks lie in the cache and tags keep their range (init_translater,     *)
(* translate_block).                                                       *)
THEOREM TypeCorrect == Spec => []TypeOK
<1>1. CInv => TypeOK
  BY DEF CInv
<1> QED BY <1>1, ChainsStart, ChainsKept, PTL DEF Spec

(* The emulator runs the translation of the word now at the guest's pc, as *)
(* long as no store nobody checks wrote there and no flush forgot a tag.   *)
THEOREM RunsOwnCode == Spec => []CodeIsCurrent
<1>1. CInv => CodeIsCurrent
  <2> SUFFICES ASSUME CInv, call = "run", leftover = {}, run.pc \notin unseen
               PROVE  Current
    BY DEF CodeIsCurrent
  <2>1. run.at \in 0 .. ptr - 1 /\ cache[run.at].pc = run.pc
    BY DEF CInv, Chained, Leads
  <2>2. Guarded
    BY DEF CInv, IInv
  <2> QED BY <2>1, <2>2 DEF Guarded, Current
<1> QED BY <1>1, ChainsStart, ChainsKept, PTL DEF Spec

-----------------------------------------------------------------------------
(* The flush clears every entry point the spans reach over, as long as     *)
(* those in EWRAM begin and end on one page.                               *)
LEMMA AllCleared ==
  ASSUME CInv, call = "run", leftover = {},
         Page(span["ewram"].min) = Page(span["ewram"].max),
         Flush(tag, span, cache, blockPtrs)
  PROVE  leftover' = {}
<1> DEFINE cleared == ClearedIwram(span["iwram"]) \cup ClearedEwram(span["ewram"])
<1>1. Spanned(tag, span) /\ SpanTypes
  BY DEF CInv, Chained
<1>2. ASSUME NEW a \in Addr, Entry(tag[a]) PROVE a \in cleared
  <2>1. /\ span[Region(a)].min # None /\ span[Region(a)].max # None
        /\ span[Region(a)].min <= a /\ a < span[Region(a)].max
        /\ a \in Int
    BY <1>1, <1>2, Regions DEF Spanned
  <2>2. CASE a \in Iwram
    <3>1. span["iwram"] \in [min : Int, max : Int] /\ Region(a) = "iwram"
      BY <1>1, <2>2 DEF SpanTypes, Region
    <3>2. a \in span["iwram"].min .. span["iwram"].max - 1
      BY <2>1, <3>1
    <3>3. ClearedIwram(span["iwram"]) = span["iwram"].min .. span["iwram"].max - 1
      BY <2>1, <3>1 DEF ClearedIwram
    <3> QED BY <3>2, <3>3
  <2>3. CASE a \notin Iwram
    <3>1. span["ewram"] \in [min : Int, max : Int] /\ Region(a) = "ewram"
      BY <1>1, <2>3 DEF SpanTypes, Region
    <3>2. a \in span["ewram"].min .. span["ewram"].max - 1
      BY <2>1, <3>1
    <3>3. ClearedEwram(span["ewram"]) = span["ewram"].min .. span["ewram"].max - 1
      BY <2>1, <3>1 DEF ClearedEwram
    <3> QED BY <3>2, <3>3
  <2> QED BY <2>2, <2>3
<1>3. Flushed(tag, span) = [a \in Addr |-> IF a \in cleared THEN 0 ELSE tag[a]]
  BY DEF Flushed
<1> HIDE DEF cleared
<1>4. \A a \in Addr : ~Entry(Flushed(tag, span)[a])
  BY <1>2, <1>3, NoTags
<1> QED BY <1>4 DEF Flush

(* A flush by the running program forgets every entry point (the spans     *)
(* {iwram,ewram}_code_{min,max} cover the tags), on one page of EWRAM.     *)
THEOREM FlushForgets == Spec => NothingForgotten
<1> DEFINE Forgets == call = "run" /\ leftover = {}
                        /\ Page(span["ewram"].min) = Page(span["ewram"].max)
                      => leftover' = {}
<1>1. CInv /\ [Next]_vars => Forgets
  <2> SUFFICES ASSUME CInv, [Next]_vars, call = "run", leftover = {},
                      Page(span["ewram"].min) = Page(span["ewram"].max)
               PROVE  leftover' = {}
    OBVIOUS
  <2>1. CASE Step \/ Branch \/ Exit \/ UNCHANGED vars
    BY <2>1 DEF Step, Branch, Exit, vars
  <2>2. CASE Store
    <3>1. UNCHANGED leftover \/ Flush(tag, span, cache, blockPtrs)
      BY <2>2 DEF Store
    <3> QED BY <3>1, AllCleared
  <2>3. CASE LoadState
    BY <2>3, AllCleared DEF LoadState
  <2>4. CASE Reset
    BY <2>4 DEF Reset
  <2>5. ~Lookup
    BY DEF Lookup, Found, Translate, Overflow, Link, Linked, Missing
  <2> QED BY <2>1, <2>2, <2>3, <2>4, <2>5 DEF Next, Guest
<1>2. [][Forgets]_vars <=> NothingForgotten
  BY PTL DEF NothingForgotten
<1> QED BY <1>1, <1>2, ChainsStart, ChainsKept, PTL DEF Spec

-----------------------------------------------------------------------------
(* A lookup needs one flush at most if the code it links fits into the     *)
(* empty cache.  The code is that of a set of blocks, the one looked up    *)
(* among them, which jump to each other only; words of two blocks count    *)
(* twice, as they are translated twice.                                    *)
Closed(S) == \A e \in S : \A a \in External(e) : mem[a].arg \in S
WordsOf(S) == {w \in Addr \X Addr : w[1] \in S /\ w[2] \in Block(w[1])}
FitsWhole(S) == S \subseteq Addr /\ Closed(S) /\ Cardinality(WordsOf(S)) <= Limit

LinkedCodeFits ==
  call = "lookup" /\ stack = <<>> => \E S \in SUBSET Addr : want \in S /\ FitsWhole(S)

(* The lookup that was made first, before those nested in it. *)
Outermost == IF stack = <<>> THEN want ELSE stack[1].pc

(* Cell c is of the block of e, translated since the flush. *)
IsOf(c, e) ==
  /\ Entry(tag[e]) /\ tag[e] < tagTop
  /\ c - blockPtrs[tag[e]] \in 0 .. Size(e) - 1

(* The second attempt stays within the blocks of S, and whatever fills the *)
(* cache is of those.                                                      *)
Again(S) ==
  /\ FitsWhole(S)
  /\ call \in {"lookup", "redo"} => want \in S
  /\ call = "redo" => ptr = 0
  /\ \A i \in 1 .. Len(stack) : \A k \in stack[i].exits :
       k \in 0 .. ptr - 1 /\ cache[k].word.arg \in S
  /\ \A c \in 0 .. ptr - 1 : \E e \in S : IsOf(c, e)

Attempts ==
  /\ flushes \in {0, 1}
  /\ call # "run" /\ flushes = 0 =>
       \E S \in SUBSET Addr : FitsWhole(S) /\ Outermost \in S
  /\ call # "run" /\ flushes = 1 => \E S \in SUBSET Addr : Again(S)

LEMMA SameWords ==
  ASSUME mem' = mem
  PROVE  /\ \A S : FitsWhole(S)' <=> FitsWhole(S)
         /\ \A e : Size(e)' = Size(e)
<1>1. \A e : BlockEnd(e)' = BlockEnd(e)
  BY DEF BlockEnd, EndsAt, Asked, Direct
<1>2. \A e : Block(e)' = Block(e) /\ Size(e)' = Size(e)
  BY <1>1 DEF Block, Size
<1>3. \A e : External(e)' = External(e)
  BY <1>2 DEF External, Direct
<1>4. \A S : WordsOf(S)' = WordsOf(S)
  BY <1>2 DEF WordsOf
<1>5. \A S : Closed(S)' <=> Closed(S)
  BY <1>3 DEF Closed
<1> QED BY <1>2, <1>4, <1>5 DEF FitsWhole

LEMMA FiniteWords == ASSUME NEW S PROVE IsFiniteSet(WordsOf(S))
<1>1. IsFiniteSet(Addr)
  <2>1. Addr = 0 .. Top - 1 /\ 0 \in Int /\ Top - 1 \in Int
    BY Numbers
  <2>2. IsFiniteSet(0 .. Top - 1)
    BY ONLY <2>1, FS_Interval
  <2> QED BY <2>1, <2>2
<1>2. IsFiniteSet(Addr \X Addr)
  BY <1>1, FS_Product
<1> QED BY <1>2, FS_Subset DEF WordsOf

(* What is translated again fits: its cells are as many as words of S.     *)
LEMMA SecondFits ==
  ASSUME CInv, NEW S, Again(S), Missing
  PROVE  Fits(want)
<1> DEFINE W == WordsOf(S)
           n == ptr + Size(want)
           Stands(c, w) == /\ Entry(tag[w[1]])
                           /\ c = blockPtrs[tag[w[1]]] + (w[2] - w[1])
           word[c \in 0 .. n - 1] == IF c < ptr THEN CHOOSE w \in W : Stands(c, w)
                                     ELSE <<want, want + (c - ptr)>>
<1>1. want \in Addr /\ want \in S /\ S \subseteq Addr /\ ptr \in 0 .. Limit
  BY DEF CInv, IInv, Calls, Cache, Again, Missing, FitsWhole
<1>2. /\ Size(want) \in Nat \ {0} /\ Block(want) = want .. want + Size(want) - 1
      /\ Block(want) \subseteq Addr
  BY <1>1, BlockType
<1>3. n \in Nat /\ Limit \in Nat /\ ptr \in Nat
  BY <1>1, <1>2, SizesAssumption
<1>4. ASSUME NEW c \in 0 .. ptr - 1
      PROVE  \E w \in W : Stands(c, w)
  <2>1. PICK e \in S : IsOf(c, e)
    BY DEF Again
  <2>2. e \in Addr /\ tag[e] \in FirstTag .. MaxTag
    BY <1>1, <2>1, SizesAssumption DEF CInv, TypeOK, IsOf, Entry, Mark, FirstTag
  <2>3. blockPtrs[tag[e]] \in Int
    BY <2>2, SizesAssumption DEF CInv, TypeOK, Cells
  <2>4. Block(e) = e .. e + Size(e) - 1 /\ Block(e) \subseteq Addr /\ Size(e) \in Nat
    BY <2>2, BlockType
  <2> DEFINE x == e + (c - blockPtrs[tag[e]])
  <2>5. x \in Block(e) /\ e \in Int
    BY <2>1, <2>2, <2>3, <2>4, Numbers, SMTT(60) DEF IsOf
  <2>6. <<e, x>> \in W
    BY <2>2, <2>4, <2>5 DEF WordsOf
  <2>7. c = blockPtrs[tag[e]] + (x - e)
    BY <2>3, <2>5
  <2>8. Stands(c, <<e, x>>)
    BY <2>1, <2>7 DEF IsOf
  <2> QED BY <2>6, <2>8
<1>5. ASSUME NEW c \in 0 .. n - 1, c >= ptr
      PROVE  <<want, want + (c - ptr)>> \in W
  <2>1. want + (c - ptr) \in Block(want)
    BY <1>1, <1>2, <1>3, <1>5, Numbers
  <2> QED BY <1>1, <1>2, <2>1 DEF WordsOf
<1> HIDE DEF W, Stands
<1>6. \A c \in 0 .. n - 1 : c < ptr => word[c] \in W /\ Stands(c, word[c])
  BY <1>3, <1>4
<1>7. \A c \in 0 .. n - 1 : c >= ptr => word[c] = <<want, want + (c - ptr)>> /\ word[c] \in W
  BY <1>3, <1>5
<1>8. \A c \in 0 .. n - 1 : c < ptr => word[c][1] # want
  <2>1. ptr = 0 \/ ~Entry(tag[want])
    BY DEF Missing, Again
  <2> QED BY <1>6, <2>1, <1>3 DEF Stands
<1>9. word \in Injection(0 .. n - 1, W)
  <2>1. word \in [0 .. n - 1 -> W]
    BY <1>6, <1>7, <1>3
  <2> HIDE DEF word
  <2>2. ASSUME NEW c \in 0 .. n - 1, NEW d \in 0 .. n - 1, word[c] = word[d], c < ptr, d < ptr
        PROVE  c = d
    BY <2>2, <1>6 DEF Stands
  <2>3. ASSUME NEW c \in 0 .. n - 1, NEW d \in 0 .. n - 1, word[c] = word[d], c < ptr, d >= ptr
        PROVE  FALSE
    BY <2>3, <1>7, <1>8
  <2>4. ASSUME NEW c \in 0 .. n - 1, NEW d \in 0 .. n - 1, word[c] = word[d], c >= ptr, d >= ptr
        PROVE  c = d
    <3>1. want + (c - ptr) = want + (d - ptr)
      BY <2>4, <1>7
    <3> QED BY <3>1, <1>1, <1>3, Numbers
  <2>5. \A c, d \in 0 .. n - 1 : word[c] = word[d] => c = d
    BY <2>2, <2>3, <2>4, <1>3
  <2> QED BY <2>1, <2>5 DEF Injection, IsInjective
<1>10. Cardinality(0 .. n - 1) <= Cardinality(W)
  BY <1>9, FS_Injection, FiniteWords DEF W
<1>11. Cardinality(0 .. n - 1) = n
  <2>1. 0 \in Int /\ n - 1 \in Int /\ ~(0 > n - 1)
    BY <1>2, <1>3
  <2>2. Cardinality(0 .. n - 1) = (n - 1) - 0 + 1
    BY <2>1, FS_Interval
  <2> QED BY <2>2, <1>3
<1>12. Cardinality(W) <= Limit /\ Cardinality(W) \in Nat
  BY FiniteWords, FS_CardinalityType DEF W, Again, FitsWhole
<1> QED BY <1>3, <1>10, <1>11, <1>12 DEF Fits

-----------------------------------------------------------------------------
(* A lookup that the guest makes is the first attempt. *)
LEMMA FirstAttempt ==
  ASSUME LinkedCodeFits', call' = "lookup", stack' = <<>>, flushes' = 0
  PROVE  Attempts'
<1>1. PICK S \in SUBSET Addr : want' \in S /\ FitsWhole(S)'
  BY DEF LinkedCodeFits
<1>2. Outermost' = want'
  BY DEF Outermost
<1> QED BY <1>1, <1>2 DEF Attempts

LEMMA GuestAttempts ==
  ASSUME CInv, Attempts, LinkedCodeFits', Guest
  PROVE  Attempts'
<1>1. call = "run" /\ stack' = stack /\ stack = <<>>
  BY DEF Guest, Step, Branch, Exit, Store, LoadState, Reset, Running, CInv
<1>2. \/ call' = "run" /\ flushes' = flushes
      \/ call' = "lookup" /\ flushes' = 0
  BY <1>1 DEF Guest, Step, Branch, Exit, Store, LoadState, Reset, LookUp
<1> QED BY <1>1, <1>2, FirstAttempt DEF Attempts

(* What follows from a lookup that hands on what it found. *)
LEMMA DeliverAgain ==
  ASSUME CInv, NEW S, Again(S), NEW pc, NEW place, NEW frames \in Seq(Frame),
         \A i \in 1 .. Len(frames) : \A k \in frames[i].exits :
           k \in 0 .. ptr - 1 /\ cache[k].word.arg \in S,
         Deliver(pc, place, frames, cache),
         UNCHANGED <<mem, tag, tagTop, blockPtrs, ptr>>
  PROVE  Again(S)'
<1>1. FitsWhole(S)' /\ \A e : Size(e)' = Size(e)
  BY SameWords DEF Again
<1>2. call' \in {"run", "link"} /\ SameCode(cache', cache)
  BY DeliverKeeps DEF CInv, IInv, Cache
<1>3. \A c \in 0 .. ptr - 1 : c \in Cells
  BY SizesAssumption DEF CInv, IInv, Cache, Cells
<1>4. \A i \in 1 .. Len(stack') : i \in 1 .. Len(frames) /\ stack'[i].exits \subseteq frames[i].exits
  <2>1. CASE frames = <<>>
    BY <2>1 DEF Deliver
  <2>2. CASE frames # <<>>
    <3> DEFINE top == Len(frames)
               gone == {Min(frames[top].exits)}
    <3>1. stack' = [frames EXCEPT ![top].exits = @ \ gone]
      BY <2>2 DEF Deliver
    <3> HIDE DEF gone
    <3>2. top \in 1 .. Len(frames) /\ frames[top] \in Frame
      BY <2>2
    <3>3. stack' = [frames EXCEPT ![top] = [frames[top] EXCEPT !.exits = @ \ gone]]
      BY <3>1
    <3>4. [frames[top] EXCEPT !.exits = @ \ gone] \in Frame
      BY <3>2 DEF Frame
    <3>5. Len(stack') = Len(frames)
      BY <3>2, <3>3, <3>4, ExceptSeq
    <3>6. \A i \in 1 .. Len(frames) :
            stack'[i] = IF i = top THEN [frames[top] EXCEPT !.exits = @ \ gone] ELSE frames[i]
      BY <3>2, <3>3, <3>4, ExceptSeq
    <3> QED BY <3>2, <3>5, <3>6 DEF Frame
  <2> QED BY <2>1, <2>2
<1>5. \A i \in 1 .. Len(stack') : \A k \in stack'[i].exits :
        k \in 0 .. ptr - 1 /\ cache'[k].word.arg \in S
  BY <1>2, <1>3, <1>4 DEF SameCode
<1>6. \A c \in 0 .. ptr - 1 : \E e \in S : IsOf(c, e)'
  BY <1>1 DEF Again, IsOf
<1> QED BY <1>1, <1>2, <1>5, <1>6 DEF Again

(* The outermost lookup stays it. *)
LEMMA DeliverOutermost ==
  ASSUME NEW pc, NEW place, NEW frames \in Seq(Frame), Coded(cache),
         Deliver(pc, place, frames, cache), frames # <<>>
  PROVE  Outermost' = frames[1].pc
<1> DEFINE top == Len(frames)
           rest == [frames[top] EXCEPT !.exits = @ \ {Min(frames[top].exits)}]
<1>1. top \in 1 .. Len(frames) /\ frames[top] \in Frame
  OBVIOUS
<1>2. stack' = [frames EXCEPT ![top] = rest]
  BY DEF Deliver
<1>3. rest \in Frame /\ rest.pc = frames[top].pc
  BY <1>1 DEF Frame
<1> HIDE DEF rest
<1>4. stack'[1].pc = frames[1].pc
  BY <1>1, <1>2, <1>3
<1>5. stack' # <<>>
  BY DeliverKeeps DEF Deliver
<1> QED BY <1>4, <1>5 DEF Outermost

LEMMA FoundAttempts ==
  ASSUME CInv, Attempts, Found
  PROVE  Attempts'
<1>1. /\ stack \in Seq(Frame) /\ Coded(cache) /\ call = "lookup"
      /\ Deliver(want, blockPtrs[tag[want]], stack, cache)
      /\ UNCHANGED <<mem, tag, tagTop, blockPtrs, ptr, flushes>>
  BY DEF Found, tags, CInv, IInv, Calls, Cache
<1>2. CASE flushes = 0 /\ stack # <<>>
  <2>1. Outermost' = Outermost
    BY <1>1, <1>2, DeliverOutermost DEF Outermost
  <2>2. PICK S \in SUBSET Addr : FitsWhole(S) /\ Outermost \in S
    BY <1>1, <1>2 DEF Attempts
  <2> QED BY <1>1, <1>2, <2>1, <2>2, SameWords DEF Attempts
<1>3. CASE stack = <<>>
  BY <1>1, <1>3 DEF Attempts, Deliver
<1>4. CASE flushes = 1
  <2>1. PICK S \in SUBSET Addr : Again(S)
    BY <1>1, <1>4 DEF Attempts
  <2>2. Again(S)'
    BY <1>1, <2>1, DeliverAgain DEF Again
  <2> QED BY <1>1, <1>4, <2>2 DEF Attempts
<1> QED BY <1>2, <1>3, <1>4 DEF Attempts

LEMMA LinkedAttempts ==
  ASSUME CInv, Attempts, Linked
  PROVE  Attempts'
<1> DEFINE frame == stack[Len(stack)]
           outer == Front(stack)
<1>1. /\ stack \in Seq(Frame) /\ stack # <<>> /\ Coded(cache) /\ call = "link"
      /\ Deliver(frame.pc, frame.at, outer, cache)
      /\ UNCHANGED <<mem, tag, tagTop, blockPtrs, ptr, flushes>>
  BY DEF Linked, tags, CInv, IInv, Calls, Cache
<1>2. /\ outer \in Seq(Frame) /\ Len(outer) = Len(stack) - 1
      /\ \A i \in 1 .. Len(stack) - 1 : outer[i] = stack[i]
  BY <1>1, OuterFrames
<1> HIDE DEF frame, outer
<1>3. CASE outer = <<>>
  BY <1>1, <1>3 DEF Attempts, Deliver
<1>4. CASE flushes = 0 /\ outer # <<>>
  <2>1. Outermost' = Outermost
    BY <1>1, <1>2, <1>4, DeliverOutermost DEF Outermost
  <2>2. PICK S \in SUBSET Addr : FitsWhole(S) /\ Outermost \in S
    BY <1>1, <1>4 DEF Attempts
  <2> QED BY <1>1, <1>4, <2>1, <2>2, SameWords DEF Attempts
<1>5. CASE flushes = 1
  <2>1. PICK S \in SUBSET Addr : Again(S)
    BY <1>1, <1>5 DEF Attempts
  <2>2. \A i \in 1 .. Len(outer) : \A k \in outer[i].exits :
          k \in 0 .. ptr - 1 /\ cache[k].word.arg \in S
    BY <1>1, <1>2, <2>1 DEF Again
  <2>3. Again(S)'
    BY <1>1, <1>2, <2>1, <2>2, DeliverAgain
  <2> QED BY <1>1, <1>5, <2>3 DEF Attempts
<1> QED BY <1>3, <1>4, <1>5 DEF Attempts

LEMMA LinkAttempts ==
  ASSUME CInv, Attempts, Link
  PROVE  Attempts'
<1> DEFINE frame == stack[Len(stack)]
<1>1. /\ stack \in Seq(Frame) /\ stack # <<>> /\ call = "link" /\ frame.exits # {}
      /\ call' = "lookup" /\ want' = cache[Min(frame.exits)].word.arg
      /\ UNCHANGED <<mem, tag, tagTop, blockPtrs, cache, ptr, flushes, stack>>
  BY DEF Link, tags, CInv, IInv, Calls
<1>2. Len(stack) \in 1 .. Len(stack) /\ frame \in Frame
  BY <1>1
<1>3. Min(frame.exits) \in frame.exits
  BY <1>1, <1>2, MinExit
<1>4. CASE flushes = 0
  <2>1. Outermost' = Outermost
    BY <1>1 DEF Outermost
  <2>2. PICK S \in SUBSET Addr : FitsWhole(S) /\ Outermost \in S
    BY <1>1, <1>4 DEF Attempts
  <2> QED BY <1>1, <1>4, <2>1, <2>2, SameWords DEF Attempts
<1>5. CASE flushes = 1
  <2>1. PICK S \in SUBSET Addr : Again(S)
    BY <1>1, <1>5 DEF Attempts
  <2>2. want' \in S
    BY <1>1, <1>2, <1>3, <2>1 DEF Again
  <2>3. FitsWhole(S)' /\ \A e : Size(e)' = Size(e)
    BY <1>1, <2>1, SameWords DEF Again
  <2>4. \A c \in 0 .. ptr - 1 : \E e \in S : IsOf(c, e)'
    BY <1>1, <2>1, <2>3 DEF Again, IsOf
  <2>5. Again(S)'
    BY <1>1, <2>1, <2>2, <2>3, <2>4 DEF Again
  <2> QED BY <1>1, <1>5, <2>5 DEF Attempts
<1> QED BY <1>4, <1>5 DEF Attempts

LEMMA TranslateAttempts ==
  ASSUME CInv, Attempts, Translate
  PROVE  Attempts'
<1> DEFINE frame == [pc |-> want, at |-> ptr,
                     exits |-> {ptr + (a - want) : a \in External(want)}]
           size == Size(want)
           cells == Generated(want, ptr)
<1>1. /\ stack \in Seq(Frame) /\ Coded(cache) /\ want \in Addr /\ ptr \in 0 .. Limit
      /\ Memory /\ Missing /\ Fits(want) /\ tagTop < Mark
  BY DEF Translate, CInv, IInv, Calls, Cache
<1>2. /\ blockPtrs' = [blockPtrs EXCEPT ![tagTop] = ptr] /\ tag' = Marked
      /\ tagTop' = tagTop + 1 /\ cache' = cells /\ ptr' = ptr + size
      /\ stack' = Append(stack, frame) /\ call' = "link"
      /\ UNCHANGED <<mem, want, flushes>>
  BY DEF Translate
<1>3. /\ size \in Nat \ {0} /\ Block(want) = want .. want + size - 1
      /\ Block(want) \subseteq Addr
  BY <1>1, BlockType
<1>4. /\ \A c \in Cells : c < ptr => cells[c] = cache[c]
      /\ \A c \in Cells : ptr <= c /\ c < ptr + size => cells[c].word = mem[want + (c - ptr)]
  BY <1>1, GeneratedCode, SizesAssumption
<1>5. /\ tagTop \in FirstTag .. MaxTag /\ Marked[want] = tagTop
      /\ \A a \in Addr : a # want /\ Entry(Marked[a]) => Marked[a] = tag[a]
      /\ \A a \in Addr : Entry(tag[a]) => Entry(Marked[a])
  BY <1>1, MarkedTypes DEF CInv
<1>6. ptr + size <= Limit
  BY <1>1 DEF Fits
<1> HIDE DEF frame, size, cells
<1>7. \A i \in 1 .. Len(stack') :
        \/ i \in 1 .. Len(stack) /\ stack'[i] = stack[i]
        \/ i = Len(stack) + 1 /\ stack'[i] = frame
  BY <1>1, <1>2
<1>8. CASE flushes = 0
  <2>1. Outermost' = Outermost
    BY <1>1, <1>2 DEF Outermost, frame
  <2>2. PICK S \in SUBSET Addr : FitsWhole(S) /\ Outermost \in S
    BY <1>1, <1>8 DEF Attempts, Missing
  <2> QED BY <1>2, <1>8, <2>1, <2>2, SameWords DEF Attempts
<1>9. CASE flushes = 1
  <2>1. PICK S \in SUBSET Addr : Again(S)
    BY <1>1, <1>9 DEF Attempts, Missing
  <2>2. want \in S
    BY <1>1, <2>1 DEF Again, Missing
  <2>3. FitsWhole(S)' /\ \A e : Size(e)' = Size(e)
    BY <1>2, <2>1, SameWords DEF Again
  <2>4. ASSUME NEW k \in frame.exits
        PROVE  k \in 0 .. ptr' - 1 /\ cache'[k].word.arg \in S
    <3>1. PICK a \in External(want) : k = ptr + (a - want)
      BY DEF frame
    <3>2. a \in Block(want) /\ mem[a].arg \in S
      BY <2>1, <2>2 DEF External, Again, FitsWhole, Closed
    <3>3. a \in Int /\ want <= a /\ a < want + size /\ want \in Int /\ size \in Nat /\ ptr \in Nat
      BY <1>1, <1>3, <3>2, Numbers, SizesAssumption
    <3>4. k \in 0 .. ptr' - 1 /\ ptr <= k /\ k < ptr + size /\ want + (k - ptr) = a
      BY <1>2, <3>1, <3>3
    <3>5. k \in Cells
      BY <3>3, <3>4, <1>6, SizesAssumption DEF Cells
    <3> QED BY <1>2, <1>4, <3>2, <3>4, <3>5
  <2>5. ASSUME NEW i \in 1 .. Len(stack), NEW k \in stack[i].exits
        PROVE  k \in 0 .. ptr' - 1 /\ cache'[k].word.arg \in S
    <3>1. k \in 0 .. ptr - 1 /\ cache[k].word.arg \in S
      BY <2>1 DEF Again
    <3>2. k \in Cells /\ k < ptr /\ k \in 0 .. ptr' - 1
      BY <3>1, <1>1, <1>2, <1>3, SizesAssumption DEF Cells
    <3> QED BY <1>2, <1>4, <3>1, <3>2
  <2>6. \A i \in 1 .. Len(stack') : \A k \in stack'[i].exits :
          k \in 0 .. ptr' - 1 /\ cache'[k].word.arg \in S
    BY <1>7, <2>4, <2>5
  <2>7. ASSUME NEW c \in 0 .. ptr - 1
        PROVE  \E e \in S : IsOf(c, e)'
    <3>1. PICK e \in S : IsOf(c, e)
      BY <2>1 DEF Again
    <3>2. e # want
      BY <1>1, <2>1, <3>1 DEF Missing, Again, IsOf
    <3>3. e \in Addr
      BY <2>1 DEF Again, FitsWhole
    <3>4. Entry(tag'[e]) /\ tag'[e] = tag[e]
      BY <1>2, <1>5, <3>1, <3>2, <3>3 DEF IsOf
    <3>5. tag[e] < tagTop' /\ tag[e] # tagTop
      BY <1>2, <1>5, <3>1, <3>3, SizesAssumption DEF IsOf, CInv, TypeOK, FirstTag, Mark
    <3>6. blockPtrs'[tag[e]] = blockPtrs[tag[e]]
      BY <1>2, <3>5
    <3> QED BY <2>3, <3>1, <3>4, <3>5, <3>6 DEF IsOf
  <2>8. ASSUME NEW c \in ptr .. ptr + size - 1, NEW e \in S, e = want
        PROVE  IsOf(c, e)'
    <3>1. tag'[e] = tagTop /\ blockPtrs'[tagTop] = ptr
      BY <1>2, <1>5, <2>8 DEF CInv, TypeOK
    <3>2. Entry(tagTop) /\ tagTop < tagTop'
      BY <1>1, <1>2, <1>5, SizesAssumption DEF Entry, FirstTag, Mark
    <3>3. c - ptr \in 0 .. size - 1
      BY <1>1, <1>3, SizesAssumption
    <3>4. Size(e)' = size
      BY <2>3, <2>8 DEF size
    <3> QED BY <3>1, <3>2, <3>3, <3>4 DEF IsOf, Entry
  <2>9. \A c \in 0 .. ptr' - 1 : \E e \in S : IsOf(c, e)'
    <3>1. \A c \in 0 .. ptr' - 1 : c \in 0 .. ptr - 1 \/ c \in ptr .. ptr + size - 1
      BY <1>1, <1>2, <1>3, SizesAssumption
    <3> QED BY <1>2, <2>2, <2>7, <2>8, <3>1
  <2>10. Again(S)'
    BY <1>2, <2>3, <2>6, <2>9 DEF Again
  <2> QED BY <1>2, <1>9, <2>10 DEF Attempts
<1> QED BY <1>8, <1>9 DEF Attempts

(* Only the first attempt can overflow. *)
LEMMA OverflowAttempts ==
  ASSUME CInv, Attempts, Overflow
  PROVE  Attempts'
<1>1. /\ Missing /\ ~Fits(want) /\ flushes' = flushes + 1
      /\ call' = "redo" /\ stack' = <<>> /\ want' = Outermost /\ mem' = mem /\ ptr' = 0
  BY DEF Overflow, Flush, Outermost
<1>2. call # "run"
  BY <1>1 DEF Missing
<1>3. flushes = 0
  BY <1>1, <1>2, SecondFits DEF Attempts
<1>4. PICK S \in SUBSET Addr : FitsWhole(S) /\ Outermost \in S
  BY <1>2, <1>3 DEF Attempts
<1>5. FitsWhole(S)'
  BY <1>1, <1>4, SameWords
<1>6. Again(S)'
  BY <1>1, <1>4, <1>5 DEF Again
<1> QED BY <1>1, <1>3, <1>6 DEF Attempts

LEMMA AttemptsStart ==
  ASSUME Init, LinkedCodeFits
  PROVE  Attempts
BY DEF Init, LinkedCodeFits, Attempts, Outermost

LEMMA AttemptsKept ==
  ASSUME CInv, Attempts, LinkedCodeFits', [Next]_vars
  PROVE  Attempts'
<1>1. CASE Lookup
  BY <1>1, FoundAttempts, TranslateAttempts, OverflowAttempts, LinkAttempts, LinkedAttempts
     DEF Lookup
<1>2. CASE Guest
  BY <1>2, GuestAttempts
<1>3. CASE UNCHANGED vars
  <2>1. UNCHANGED <<mem, tag, tagTop, blockPtrs, cache, ptr, call, want, flushes, stack>>
    BY <1>3 DEF vars, tags
  <2>2. /\ \A S : FitsWhole(S)' <=> FitsWhole(S)
        /\ \A e : Size(e)' = Size(e)
    BY <2>1, SameWords
  <2>3. \A c, e : IsOf(c, e)' <=> IsOf(c, e)
    BY <2>1, <2>2 DEF IsOf, Entry
  <2>4. \A S : Again(S)' <=> Again(S)
    BY <2>1, <2>2, <2>3 DEF Again
  <2>5. Outermost' = Outermost
    BY <2>1 DEF Outermost
  <2> QED BY <2>1, <2>2, <2>4, <2>5 DEF Attempts
<1> QED BY <1>1, <1>2, <1>3 DEF Next

(* "We allow for one translation cache flush" (cpu_threaded.c:2746): the   *)
(* second attempt succeeds, if whatever the guest jumps to links to no     *)
(* more code than the cache can hold, for caches of any size.              *)
THEOREM OneFlushSuffices == Spec /\ []LinkedCodeFits => []OneFlush
<1>1. Attempts => OneFlush
  BY DEF Attempts, OneFlush
<1>2. Init /\ LinkedCodeFits => Attempts
  BY AttemptsStart
<1>3. CInv /\ Attempts /\ LinkedCodeFits' /\ [Next]_vars => Attempts'
  BY AttemptsKept
<1> QED BY <1>1, <1>2, <1>3, ChainsStart, ChainsKept, PTL DEF Spec
=============================================================================
