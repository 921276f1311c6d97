-------------------------- MODULE TranslationCache --------------------------
(***************************************************************************)
(* The dynamic recompiler's cache of translated RAM code (cpu_threaded.c,  *)
(* with the store handlers of gp2x/arm_stub.S that watch over it).         *)
(*                                                                         *)
(* A lookup turns a guest address into a place of the cache.  What is      *)
(* translated is remembered in tags that lie beside the guest's RAM: the   *)
(* tag of an entry point is the number of its block, the other words of a  *)
(* block carry Mark.  A store that finds a tag at its address throws all   *)
(* translations away.  Translating a block looks up every block it jumps   *)
(* to, recursively, and a cache that overflows on the way is emptied and   *)
(* the outermost lookup starts again.                                      *)
(*                                                                         *)
(* Memory is counted in instruction words: EWRAM pages first, then IWRAM.  *)
(* The cache holds one cell per translated word.                           *)
(***************************************************************************)
EXTENDS Integers, FiniteSetsExt, SequencesExt

CONSTANTS
  Pages,      \* number of EWRAM pages (8 in the code)
  PageWords,  \* words of a page (32 KB in the code)
  Limit,      \* cells of the cache before it overflows
  TagByte,    \* values of a tag's low byte (256 in the code)
  MaxTag,     \* bound of the model: the largest tag number used
  Programs,   \* the contents RAM may start with or be loaded with
  Entries,    \* where an indirect jump of the guest may go
  Pokes       \* the pairs <<address, word>> the guest may store

ASSUME SizesAssumption ==
  /\ Pages \in Nat \ {0} /\ PageWords \in Nat \ {0}
  /\ Limit \in Nat \ {0} /\ TagByte \in Nat \ {0} /\ MaxTag \in Nat
  /\ TagByte < MaxTag

Ewram == 0 .. Pages * PageWords - 1
Iwram == Pages * PageWords .. (Pages + 1) * PageWords - 1
Addr == Ewram \cup Iwram
Top == (Pages + 1) * PageWords

(* A word of a program: a branch (not always taken), a jump and an exit    *)
(* (an indirect jump) leave the straight line; the others only differ in   *)
(* `arg'.                                                                  *)
Words == [op : {"op", "branch", "jump", "exit"}, arg : Addr]

(* The last words of IWRAM are the BIOS's, no code runs into them. *)
ASSUME ProgramsAssumption ==
  /\ Programs \subseteq [Addr -> Words]
  /\ \A p \in Programs : p[Top - 1].op = "exit"
  /\ Entries \subseteq Addr
  /\ Pokes \subseteq (Addr \ {Top - 1}) \X Words

VARIABLES
  mem,       \* the guest's RAM
  tag,       \* the tags beside it
  tagTop,    \* ram_block_tag_top
  blockPtrs, \* ram_block_ptrs: tag number -> place in the cache
  cache,     \* ram_translation_cache
  ptr,       \* ram_translation_ptr
  span,      \* {iwram,ewram}_code_{min,max}
  call,      \* where the emulator thread is: running code or looking it up
  want,      \* the address being looked up
  flushes,   \* translation_flush_count: overflows in the current lookup
  stack,     \* the translations a lookup is nested in, outermost first
  run,       \* the guest's pc and the cell that stands for it
  unseen,    \* history: translated words overwritten by an unchecked store
  leftover   \* history: tags of entry points that survived a flush

tags == <<tag, tagTop, span>>
vars == <<mem, tag, tagTop, blockPtrs, cache, ptr, span, call, want,
          flushes, stack, run, unseen, leftover>>

None == -1
FirstTag == TagByte + 1
Mark == MaxTag + 1
Entry(t) == t >= FirstTag /\ t # Mark

Cells == 0 .. Limit
NoCell == [pc |-> None, word |-> [op |-> "exit", arg |-> 0], link |-> None]
NoSpan == [min |-> None, max |-> None]

-----------------------------------------------------------------------------
(***************************************************************************)
(* scan_block: a block goes on to the first unconditional exit that no     *)
(* earlier direct branch of the block jumps over.  The most recent direct  *)
(* branch is not asked: it is the exit itself, or, before an indirect      *)
(* exit, the branch before it.                                             *)
(***************************************************************************)
Direct(w) == w.op \in {"branch", "jump"}

Asked(pc, end) ==
  LET direct == {a \in pc .. end - 1 : Direct(mem[a])}
  IN  IF direct = {} THEN {} ELSE direct \ {Max(direct)}

EndsAt(pc, end) ==
  \/ mem[end - 1].op \in {"jump", "exit"}
     /\ \A a \in Asked(pc, end) : mem[a].arg # end
  \/ end = Top

BlockEnd(pc) == Min({end \in pc + 1 .. Top : EndsAt(pc, end)})

Block(pc) == pc .. BlockEnd(pc) - 1

(* The exits a block leaves to other blocks, in the order they are linked. *)
External(pc) ==
  LET block == Block(pc)
  IN  {a \in block : Direct(mem[a]) /\ mem[a].arg \notin block}

(* The cells of the block at pc, generated from cell `at' on; what does    *)
(* not fit is cut off in the spare cell.                                   *)
Generated(pc, at) ==
  LET block == Block(pc)
      Code(a) == [pc |-> a, word |-> mem[a],
                  link |-> IF Direct(mem[a]) /\ mem[a].arg \in block
                           THEN at + (mem[a].arg - pc) ELSE None]
  IN  [c \in Cells |-> IF c >= at /\ pc + (c - at) \in block
                       THEN Code(pc + (c - at)) ELSE cache[c]]

-----------------------------------------------------------------------------
Region(a) == IF a \in Iwram THEN "iwram" ELSE "ewram"
Page(a) == a \div PageWords

(* The words flush_translation_cache_ram clears the tags of.  A maximum    *)
(* that was never set is cut to the last byte of the region.               *)
ClearedIwram(s) ==
  IF s.min = None THEN {}
  ELSE s.min .. (IF s.max = None THEN Max(Iwram) ELSE s.max) - 1

(* Over several pages the code clears the pages in between, and then the   *)
(* start of page 0 where the last page is meant; the first page is left.   *)
ClearedEwram(s) ==
  LET max == IF s.max = None THEN Max(Ewram) ELSE s.max
  IN  IF s.min = None THEN {}
      ELSE IF Page(s.min) = Page(max) THEN s.min .. max - 1
      ELSE {a \in Ewram : \/ Page(s.min) < Page(a) /\ Page(a) < Page(max)
                          \/ a < max % PageWords}

Flushed(t, s) ==
  LET cleared == ClearedIwram(s["iwram"]) \cup ClearedEwram(s["ewram"])
  IN  [a \in Addr |-> IF a \in cleared THEN 0 ELSE t[a]]

(* flush_translation_cache_ram, for the tags t and the spans s.  The old   *)
(* code stays in the cache until other code is written over it, but it is  *)
(* kept in the model only if a tag still leads to it.                      *)
NoCode == [c \in Cells |-> NoCell]
NoBlocks == [t \in FirstTag .. MaxTag |-> 0]

(* A bug: the flush does not rewind the cache. *)
FlushOfTags(t, s, cells, ptrs) ==
  /\ tag' = Flushed(t, s)
  /\ tagTop' = FirstTag
  /\ ptr' = ptr
  /\ span' = [r \in DOMAIN s |-> NoSpan]
  /\ unseen' = {}
  /\ leftover' = {a \in Addr : Entry(Flushed(t, s)[a])}
  /\ cache' = IF leftover' = {} THEN NoCode ELSE cells
  /\ blockPtrs' = IF leftover' = {} THEN NoBlocks ELSE ptrs

Flush(t, s, cells, ptrs) ==
  /\ tag' = Flushed(t, s)
  /\ tagTop' = FirstTag
  /\ ptr' = 0
  /\ span' = [r \in DOMAIN s |-> NoSpan]
  /\ unseen' = {}
  /\ leftover' = {a \in Addr : Entry(Flushed(t, s)[a])}
  /\ cache' = IF leftover' = {} THEN NoCode ELSE cells
  /\ blockPtrs' = IF leftover' = {} THEN NoBlocks ELSE ptrs

Widened(s, pc) ==
  [s EXCEPT ![Region(pc)].min = IF @ = None \/ pc < @ THEN pc ELSE @]

(* A bug: the span ends with the block that was translated last. *)
ExtendedToLast(s, pc, end) == [s EXCEPT ![Region(pc)].max = end]

Extended(s, pc, end) ==
  [s EXCEPT ![Region(pc)].max = IF @ = None \/ end > @ THEN end ELSE @]

-----------------------------------------------------------------------------
(* The guest needs the code at pc. *)
LookUp(pc) == call' = "lookup" /\ want' = pc /\ flushes' = 0

(* The lookup of pc found `place': the outermost one jumps there, a nested *)
(* one patches the exit it was made for.                                   *)
Deliver(pc, place, frames, cells) ==
  IF frames = <<>>
  THEN /\ call' = "run" /\ run' = [pc |-> pc, at |-> place]
       /\ cache' = cells /\ stack' = frames
  ELSE LET top == Len(frames)
           exit == Min(frames[top].exits)
       IN  /\ call' = "link"
           /\ cache' = [cells EXCEPT ![exit].link = place]
           /\ stack' = [frames EXCEPT ![top].exits = @ \ {exit}]
           /\ UNCHANGED run

(* block_lookup_translate finds a tag. *)
Found ==
  /\ call = "lookup" /\ Entry(tag[want])
  /\ Deliver(want, blockPtrs[tag[want]], stack, cache)
  /\ UNCHANGED <<mem, tags, blockPtrs, ptr, want, flushes, unseen, leftover>>

(* It finds none, or starts again. *)
Missing ==
  \/ call = "lookup" /\ ~Entry(tag[want])
  \/ call = "redo"

(* A bug: only the entry point is tagged. *)
MarkedAtEntry == [tag EXCEPT ![want] = tagTop]

Marked ==
  LET block == Block(want)
  IN  [a \in Addr |-> IF a = want THEN tagTop
                      ELSE IF a \in block /\ tag[a] = 0 THEN Mark ELSE tag[a]]

Size(pc) == BlockEnd(pc) - pc

Fits(pc) == ptr + Size(pc) <= Limit

(* The block gets the next number, its words are marked and its code is    *)
(* generated; its exits to other blocks are then looked up.                *)
Translate ==
  /\ Missing
  /\ tagTop < Mark
  /\ Fits(want)
  /\ blockPtrs' = [blockPtrs EXCEPT ![tagTop] = ptr]
  /\ tag' = Marked
  /\ tagTop' = tagTop + 1
  /\ cache' = Generated(want, ptr)
  /\ ptr' = ptr + Size(want)
  /\ span' = Extended(Widened(span, want), want, BlockEnd(want))
  /\ stack' = Append(stack, [pc |-> want, at |-> ptr,
                             exits |-> {ptr + (a - want) : a \in External(want)}])
  /\ call' = "link"
  /\ leftover' = leftover \ {want}
  /\ UNCHANGED <<mem, want, flushes, run, unseen>>

(* The same, but the code does not fit: the cache is flushed, every nested *)
(* translation returns, and the outermost lookup goes to redo.             *)
Overflow ==
  /\ Missing
  /\ tagTop < Mark
  /\ ~Fits(want)
  /\ Flush(Marked, Widened(span, want), Generated(want, ptr),
           [blockPtrs EXCEPT ![tagTop] = ptr])
  /\ flushes' = flushes + 1
  /\ call' = "redo"
  /\ want' = IF stack = <<>> THEN want ELSE stack[1].pc
  /\ stack' = <<>>
  /\ UNCHANGED <<mem, run>>

(* The external exits of a new block are looked up one after the other, *)
Link ==
  /\ call = "link"
  /\ LET frame == stack[Len(stack)] IN
       /\ frame.exits # {}
       /\ call' = "lookup" /\ want' = cache[Min(frame.exits)].word.arg
  /\ UNCHANGED <<mem, tags, blockPtrs, cache, ptr, flushes, stack, run, unseen, leftover>>

(* and then its own lookup is done. *)
Linked ==
  /\ call = "link"
  /\ LET frame == stack[Len(stack)] IN
       /\ frame.exits = {}
       /\ Deliver(frame.pc, frame.at, Front(stack), cache)
  /\ UNCHANGED <<mem, tags, blockPtrs, ptr, want, flushes, unseen, leftover>>

-----------------------------------------------------------------------------
(***************************************************************************)
(* The guest.  The translated code is run as long as it stands for what    *)
(* the guest should run now; what other code does is not modelled.         *)
(***************************************************************************)
Current == cache[run.at].pc = run.pc /\ cache[run.at].word = mem[run.pc]

Running == call = "run" /\ Current

NextCell == run' = [pc |-> run.pc + 1, at |-> run.at + 1]

(* An instruction without effect on the code, or a branch not taken. *)
Step ==
  /\ Running
  /\ cache[run.at].word.op \in {"op", "branch"}
  /\ NextCell
  /\ UNCHANGED <<mem, tags, blockPtrs, cache, ptr, call, want,
                flushes, stack, unseen, leftover>>

(* A direct branch goes where its exit was patched to. *)
Branch ==
  /\ Running
  /\ Direct(cache[run.at].word)
  /\ run' = [pc |-> cache[run.at].word.arg, at |-> cache[run.at].link]
  /\ UNCHANGED <<mem, tags, blockPtrs, cache, ptr, call, want,
                flushes, stack, unseen, leftover>>

(* An indirect branch looks its target up. *)
Exit ==
  /\ Running
  /\ cache[run.at].word.op = "exit"
  /\ \E pc \in Entries : LookUp(pc)
  /\ UNCHANGED <<mem, tags, blockPtrs, cache, ptr, stack, run, unseen, leftover>>

(***************************************************************************)
(* A store reads the tag of its address: all of it for a word, its low     *)
(* byte for a byte.  No tag is read for the words of a block store before  *)
(* its last one and for cheats; a DMA reads it, but nobody looks at the    *)
(* answer when the DMA is started by a timer, a blank or an interrupt.     *)
(***************************************************************************)
(* A bug: only the entry points of blocks are watched. *)
NoticedAtEntry(a) ==
  [word |-> Entry(tag[a]), byte |-> Entry(tag[a]), block |-> FALSE]

Noticed(a) ==
  [word |-> tag[a] # 0, byte |-> tag[a] % TagByte # 0, block |-> FALSE]

(* The stores that change translated code without a flush. *)
Missed(a, width) ==
  \/ width = "block" /\ tag[a] # 0
  \/ width = "byte" /\ tag[a] # 0 /\ tag[a] % TagByte = 0

Store ==
  /\ Running
  /\ cache[run.at].word.op = "op"
  /\ \E poke \in Pokes, width \in {"word", "byte", "block"} :
       LET a == poke[1] IN
       /\ mem' = [mem EXCEPT ![a] = poke[2]]
       /\ IF Noticed(a)[width]
          THEN /\ Flush(tag, span, cache, blockPtrs)
               /\ LookUp(run.pc + 1)
               /\ UNCHANGED run
          ELSE /\ NextCell
               /\ unseen' = IF Missed(a, width) THEN unseen \cup {a} ELSE unseen
               /\ UNCHANGED <<tags, blockPtrs, cache, ptr, call, want, flushes,
                              leftover>>
  /\ UNCHANGED stack

(* load_state replaces the RAM, flushes and looks up the state's pc. *)
LoadState ==
  /\ Running
  /\ mem' \in Programs
  /\ Flush(tag, span, cache, blockPtrs)
  /\ \E pc \in Entries : LookUp(pc)
  /\ UNCHANGED <<stack, run>>

(* reset_gba flushes, and init_memory clears the RAM and all tags. *)
Reset ==
  /\ call = "run"
  /\ mem' \in Programs
  /\ tag' = [a \in Addr |-> 0]
  /\ tagTop' = FirstTag /\ ptr' = 0
  /\ span' = [r \in DOMAIN span |-> NoSpan]
  /\ unseen' = {} /\ leftover' = {}
  /\ cache' = NoCode /\ blockPtrs' = NoBlocks
  /\ \E pc \in Entries : LookUp(pc)
  /\ UNCHANGED <<stack, run>>

-----------------------------------------------------------------------------
Init ==
  /\ mem \in Programs
  /\ tag = [a \in Addr |-> 0]
  /\ tagTop = FirstTag
  /\ blockPtrs = NoBlocks
  /\ cache = NoCode
  /\ ptr = 0
  /\ span = [r \in {"iwram", "ewram"} |-> NoSpan]
  /\ call = "lookup" /\ want \in Entries /\ flushes = 0
  /\ stack = <<>>
  /\ run = [pc |-> None, at |-> 0]
  /\ unseen = {} /\ leftover = {}

Lookup == Found \/ Translate \/ Overflow \/ Link \/ Linked
Guest == Step \/ Branch \/ Exit \/ Store \/ LoadState \/ Reset
Next == Lookup \/ Guest

Spec == Init /\ [][Next]_vars

-----------------------------------------------------------------------------
(* The type of the state: blocks lie in the cache, tags and lists keep       *)
(* their widths (the translator and its caches, cpu_threaded.c:3189-3494).      *)
TypeOK ==
  /\ mem \in [Addr -> Words]
  /\ tag \in [Addr -> {0} \cup FirstTag .. Mark]
  /\ tagTop \in FirstTag .. Mark
  /\ blockPtrs \in [FirstTag .. MaxTag -> Cells]
  /\ ptr \in 0 .. Limit /\ flushes \in Nat
  /\ call \in {"run", "lookup", "redo", "link"}
  /\ unseen \subseteq Addr /\ leftover \subseteq Addr

(* All words the cache holds code of carry a tag, and the code is what the *)
(* guest has there, unless a store nobody checks wrote over it.            *)
Guarded ==
  \A c \in 0 .. ptr - 1 :
    LET a == cache[c].pc IN
    tag[a] # 0 /\ (a \notin unseen => cache[c].word = mem[a])

(* The guest runs its own code: what the emulator executes is the          *)
(* translation of the word now at the guest's pc.                          *)
CodeIsCurrent ==
  call = "run" /\ leftover = {} /\ run.pc \notin unseen => Current

(* A flush by the running program forgets every entry point, as long as    *)
(* the translated EWRAM code lies on one page: the spans cover the tags.   *)
NothingForgotten ==
  [][call = "run" /\ leftover = {}
       /\ Page(span["ewram"].min) = Page(span["ewram"].max)
     => leftover' = {}]_vars

(* "We allow for one translation cache flush" (cpu_threaded.c:2746): the   *)
(* second attempt of a lookup fits into the empty cache, so that redo is   *)
(* not for ever.  It holds for programs whose linked code fits at all.     *)
OneFlush == flushes <= 1

(* block_lookup_address hands out the block of the address it was asked    *)
(* for (the comment above it, cpu_threaded.c:2631).                        *)
LookupFindsItsBlock ==
  call = "lookup" /\ Entry(tag[want])
    => cache[blockPtrs[tag[want]]].pc = want
=============================================================================
