# A verification of gameboid

gameboid is a Game Boy Advance emulator for Android: Java activities, a JNI
layer (`src/jni/emulator.cpp`), and the core of gpSP in C and ARM assembly
(`src/jni/gbalib`), which translates the game's ARM code into native code.
This directory holds TLA+ modules translated from the source, the
configurations TLC checks them with, and proofs for TLAPS.

## The system

### Components

| component | source | state | operations |
|---|---|---|---|
| emulator control | `jni/emulator.cpp` | `emuState`, a mutex and a condition variable, `resumeRestart`, `resumeRequested`, `romLoaded`, `renderSurface`, `jImage` | `nativeRun`, `pause`, `resume`, `reset`, `loadROM`, `unloadROM`, `saveState`, `loadState`, `setRenderSurface`, `setOption`; towards the core `check_paused`, `flip_screen`, `render_audio` |
| frame loop | `gbalib/main.c` | `cpu_ticks`, `video_count`, `execute_cycles`, `timer[4]`, frame counters | `update_gba` (called by translated code), `synchronize`, `reset_gba` |
| memory and DMA | `gbalib/memory.c` | work RAM, I/O registers, `memory_map_read/write`, `dma[4]` | `read_memory*`, `write_memory*`, `write_io_register*`, `dma_transfer` |
| gamepak pages | `gbalib/memory.c` | `gamepak_memory_map`, `page_time` | `load_gamepak_page`, `evict_gamepak_page`, `init_memory_gamepak` |
| save memory | `gbalib/memory.c` | `gamepak_backup`, `backup_type`, `flash_*`, `sram_size`, `eeprom_*`, `backup_update`; the `.sav` file | `read_backup`, `write_backup`, `read_eeprom`, `write_eeprom`, `load_backup`, `save_backup`, `update_backup` |
| real-time clock | `gbalib/memory.c` | `rtc_*` | `write_rtc` |
| savestates | `gbalib/*.c` | a file | `save_state`, `load_state` |
| sound | `gbalib/sound.c` | four channels, two FIFOs, a ring of samples | `update_gbc_sound`, `sound_timer`, `sound_timer_queue*`, `update_sound` |
| recompiler | `gbalib/cpu_threaded.c`, `gp2x/arm_stub.S` | three translation caches, hash chains, tags beside RAM | `block_lookup_address_*`, `translate_block_*`, `flush_translation_cache_*` |
| CPU modes, interrupts | `gbalib/cpu.c` | `reg`, `reg_mode`, `spsr` | `set_cpu_mode`, `raise_interrupt` |
| video | `gbalib/video.c` | the frame buffer | `update_scanline` |
| input | `gbalib/input.c`, `com/androidemu/gba/input` | key masks | `update_input`, `onGameKeyChanged` |
| cheats, zip, game config | `cheats.c`, `zip.c`, `memory.c`, `main.c` | tables read at load time | `add_cheats`, `process_cheats`, `load_file_zip`, `load_game_config` |
| activity | `com/androidemu` | the static `Emulator` | Android life cycle and menu |

The ports to PSP, x86 and GP2X, `gui.c` and `disasm.c` are in the repository
but not in the Android build. The base classes of the activity and the Java
side of `EmuMedia` are in a library that is not in the repository.

### How they interact

There are two threads. The *UI thread* makes one JNI call at a time. The
*emulator thread* is in `nativeRun` for good: translated code calls
`update_gba` whenever `execute_cycles` are used up, and at the end of a frame
`update_gba` calls, in this order, `check_paused`, `update_input`,
`update_gbc_sound`, `synchronize`, `update_screen`, `update_backup` and
`process_cheats`. Everything in `gbalib` is unprotected shared state: it is
correct only if the UI thread uses it while the emulator thread is parked in
`check_paused`. After a reset or a load the thread must not go on with the
translated code and the locals it was parked with; `check_paused` returns 1 and
`update_gba` leaves its iteration.

### What is hard

* the handshake: fast path outside the mutex, one condition variable for two
  threads, a flag that is or-ed without the mutex, calls in any order;
* the save memory: its chip is guessed from the game's accesses, and the guess
  is what `save_backup` trusts; resets, loads, savestates and the death of the
  process fall between a write and the write-back ten frames later;
* raw pointers that outlive what they point to: pages of a large ROM, blocks of
  a translation cache, the flash bank in a savestate;
* a FIFO that cannot tell full from empty, a cache that evicts and one that
  starts again when it overflows;
* registers that are in an array, in a bank or in a host register, depending on
  mode, instruction set and stub;
* counters at their limits: timers, the sample ring, the frame counter;
* interrupts lost between the moment they are raised and the moment the game
  enables them.

`PROJECT.json` lists these as hazards, each at its line, with the properties
that cover it or the reason why none does.

### What makes each component correct

| component | properties |
|---|---|
| emulator control | one thread at a time uses the machine; an exchanged machine is started afresh; no dead surface is used; the game runs exactly when it should; nobody sleeps for ever |
| save memory | stored data reaches its own file, whole, and no other game's; the flash protocol is followed |
| gamepak pages | a mapped page is the page asked for; a page in memory stays mapped |
| real-time clock | the game hears what the clock answers, also when the page its port is on is evicted; chip and game count the same bits |
| frame loop | each line, frame and timer overflow happens once; a raised and enabled interrupt is taken; a halted CPU wakes |
| sound | what is played was written, once, and not yet overwritten; a FIFO asks for data in time |
| recompiler | code that is run was translated from what memory holds now |
| CPU modes | registers banked away come back unchanged |
| input | a key is down for the game if some device holds it and none holds its opposite |

## Modules

### MachineHandoff: the promise

The machine has one owner, the UI side or the emulator thread. The owner may
exchange it only on the UI side, it goes to the emulator thread by *Lend* and
comes back by *GiveBack*, and between being lent and being given back an
exchanged machine is started again (*Restart*).

### EmulatorControl: the handshake

A translation of `emulator.cpp`. `uiPc` and `emuPc` are the program counters of
the two threads, `call` is the JNI call in progress. A critical section, up to
the next wait or unlock, is one action; all that is done outside the mutex is
an action of its own, so `resumeRestart |= restart` is two and `waitForStart`
after its unlock is three. `pthread_cond_signal` wakes any one sleeper, and
`SpuriousWakeup` any at any time.

| action | code |
|---|---|
| `EnterCall`, `Return` | a JNI call from the activity |
| `PauseEmulator`, `PauseWoken`, `AudioPause` | `pauseEmulator` |
| `LoadResumeRestart`, `StoreResumeRestart`, `ResumeEmulator`, `ResumeWoken` | `resumeEmulator` |
| `SetRenderSurface` ... `LoadState` | the body of each call |
| `WaitForStart`, `AudioStart`, `ReadRestart`, `ClearRestart` | `waitForStart` |
| `Execute`, `CheckPaused`, `Park`, `SkipFrame`, `FlipScreen`, `FlipDone` | translated code, `update_gba`, `check_paused`, `flip_screen` |

`fresh` says whether the emulator thread's registers and locals belong to the
machine that is in memory. The refinement mapping to `MachineHandoff` gives the
machine to the UI side in `PAUSED` and `REQUEST_RUN`.

Assumed: the mutex and the condition variable are initialised before the first
call; the preferences screen is in front of a paused activity when
`soundEnabled` changes; the menu offers `reset`, `saveState`, `loadState` and
`unloadROM` only while a game is loaded.

### SaveMemory: chip detection and the .sav file

`kind` says which games the user has and the chip in each cartridge, out of
`Cartridges`; the emulator does not know it. `chip` holds the globals that
`init_memory` resets and a savestate saves.
`gamepak_backup` is cut into five regions at the five sizes of a file (0x200,
0x2000, 0x8000, 0x10000, 0x20000); `data` and `junk` say which regions hold the
game's own data and which hold bytes left by another game, `file`, `onFile` and
`fileJunk` say the same of the files. `WriteBackup(a, v)` is `write_backup` branch by branch
over the addresses and values the code tells apart; `FlashGameWrites` drives it
with the command sequences of a flash library, one write at a time, so that
frames, resets and savestates fall between any two. `UpdateBackup` is
`update_backup` with `save_backup`. `LoadROM` is `load_backup` followed by the
`reset_gba` of `Emulator_loadROM`. `Kill` is the end of the process, possibly in
the middle of `save_backup`. An EEPROM command is one DMA and one action.

The history variable `spoiled` collects the games that met a hazard the code
does not guard against, and the properties promise nothing to those:

1. the machine is reset, unloaded, switched or replaced by a savestate, or the
   process dies, while a write-back is pending;
2. an SRAM byte is stored at 0x5555 (it schedules no write-back), or 0xAA there
   (the game is taken for one with flash);
3. a 128KB flash chip is erased or programmed before its first bank switch;
4. the file cannot be opened for writing, or is written only in part (a full
   disk), of which `save_backup` takes no notice;
5. a savestate of an earlier process is loaded.

So the properties say that this list is complete. Each entry can be shown to be
needed by leaving it out of `spoiled`.

Not modelled: that `backup_update` reaches 0 again 2^32 frames after the start
(over two years), and a savestate of an earlier process whose pointer happens
to fall between the banks.

### EepromStore and Eeprom: the serial protocol

`EepromStore` is what a game expects: words that are read back as they were
last written. `Eeprom` is `write_eeprom` and `read_eeprom`, folded over the bits
of a DMA transfer. A transfer is one action, because no frame ends and so no
reset, savestate or write-back falls inside `dma_transfer`; they fall between the
transfer that asks for a word and the one that fetches it. The game
(`Request`, `Fetch`, `WriteWord`) sends what the libraries of the cartridge
makers send: 6 or 14 bits of address, 64 bits of data. `Detect` is the guess of
`trigger_dma`, made anew after each reset. A word is the set of its one bits,
so that or-ing a bit into a buffer is a union, and a buffer that was not cleared
shows. The history variable `written` is what the game believes the words to be;
the refinement takes it for the abstract store, so `WordStore` says that every
answer is the word as last written.

Not modelled: a request that is never fetched (the chip would stay in read mode
and drop the bits of the next command), and ROMs above 16MB, for which reads at
0x0D000000 return the ROM.

### FrameLoop: time, the display, timers and interrupts

`update_gba`, one iteration an action, in the branches the code has:
`TimersOnly`, `HBlankStarts`, `NextLine`, `FrameEnds`. The last is cut in two at
`check_paused`, with `Restarted` for a result of 1 and `NextFrame` for 0: there
the UI thread may reset, save or load, while `irq_raised`, `execute_cycles` and
the locals for VCOUNT and DISPSTAT are alive. `Finish` is the common end of an
iteration and `Continue` the two `continue` statements that bypass it. The
game's register writes (`StartTimer`, `WriteIE`, `Halt`, ...) are actions that
happen at any time between two calls; a store that returns an alert ends its
slice.

`execute_cycles` is what `update_gba` will account for, not what the CPU will
run: a timer that is started shortens the first and not the second. `exchanged`
and `stale` are history variables.

What the code does and a reader may not expect, and the model keeps:

* after a `continue` the slice is that of the iteration before, or of the
  savestate, and the interrupts collected in `irq_raised` are dropped, or kept
  for the machine that was loaded if it is halted;
* `check_timer` compares a signed count as unsigned, so a timer that fell behind
  by more than its period would be passed over for good. Only the slice after a
  `continue` can leave one behind, and only one whose period was cut while it ran
  to less than that slice. The slice is one of a horizontal blank after a first
  `continue`, and up to a line, less a cycle, after a second one in the line that
  follows, or after a savestate of such a moment. `KeepsPace` keeps the game from
  cutting the period of a running timer to less than a line; a timer that is
  stopped may be given any. Without it `frame_timers` fails;
* writes to IE and IME do not look at IF. An interrupt pending before is taken
  at the next write of the CPSR, or when it is raised again.

Not modelled: sound and video calls, direct-sound DMA, three of the four DMA
channels, the data of a DMA, 8-bit writes, and `synchronize`.

### TranslationCache: code that is run is current

The RAM part of `cpu_threaded.c`: a lookup reads the tag beside the guest's
address, and either finds a block (`Found`), translates one (`Translate`: scan,
number, mark, generate) and looks up every block it jumps to (`Link`, `Linked`,
with `stack` for the recursion), or finds that it does not fit (`Overflow`: the
cache is flushed, all nested translations return and the outermost lookup
starts again). The guest (`Step`, `Branch`, `Exit`, `Store`, `LoadState`,
`Reset`) runs what the cache holds, and its stores go through the checks of
`arm_stub.S`. A block is scanned, cut and tagged word by word as `scan_block`
does; one cell of the cache stands for the native code of one word.

`Flush` is `flush_translation_cache_ram` with the spans it clears, the code's
arithmetic over pages of EWRAM included. Two history variables hold what the
code does not guarantee and the properties except:

* `unseen`, translated words that were overwritten by a store nobody checks: all
  but the last word of a block store, a byte store on a tag whose low byte is 0,
  a DMA that is not started by a store, cheats;
* `leftover`, tags of entry points that survived a flush (see *Findings*).

### BankedRegisters and CpuModes: the guest's registers

`BankedRegisters` is the ARM a program expects: a stack pointer and a link
register for each mode, a saved status for each exception mode, interrupts that
enter and returns that leave. `CpuModes` is what the emulator has for it: `reg`
for the current mode only, the banks of `set_cpu_mode`, and the host registers
that translated code uses meanwhile, others in ARM than in Thumb code. Each
action is a guest instruction with the stubs of `arm_stub.S` it goes through:
`Slice` (`update_gba`), `DmaStore` (`write_io_epilogue`), `StoreCpsr`
(`execute_store_cpsr`, for any of the `Fields` an MSR names), `StoreSpsr`,
`SpsrRestore`, `Swi`, `Exchange` (`BX`), and plain writes. The refinement mapping collects the guest's registers
from where they are (`GuestR5`, `GuestR8`, `GuestBank`, `Collapsed`).

The guest keeps to what the console was made for, and the model says so in its
guards: interrupts are masked in IRQ and FIQ mode, no SWI is executed in
supervisor or FIQ mode, FIQ mode is left for the mode it was entered from, and
an exception is returned from only where one saved its status. `set_cpu_mode`
needs the third: it keeps r8 to r12 in the bank of the mode that FIQ is entered
from. `DmaInterrupts` allows a store to DMA control to interrupt the guest at
once; with it `RegistersBanked` does not hold (see *Findings*).

An MSR names the fields it sets, and an ARM keeps the others
(`BankedRegisters!Stored`). `execute_store_cpsr` keeps the flags it finds in memory
(`Merged`) and `execute_store_spsr` keeps nothing. `LossyStores` allows the MSRs to
which this makes a difference; with it `RegistersBanked` does not hold either. The
history variable `named` labels a step with the fields an MSR named, in both
modules: otherwise an MSR of the control bits that loses the flags would pass for
one of both fields. With the two constants FALSE `RegistersBanked` holds.

### GamepakCache: pages of a large cartridge

Where `malloc` does not give 32MB, a game that does not fit in the buffer is read
page by page. `Access` is any access through a null pointer of
`memory_map_read`, `LoadGamepakPage` the eviction of the slot with the oldest
timestamp (the last of equals, as the loop finds it), `LoadGamepak` and `Reset`
what `init_memory_gamepak` does to the map, for a large game up to 0xD000000
only (`Kept`). `gamepak_rom` says what page of which game a slot holds.

Not modelled: files that cannot be read any more, and a caller that keeps a
pointer over a second load (a DMA with both ends in the cartridge).

### RealTimeClock: a port on page 0

Some cartridges have a clock behind three registers, C4, C6 and C8, each
addressed like a byte of the ROM. `write_rtc` keeps the chip's state in `rtc_*`
(the record `rtc`) and writes what the game is to read onto page 0, which is
loaded for it if it is not there (`OnPage`, `BesideOnPage`); when
`load_gamepak_page` loads page 0 for anybody else, it puts the registers back
(`Loaded`). So the module extends `GamepakCache`: `port` is the byte at C4 of the
page in each slot, and every action of the cache has its counterpart
(`ClockAccess`, `ClockLoadGamepak`, `ClockReset`).

`WrittenC4` is the switch of `write_rtc` over the chip's state, with
`TakeCommand` and `Executed` (a command bit by bit), `TakeData` (the new status)
and `GiveData` (an answer, bit by bit). `driver` is the game's own driver,
which the repository does not contain: it sends a command the highest bit
first and clocks the answer out the lowest bit first, as `write_rtc` expects,
and does not care what happens to the page in between. The history variable
`reply` holds the answer the clock gave when it took the command. Registers and
bytes are the sets of their bits that are 1.

Not modelled: savestates (they copy all of it); commands the code does not
know, after which the chip waits for more bits; registers C6 and C8 on the page,
which a load puts at C5 and C6 (`memory.c:2919` copies three bytes from an
array); and years that end in 80 to 99, whose byte has its top bit set: the
status takes over that byte (see *Findings*), and an answer that ends in a one
could lose it to a load of page 0, for the registers are cleared with the last
bit.

### DirectSound: FIFOs and their DMA

`Timer(ch)` is `sound_timer`: the sample at `base` is played, and with half a FIFO
or less left every DMA channel whose `direct_sound_channel` is this FIFO
transfers sixteen bytes (`Queued`). `base = top` stands for a full FIFO as well as for
an empty one; the history variable `fill` tells them apart, samples are serial
numbers, and `heard`, `late` and `flowing` say how far the player has got. An
empty FIFO is played all the same and is "full" of old samples then; with the
sound off nothing is taken out, and a full FIFO is taken for empty and
refilled. `ResetFifo` clears the samples of channel A whichever channel the game
asked for, as `sound_reset_fifo` does (`sound.c:158`), and leaves the indices.
The properties hold with all of that.

The game starts one DMA per FIFO, with repeat (`Repeats`), and stores samples
itself only while there is room and no DMA serves the FIFO.

Not modelled: mixing into `sound_buffer` and the ring `update_sound` drains,
ordinary transfers of the same DMA channels, savestates (they copy all of it).

## Runs

| run | what it checks | bounds |
|---|---|---|
| `control` | the safety properties of the handshake, the inductive invariant; calls return, a started game runs; all of `MachineHandoff` | two surfaces: enough to replace one by another |
| `save_files` | durability, separation of games, files that never shrink, flash protocol and banks; a game that stops storing gets its data written | two games with different chips, or one with a 128KB flash and a savestate; two frames of delay: a write, a frame, a write, then idle |
| `eeprom` | the protocol implements the store of words; every command starts and ends in step | three words for each chip, with address bits at both ends of both bytes; two values |
| `frame_timers` | no slice runs past an event; timers survive savestates and the slice after them; no return to a replaced machine | two timers, cascade, one slot; a period of one cycle, shorter than any phase of the display, and one of a horizontal blank |
| `frame_interrupts` | registers agree with the phase of the display; no interrupt is left untaken; under fairness frames go on and a halted game wakes | all sources, each enabled in one of two IE masks, the display's also in DISPSTAT or not; one timer with a prescaler, three kinds of DMA; three lines |
| `translation` | the code that is run is that of memory; marked words cover the cache; a lookup is restarted at most once; flushes forget | three EWRAM pages of four words and IWRAM, a cache of seven cells that two programs overflow, tags with a low byte of 0..3 |
| `cpu_modes` | the banked registers, over every path between modes and instruction sets | two values, at most one register marked with the second: values are only copied, so one mark finds any register that moves; `DmaInterrupts` and `LossyStores` FALSE |
| `direct_sound` | no sample lost, reordered or late, no FIFO runs dry | FIFOs of 4 samples with transfers of 2, eight samples supplied to each: two full turns |
| `clock_and_pages` | a mapped page is the page asked for and stays mapped; the game hears the clock's answer; a command leaves the clock ready | two slots, games of 2 pages (it fits) and of 3 (it does not), three page loads: page 0 is evicted and comes back in either slot; answers of one byte and of two, two dates that differ in the last |
| `lookup_after_flush`, `dma_interrupt`, `status_written` | violated: comments the code does not keep | as the run of the same module |

`save_files` stops (`SomeGameSound`) at states in which every game is spoiled,
where all the properties hold trivially, and takes savestates of the large flash
only (`StatesOfLargeFlash`), whose bank pointer is what they could break.
`translation` ends a history with the lookup after a flush that left a tag
(`Trusted`). `cpu_modes` does not follow what comes after an exception into FIQ
mode (`NoFiqReturn`): no code path of the emulator makes one. Its `VIEW` leaves out
`named`, which no action reads: TLC checks every step, with its own label. `clock_and_pages`
is a small instance of the cache, because every state of it is multiplied by the
places of a serial transfer; that nothing hangs on the sizes is proved.

*Fairness.* `EmulatorControl!FairSpec` has weak fairness of each thread's own
steps, `UiWork` and `EmuWork`: the operating system schedules both, and inside a
call the UI thread goes on. What the user does (`UiEvent`) and spurious wakeups
have none. `SaveMemory!FairSpec` has weak fairness of the frame: the game that
is loaded runs. `FrameLoop!FairSpec` has weak fairness of `SliceEnds`, for
translated code always uses up its cycles, and of `UpdateGba`, for a parked
emulator is let run (which `control` shows of the handshake, for a user who
resumes). The game's own writes and the UI have none.

*Scale.* A line has 5 cycles instead of 1232, a frame two or three lines instead
of 228, and the trigger of `event_cycles` comes in the first frame: every
comparison `update_gba` makes has both outcomes, alone and together with an
overflow of a timer, and periods are as long as a phase of the display, shorter
and longer.

## Proofs

Eight modules prove, for every value of the constants, what the runs show of a
small instance. In each, a lemma per action shows that the step keeps an
inductive invariant `IInv` or `Inv`, and the theorems follow from it.

`EmulatorControl_proofs`: for any set of surfaces `TypeOK`, `IInv` and every safety
property of `control` hold, and the handshake implements the safety part of
`MachineHandoff`. None of the properties is inductive. `IInv` adds where each
thread is in each value of `emuState` (`EmuPlace`, `UiPlace`: for instance that a
call past its `pauseEmulator` finds `PAUSED` until it resumes the emulator
itself), that the emulator leaves `PAUSED` only when it may run (`Wanted`), where
an exchanged machine is announced while `resumeRestart` is being read, or-ed and
cleared (`Announced`), and the track's state along the way (`AudioPlace`).
`Announced` is the heart of it: the unprotected `|=` can write back a flag that
`waitForStart` has just cleared, which costs a spurious restart, but can never
lose one. The refinement is `HandoffInit` and `HandoffStep`. The only assumption
is `NoSurfaceAssumption`.

`SaveMemory_proofs`: for any games, cartridges, savestate slots and delay the
types, `InStep`, `BankKept`, `Durable`, `NoForeignBytes` and `FileNeverShrinks`
hold. All are about games that are not `spoiled`, and the
invariant is too: the command state of the chip is the one of the game's flash
library (`FollowsLibrary`), the sizes the emulator guessed are at most those of
the chip and exactly those once the game has used it (`Fits`, `Known`), and the
memory and the file hold no byte that is not the game's (`OwnFile`).
`Inv` collects these as `Loaded`, `ChipFits`, `BankKept`, `SnapsFit`, `Playing` and
`Files`. `FlashStep`, over `ProtocolSteps`, is the case analysis of
`write_backup` against the library; `SizeKnown` carries the size over the
countdown; `SpoiledGrows` lets a property of the old state be used in the new
one.

`Eeprom_proofs`: for any words of either chip and any values the types and `InStep`
hold, and the bits on the wire implement the store of words (`StoreOfWords`). A
command is proved in phases: `CommandSent`, `AddressReceived`, `DataPhase` and so on
say which machine the chip is after each part of it, each bit being one lemma
(`FirstBit` to `IdleBit`). What holds after every bit of a phase is an induction, done
in first-order logic: the set of those numbers of bits after which it holds contains
0 and with each its successor, and `UpTo` says that such a set has them all. That the
recursive functions of `Received` and `Fetched` exist is proved the same way
(`ReceivedRun`, `FetchedRun`). `Halves` and `TenBits` add up the bits of an address,
which is how the word the chip decodes is seen to be the one the game sent.
`IInv` ties the memory of the chip to what the game believes it to hold, says
which modes and sizes there are between transfers, and says of the savestate that
the chip in it is in step with the game saved with it (`Sound`): `InStep` alone would
not survive `LoadState`. The assumption is `EepromAssumption`: the numbers of words
fit the address bits, and values are sets of bits.

`FrameLoop_proofs`: for a display of any size and any timers, settings and
savestates all the safety properties of both runs hold. For
`DispstatFollowsVcount`, `InterruptsTaken` and `NoReturnToOldCode` its `IInv` says
that the registers are sound and those in the savestates too (`Registers`,
`Saved`), and where a replaced machine can be before its code
runs (`Replaced`): halted, so that only an interrupt, which sets the PC, gets it
out of the loop; or on its way out of `check_paused` with `CHANGED_PC_STATUS`
set. `RaisedSound`, `FlaggedSound` and `FinishStep` carry what `raise_interrupt`
and the end of an iteration do; `GameStep`, `UpdateStep` and `UiStep` are the
three kinds of steps. For `SliceEndsInTime` and `TimersKeepUp` a second invariant,
`ClockInv`, says of the timers, the slice and the display, and of those in every
savestate, that the slice is no longer than the phase of the display, nor than
the period of any timer, and neither will the next one be, which is no longer
than the timer's count or than a line (`InTime`). So a slice that comes a second
time leaves a timer less than a period behind, and one reload brings it back.
`UpdateTimerStep` carries an overflow from one timer to the next, `NewSlice` is
`check_timer`. `ClockInv` is what showed that the slice after a `continue` may be
longer than a horizontal blank. The assumption is `FrameLoopAssumption`: of the
display, that a horizontal blank is no longer than the rest of the line.

`TranslationCache_proofs`: for memories, caches, programs and stores of any size
`Guarded`, `CodeIsCurrent` and `NothingForgotten` hold. A first invariant (`IInv`)
has `Guarded` and the types of words, tags and cells it needs. It does not say that
the guest gets where it wants to go, so a second one (`CInv`) follows what leads
into the cache: as long as no flush has left a tag, every tag leads to the block
of its address (`TagsLead`), every cell to the next word and every direct exit to
its target (`Joined`), except the exits that a translation in progress has still
to patch (`Open`); each of those translations waits for the one nested in it
(`Nested`, `Waits`), which is why what is found at last may be patched in; and the
spans reach over all entry points (`Spanned`), so that a flush clears them. After
an overflow the second attempt starts from empty caches, or from tags that were
left over, and the invariant claims nothing until they are gone. `MinOfNat`,
that every set of numbers has a smallest one, comes from the finite sets'
well-founded order, as the end of a block and the next exit are minima.

A third invariant (`Attempts`) proves `OneFlush`. It is about programs whose code
fits, so the theorem (`OneFlushSuffices`) says so: `LinkedCodeFits` asks of each
lookup the guest makes for a set of blocks that jump to each other only, with no
more words than the cache has cells; TLC finds this true in every state of
`translation`. Once the cache is empty, each of its cells stands for another word of
these blocks (`Again`): a block is translated once, for then it has a tag, and what
is looked up on the way is one of the set. Cells are therefore no more than words
(`SecondFits`, by the library's theorem on injections into finite sets), so that
the second attempt cannot overflow, whatever tags the flush has left over.

`CpuModes_proofs`: for any words and any modes the guest gives itself, with
`DmaInterrupts = FALSE`, the types hold, and with `LossyStores = FALSE` as well
`CpuModes` implements `BankedRegisters` (`MergedStatus` is the MSR). The C code works on a machine in memory; `StoredMachine` and
`ResumedMachine` say which machine a stub hands over and takes back, `Sound` which
machines there are, and the lemmas on `set_cpu_mode` and on an interrupt are
about those, so that each action is a composition of them.

`RealTimeClock_proofs`, of the pages: for any number of slots and pages and any
games `MapTrue` and `PagesStay` hold. The invariant adds that a slot of a large
game knows the page it holds (`SlotKnows`), that a mapped page is mapped to the
slot that knows it, at all mirrors (`SlotMapped`), and that a game that fits is in
memory whole (`Whole`).

`RealTimeClock_proofs`, of the clock: for answers and dates of any length and
cartridges of any size `AnswerHeard` and `CommandsEnd` hold, and with the clock on
page 0 the pages are still loaded and evicted as `GamepakCache` says
(`ClockUsesPages`), so that what is proved of them holds here. The invariant says
for each place in the game's driver which wires are up and how many bits the chip
has counted (`Ready`, `Listening`), that the answer it gives is the one it gave
first (`Answers`), and that the bit on the wire is both in the register, for a
load of page 0, and on the page if it is mapped (`Answering`). The last bit is
special: with it the registers are cleared, and a load would put a zero onto the
page. No answer ends in a one (`LastBit`), for which `ClockAssumption` has dates
without top bits.

`DirectSound_proofs`: for transfers of any size, and games whose sound DMA
repeats, all the properties of `direct_sound` hold. The invariant says that the
samples still to be heard are the last of those due, one after the other in the
FIFO, and that all others there are older (`InLine`); that a DMA that has ended
serves no FIFO and each FIFO has one DMA at most (`Served`); and that the old
samples that are due and those played since the DMA started are together no
more than the FIFO holds (`InTime`). `QueueInLine`, `PlayInLine` and `FullAsEmpty`
are the three things that happen to a FIFO.

Every safety property and every refinement the passing runs check is proved.
Only model-checked is liveness, of which TLAPS cannot reason: it knows neither
fairness nor `ENABLED`. These are `CallsReturn` and `StartedGameRuns` of
`EmulatorControl`, `WrittenInTheEnd` of `SaveMemory`, `FramesGoOn` and `WokenByVBlank` of
`FrameLoop`, and what `MachineHandoff` promises to happen in the end.

## Findings

* When translated EWRAM code spans several pages, the flush clears the pages
  strictly between the first and the last and then the *start of page 0*; tags
  of the first and the last page survive, and lead lookups to other blocks once
  their numbers are used again (`cpu_threaded.c:3450`). So does the tag of a block
  that overflowed the cache beyond the highest end so far: `ewram_code_min` moves
  before a block is translated, `ewram_code_max` only after (`cpu_threaded.c:3368`).
* A store that starts a DMA with an interrupt enters the handler before the flags
  and host registers are stored: `spsr_irq` has old flags, and the handler's LR
  is overwritten with the interrupted code's (`memory.c:2815`), against the
  comment at `arm_stub.S:590`.
* The status a game writes to the clock never arrives: the bits are looked at
  while the clock line is low and taken from the clock line (`memory.c:1620`,
  "Read next bit for input"); the status becomes what the last answer left in
  `rtc_data` (`memory.c:1549`: "Sets status of RTC").

Met while modelling, without a run of their own: what `load_backup` learns from
the size of a file (`memory.c:1850`) is undone by the reset that follows
(`memory.c:3078`); a sound DMA without repeat goes on serving its FIFO after it
ended, because only `start_type` is cleared (`memory.c:2809`); an SRAM byte stored at 0x5555
schedules no write-back (`memory.c:1369`), and one 0xAA stored there turns an
SRAM game into a flash game (`memory.c:1307`), both in `spoiled`; the flash ID
above address 1 is read uninitialised (`memory.c:187`); an interrupt into the mode
the CPU is already in loses the return address (`cpu.c:4245`), which masking
prevents; an MSR that names the control bits only gives the guest the flags last
stored to memory in place of its own (`arm_stub.S:312`, where line 307 says
"bitmask of which bits in cpsr to update"; the interpreter's `cpu.c:902` is alike):
with `LossyStores = TRUE` TLC finds `RegistersBanked` violated after a compare and
one MSR; MSR to the SPSR ignores its mask (`arm_stub.S:346`); `update_gba` drops
the interrupts it collected when `check_paused` asks for a restart of a running
machine (`main.c:286`); HBlank DMA is decided by the local copy of DISPSTAT
(`main.c:232`); an EEPROM request that is never fetched leaves the chip in read
mode (`memory.c:239`); `load_state`, called out of `update_gba`, returns to a stub
that goes on with the flags of before (`arm_stub.S:228`).

## Not modelled

* **Initialisation against the first calls** (`emulator.cpp:365`): locking a mutex
  that another thread initialises again is undefined, and there is nothing the
  outcome could be checked against.
* **Rest of the sound.** Tone channels and mixing are arithmetic over waveforms
  and fixed-point rates; `update_sound` drains a ring that lags behind only by
  the time a frame takes.
* **Video.** Pixel arithmetic, no control state of its own.
* **Input.** One key word, assigned by one thread and polled by the other.
* **Cheats, zip, game config.** File formats and tables read at load time. That the
  inflate loop of `zip.c` goes round for ever on a data error depends on zlib.
* **Activity.** Its life cycle is decided by Android and a base class that is not
  in the repository; which calls it makes is the environment of
  `EmulatorControl`.
* **ROM translations and the BIOS region** of the recompiler (code that is never
  overwritten), the emission of native instructions, and the interpreter, which
  the build does not use.
* **Ports** to other machines, `gui.c`, `disasm.c`: not in the Android build.
