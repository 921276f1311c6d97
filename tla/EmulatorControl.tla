-------------------------- MODULE EmulatorControl --------------------------
(***************************************************************************)
(* The control of the emulator thread: src/jni/emulator.cpp.               *)
(*                                                                         *)
(* Two threads. The UI thread of the Android activity makes the JNI calls, *)
(* one at a time (setRenderSurface, pause, resume, reset, loadROM,         *)
(* unloadROM, saveState, loadState, setOption). The emulator thread runs   *)
(* nativeRun: it translates and executes the game and, once a frame, asks  *)
(* check_paused whether it has to park. They meet in emuState, under one   *)
(* mutex and one condition variable.                                       *)
(*                                                                         *)
(* Grain: a critical section, from the lock (or the return of              *)
(* pthread_cond_wait) to the next wait or unlock, is one step, which is    *)
(* what the mutex makes of it; everything done outside the mutex (the      *)
(* fast path of check_paused, both accesses to resumeRestart, the audio    *)
(* calls, the operations on the machine) is a step of its own.             *)
(***************************************************************************)
CONSTANTS
  Surfaces,  \* the render surfaces the Android view hands over
  NoSurface  \* the NULL reference

ASSUME NoSurfaceAssumption == NoSurface \notin Surfaces

VARIABLES
  emuState,         \* RUNNING, PAUSED or a request of the UI thread
  waiting,          \* the threads asleep in pthread_cond_wait
  resumeRestart,    \* the machine was exchanged: check_paused must return 1
  resumeRequested,  \* the activity wants the game to run
  romLoaded,        \* a game is loaded
  renderSurface,    \* the global reference flip_screen draws to
  soundOn,          \* global_enable_audio
  audio,            \* the AudioTrack of EmuMedia
  call,             \* the JNI call the UI thread is in
  uiPc,             \* where the UI thread is in it
  orTmp,            \* resumeRestart as read by resumeRestart |= restart
  emuPc,            \* where the emulator thread is
  restart,          \* rv of waitForStart
  started,          \* waitForStart has returned to Emulator_run
  flipRef,          \* the surface reference flip_screen is using
  fresh             \* the emulator thread's registers and the locals of
                    \* update_gba are those of the machine in memory

uiVars   == <<resumeRequested, romLoaded, renderSurface, soundOn>>
emuVars  == <<emuPc, restart, started, flipRef>>
callVars == <<call, uiPc, orTmp>>
vars     == <<emuState, waiting, resumeRestart, audio, fresh, uiVars, emuVars,
              callVars>>

EmuStates == {"RUNNING", "PAUSED", "REQUEST_PAUSE", "REQUEST_RUN"}

(* Calls that start with pauseEmulator, and those that hand over a machine *)
(* other than the one the emulator thread parked with.                     *)
PausingCalls == {"setRenderSurface", "pause", "reset", "loadROM", "unloadROM",
                 "saveState", "loadState"}
RestartCallsButLoad == {"reset", "loadROM"}  \* a bug: load_state without restart
RestartCalls == {"reset", "loadROM", "loadState"}
Calls        == PausingCalls \cup {"resume"}
(* The activity offers these only while a game is loaded.                  *)
GameCalls    == {"reset", "unloadROM", "saveState", "loadState"}

UiPcs  == {"idle", "pause", "pauseWait", "audioPause", "body", "orLoad",
           "orStore", "resume", "resumeWait"}
EmuPcs == {"waitForStart", "audioStart", "readRestart", "clearRestart",
           "exec", "check", "park", "frame", "flip"}

Init ==
  /\ emuState = "PAUSED"
  /\ waiting = {}
  /\ resumeRestart = FALSE
  /\ resumeRequested = FALSE
  /\ romLoaded = FALSE
  /\ renderSurface = NoSurface
  /\ soundOn \in BOOLEAN
  /\ audio = "none"
  /\ call = "none"
  /\ uiPc = "idle"
  /\ orTmp = FALSE
  /\ emuPc = "waitForStart"
  /\ restart = FALSE
  /\ started = FALSE
  /\ flipRef = NoSurface
  /\ fresh = FALSE

-----------------------------------------------------------------------------
(* A bug: the signal is forgotten. *)
NotSignalled(W) == {W}

(* pthread_cond_signal: one sleeping thread, if there is one, wakes up.    *)
Signalled(W) == IF W = {} THEN {{}} ELSE {W \ {t} : t \in W}

(* POSIX lets pthread_cond_wait return without a signal.                   *)
SpuriousWakeup ==
  /\ \E t \in waiting : waiting' = waiting \ {t}
  /\ UNCHANGED <<emuState, resumeRestart, audio, fresh, uiVars, emuVars, callVars>>

-----------------------------------------------------------------------------
(* The UI thread: the part every call shares.                              *)

(* Bugs the properties are tried on: saveState, setRenderSurface or reset  *)
(* without their pauseEmulator.                                            *)
SaveWithoutPause(c) == IF c \in {"resume", "saveState"} THEN "body" ELSE "pause"
SurfaceWithoutPause(c) ==
  IF c \in {"resume", "setRenderSurface"} THEN "body" ELSE "pause"
ResetWithoutPause(c) == IF c \in {"resume", "reset"} THEN "body" ELSE "pause"

(* pauseEmulator comes first in every call but resume, and loadROM's       *)
(* unloadROM returns at once when no ROM is loaded.                        *)
FirstStep(c) ==
  IF c = "resume" \/ (c = "loadROM" /\ ~romLoaded) THEN "body" ELSE "pause"

(* A JNI call begins.                                                      *)
EnterCall(c) ==
  /\ uiPc = "idle"
  /\ c \in GameCalls => romLoaded
  /\ call' = c
  /\ uiPc' = FirstStep(c)
  /\ UNCHANGED <<emuState, waiting, resumeRestart, audio, fresh, uiVars, emuVars, orTmp>>

(* The call returns to Java. *)
Return ==
  /\ call' = "none"
  /\ uiPc' = "idle"

(* pauseEmulator: ask a running emulator to park, and sleep until it has.  *)
PauseEmulator ==
  /\ uiPc = "pause"
  /\ \/ /\ emuState = "RUNNING"
        /\ emuState' = "REQUEST_PAUSE"
        /\ waiting' = waiting \cup {"ui"}
        /\ uiPc' = "pauseWait"
     \/ /\ emuState # "RUNNING"
        /\ uiPc' = "audioPause"
        /\ UNCHANGED <<emuState, waiting>>
  /\ UNCHANGED <<resumeRestart, audio, fresh, uiVars, emuVars, call, orTmp>>

PauseWoken ==
  /\ uiPc = "pauseWait"
  /\ "ui" \notin waiting
  /\ IF emuState = "REQUEST_PAUSE"
     THEN waiting' = waiting \cup {"ui"} /\ UNCHANGED uiPc
     ELSE uiPc' = "audioPause" /\ UNCHANGED waiting
  /\ UNCHANGED <<emuState, resumeRestart, audio, fresh, uiVars, emuVars, call, orTmp>>

(* A bug: the audio track is left to play. *)
AudioNotPaused ==
  /\ uiPc = "audioPause"
  /\ uiPc' = "body"
  /\ UNCHANGED <<emuState, waiting, resumeRestart, audio, fresh, uiVars, emuVars,
                 call, orTmp>>

AudioPause ==
  /\ uiPc = "audioPause"
  /\ audio' = IF soundOn /\ audio = "playing" THEN "ready" ELSE audio
  /\ uiPc' = "body"
  /\ UNCHANGED <<emuState, waiting, resumeRestart, fresh, uiVars, emuVars, call, orTmp>>

(* resumeEmulator(restart): resumeRestart |= restart is a load and a store *)
(* outside the mutex.                                                      *)
LoadResumeRestart ==
  /\ uiPc = "orLoad"
  /\ orTmp' = resumeRestart
  /\ uiPc' = "orStore"
  /\ UNCHANGED <<emuState, waiting, resumeRestart, audio, fresh, uiVars, emuVars, call>>

StoreResumeRestart ==
  /\ uiPc = "orStore"
  /\ resumeRestart' = (orTmp \/ call \in RestartCalls)
  /\ uiPc' = "resume"
  /\ orTmp' = FALSE
  /\ UNCHANGED <<emuState, waiting, audio, fresh, uiVars, emuVars, call>>

(* A bug: the surface is not asked for. *)
MayRunUnseen == resumeRequested /\ romLoaded

(* What must all hold for the game to run.                                 *)
MayRun == resumeRequested /\ renderSurface # NoSurface /\ romLoaded

ResumeEmulator ==
  /\ uiPc = "resume"
  /\ \/ /\ MayRun /\ emuState = "PAUSED"
        /\ emuState' = "REQUEST_RUN"
        /\ \E W \in Signalled(waiting) : waiting' = W \cup {"ui"}
        /\ uiPc' = "resumeWait"
        /\ UNCHANGED call
     \/ /\ ~(MayRun /\ emuState = "PAUSED")
        /\ Return
        /\ UNCHANGED <<emuState, waiting>>
  /\ UNCHANGED <<resumeRestart, audio, fresh, uiVars, emuVars, orTmp>>

ResumeWoken ==
  /\ uiPc = "resumeWait"
  /\ "ui" \notin waiting
  /\ IF emuState = "REQUEST_RUN"
     THEN waiting' = waiting \cup {"ui"} /\ UNCHANGED <<call, uiPc>>
     ELSE Return /\ UNCHANGED waiting
  /\ UNCHANGED <<emuState, resumeRestart, audio, fresh, uiVars, emuVars, orTmp>>

-----------------------------------------------------------------------------
(* The UI thread: what each call does between its pause and its resume.    *)

Body(c) == uiPc = "body" /\ call = c

Resuming ==
  /\ uiPc' = "orLoad"
  /\ UNCHANGED call

SetRenderSurface(s) ==
  /\ Body("setRenderSurface")
  /\ renderSurface' = s
  /\ IF s = NoSurface THEN Return ELSE Resuming
  /\ UNCHANGED <<emuState, waiting, resumeRestart, audio, fresh, resumeRequested,
                 romLoaded, soundOn, emuVars, orTmp>>

Pause ==
  /\ Body("pause")
  /\ resumeRequested' = FALSE
  /\ Return
  /\ UNCHANGED <<emuState, waiting, resumeRestart, audio, fresh, romLoaded,
                 renderSurface, soundOn, emuVars, orTmp>>

Resume ==
  /\ Body("resume")
  /\ resumeRequested' = TRUE
  /\ Resuming
  /\ UNCHANGED <<emuState, waiting, resumeRestart, audio, fresh, romLoaded,
                 renderSurface, soundOn, emuVars, orTmp>>

(* reset_gba on the machine of the loaded game.                            *)
Reset ==
  /\ Body("reset")
  /\ fresh' = FALSE
  /\ Resuming
  /\ UNCHANGED <<emuState, waiting, resumeRestart, audio, uiVars, emuVars, orTmp>>

(* The rest of unloadROM, which unloads by itself or as part of loadROM.   *)
UnloadROM ==
  /\ uiPc = "body"
  /\ call \in {"unloadROM", "loadROM"}
  /\ romLoaded
  /\ audio' = "none"
  /\ romLoaded' = FALSE
  /\ IF call = "unloadROM" THEN Return ELSE UNCHANGED <<call, uiPc>>
  /\ UNCHANGED <<emuState, waiting, resumeRestart, fresh, resumeRequested,
                 renderSurface, soundOn, emuVars, orTmp>>

LoadROM ==
  /\ Body("loadROM")
  /\ ~romLoaded
  /\ romLoaded' = TRUE
  /\ audio' = "ready"
  /\ fresh' = FALSE
  /\ Resuming
  /\ UNCHANGED <<emuState, waiting, resumeRestart, resumeRequested, renderSurface,
                 soundOn, emuVars, orTmp>>

(* load_gamepak cannot read the file.                                      *)
LoadROMFails ==
  /\ Body("loadROM")
  /\ ~romLoaded
  /\ Return
  /\ UNCHANGED <<emuState, waiting, resumeRestart, audio, fresh, uiVars, emuVars, orTmp>>

SaveState ==
  /\ Body("saveState")
  /\ Resuming
  /\ UNCHANGED <<emuState, waiting, resumeRestart, audio, fresh, uiVars, emuVars, orTmp>>

(* load_state; a file that cannot be opened leaves the machine alone, and  *)
(* the restart is asked for all the same.                                  *)
LoadState ==
  /\ Body("loadState")
  /\ fresh' \in {fresh, FALSE}
  /\ Resuming
  /\ UNCHANGED <<emuState, waiting, resumeRestart, audio, uiVars, emuVars, orTmp>>

(* setOption("soundEnabled"): the preferences screen is in front of the    *)
(* activity when the value changes, so the activity has called pause.      *)
SetSoundEnabled ==
  /\ uiPc = "idle"
  /\ ~resumeRequested
  /\ soundOn' = ~soundOn
  /\ UNCHANGED <<emuState, waiting, resumeRestart, audio, fresh, resumeRequested,
                 romLoaded, renderSurface, emuVars, callVars>>

-----------------------------------------------------------------------------
(* The emulator thread.                                                    *)

WaitForStart ==
  /\ emuPc = "waitForStart"
  /\ "emu" \notin waiting
  /\ IF emuState = "PAUSED"
     THEN waiting' = waiting \cup {"emu"} /\ UNCHANGED <<emuState, emuPc>>
     ELSE /\ emuPc' = "audioStart"
          /\ IF emuState = "REQUEST_RUN"
             THEN emuState' = "RUNNING" /\ waiting' \in Signalled(waiting)
             ELSE UNCHANGED <<emuState, waiting>>
  /\ UNCHANGED <<resumeRestart, audio, fresh, uiVars, callVars, restart, started, flipRef>>

AudioStart ==
  /\ emuPc = "audioStart"
  /\ audio' = IF soundOn THEN "playing" ELSE audio
  /\ emuPc' = "readRestart"
  /\ UNCHANGED <<emuState, waiting, resumeRestart, fresh, uiVars, callVars, restart,
                 started, flipRef>>

ReadRestart ==
  /\ emuPc = "readRestart"
  /\ restart' = resumeRestart
  /\ emuPc' = "clearRestart"
  /\ UNCHANGED <<emuState, waiting, resumeRestart, audio, fresh, uiVars, callVars,
                 started, flipRef>>

(* resumeRestart = 0; return rv. Emulator_run enters execute_arm_translate,*)
(* which loads the registers of the machine; update_gba leaves its         *)
(* iteration (continue) on 1, so that the translated code is entered again *)
(* through the machine's PC, and finishes the frame on 0.                  *)
ClearRestart ==
  /\ emuPc = "clearRestart"
  /\ resumeRestart' = FALSE
  /\ restart' = FALSE
  /\ started' = TRUE
  /\ IF restart \/ ~started
     THEN fresh' = TRUE /\ emuPc' = "exec"
     ELSE emuPc' = "frame" /\ UNCHANGED fresh
  /\ UNCHANGED <<emuState, waiting, audio, uiVars, callVars, flipRef>>

(* Translated code and update_gba up to the end of line 227.               *)
Execute ==
  /\ emuPc = "exec"
  /\ emuPc' = "check"
  /\ UNCHANGED <<emuState, waiting, resumeRestart, audio, fresh, uiVars, callVars,
                 restart, started, flipRef>>

(* check_paused: the test outside the mutex.                               *)
CheckPaused ==
  /\ emuPc = "check"
  /\ emuPc' = IF emuState = "RUNNING" THEN "frame" ELSE "park"
  /\ UNCHANGED <<emuState, waiting, resumeRestart, audio, fresh, uiVars, callVars,
                 restart, started, flipRef>>

(* A bug: the UI thread is not told.                                       *)
ParkSilently ==
  /\ emuPc = "park"
  /\ emuState' = "PAUSED"
  /\ emuPc' = "waitForStart"
  /\ UNCHANGED <<waiting, resumeRestart, audio, fresh, uiVars, callVars, restart,
                 started, flipRef>>

(* check_paused: the critical section.                                     *)
Park ==
  /\ emuPc = "park"
  /\ IF emuState = "REQUEST_PAUSE"
     THEN emuState' = "PAUSED" /\ waiting' \in Signalled(waiting)
     ELSE UNCHANGED <<emuState, waiting>>
  /\ emuPc' = "waitForStart"
  /\ UNCHANGED <<resumeRestart, audio, fresh, uiVars, callVars, restart, started, flipRef>>

(* The end of the frame in update_gba, and update_screen: skip_next_frame  *)
(* decides whether flip_screen draws.                                      *)
SkipFrame ==
  /\ emuPc = "frame"
  /\ emuPc' = "exec"
  /\ UNCHANGED <<emuState, waiting, resumeRestart, audio, fresh, uiVars, callVars,
                 restart, started, flipRef>>

FlipScreen ==
  /\ emuPc = "frame"
  /\ flipRef' = renderSurface
  /\ emuPc' = "flip"
  /\ UNCHANGED <<emuState, waiting, resumeRestart, audio, fresh, uiVars, callVars,
                 restart, started>>

FlipDone ==
  /\ emuPc = "flip"
  /\ flipRef' = NoSurface
  /\ emuPc' = "exec"
  /\ UNCHANGED <<emuState, waiting, resumeRestart, audio, fresh, uiVars, callVars,
                 restart, started>>

-----------------------------------------------------------------------------
UiWork ==
  \/ PauseEmulator \/ PauseWoken \/ AudioPause
  \/ LoadResumeRestart \/ StoreResumeRestart \/ ResumeEmulator \/ ResumeWoken
  \/ \E s \in Surfaces \cup {NoSurface} : SetRenderSurface(s)
  \/ Pause \/ Resume \/ Reset \/ UnloadROM \/ LoadROM \/ LoadROMFails
  \/ SaveState \/ LoadState

UiEvent == SetSoundEnabled \/ \E c \in Calls : EnterCall(c)

EmuWork ==
  \/ WaitForStart \/ AudioStart \/ ReadRestart \/ ClearRestart
  \/ Execute \/ CheckPaused \/ Park \/ SkipFrame \/ FlipScreen \/ FlipDone

Next == UiWork \/ UiEvent \/ EmuWork \/ SpuriousWakeup

Spec == Init /\ [][Next]_vars

(* Each thread is scheduled; the user owes the program nothing.            *)
FairSpec == Spec /\ WF_vars(UiWork) /\ WF_vars(EmuWork)

-----------------------------------------------------------------------------
TypeOK ==
  /\ emuState \in EmuStates
  /\ waiting \subseteq {"ui", "emu"}
  /\ resumeRestart \in BOOLEAN
  /\ resumeRequested \in BOOLEAN
  /\ romLoaded \in BOOLEAN
  /\ renderSurface \in Surfaces \cup {NoSurface}
  /\ soundOn \in BOOLEAN
  /\ audio \in {"none", "ready", "playing"}
  /\ call \in Calls \cup {"none"}
  /\ uiPc \in UiPcs
  /\ orTmp \in BOOLEAN
  /\ emuPc \in EmuPcs
  /\ restart \in BOOLEAN
  /\ started \in BOOLEAN
  /\ flipRef \in Surfaces \cup {NoSurface}
  /\ fresh \in BOOLEAN

-----------------------------------------------------------------------------
(* The steps of the emulator thread that use the machine, and the calls    *)
(* whose work uses it.                                                     *)
EmuUses == {"exec", "frame", "flip"}
UiUses  == {"reset", "loadROM", "saveState", "loadState"}

(* While a call of the UI thread works on the machine (reset_gba,          *)
(* load_gamepak, save_state, load_state) the emulator thread does not: it  *)
(* neither runs the game, nor is it between check_paused and the end of    *)
(* the frame.                                                              *)
MachineExclusive ==
  ~(uiPc = "body" /\ call \in UiUses /\ emuPc \in EmuUses)

(* check_paused reports a machine that was exchanged while the thread was  *)
(* parked: no translated code and no local of update_gba that belongs to   *)
(* an earlier machine is used on the new one, whatever was in between (a   *)
(* resume that came too early, a surface that went away, a failed load).   *)
NoStaleMachine == emuPc \in EmuUses \cup {"check", "park"} => fresh

(* flip_screen draws through references that setRenderSurface has not      *)
(* deleted meanwhile.                                                      *)
SurfaceAlive ==
  emuPc = "flip" => flipRef = renderSurface /\ flipRef # NoSurface

(* Between two calls the emulator runs if and only if the activity asked   *)
(* for it, there is a surface, and a game is loaded: no order of calls     *)
(* leaves a visible game standing, or runs one that is hidden or unloaded. *)
RunsWhenWanted ==
  uiPc = "idle" =>
    (emuState = "RUNNING"
     <=> resumeRequested /\ renderSurface # NoSurface /\ romLoaded)

(* The audio track plays for every sample the emulator writes, and is      *)
(* silent whenever no game runs between two calls.                         *)
AudioFollowsGame ==
  /\ emuPc \in {"exec", "frame"} /\ soundOn => audio = "playing"
  /\ uiPc = "idle" /\ ~MayRun => audio # "playing"

(* No wakeup is lost and none goes to the wrong thread: whoever sleeps     *)
(* still has reason to, and the two threads never sleep at the same time.  *)
NoLostWakeup ==
  /\ "emu" \in waiting => emuState = "PAUSED"
  /\ "ui" \in waiting => emuState \in {"REQUEST_PAUSE", "REQUEST_RUN"}

(* Every JNI call returns, so the activity never hangs in one.             *)
CallsReturn == uiPc # "idle" ~> uiPc = "idle"

(* A game that was started gets to run its code.                           *)
StartedGameRuns == emuState = "REQUEST_RUN" ~> emuPc = "exec"

(* The ownership of the machine that the handshake realises.               *)
Handoff == INSTANCE MachineHandoff WITH
  owner <- IF emuState \in {"PAUSED", "REQUEST_RUN"} THEN "ui" ELSE "emu"

(* The control code implements the hand-off of the machine: an exchanged   *)
(* machine is started again before it is given back.                       *)
HandoffSafety == Handoff!Safety

-----------------------------------------------------------------------------
(* The inductive invariant behind the safety properties.                   *)

(* Where the emulator thread is in each state of the handshake.            *)
EmuPlace ==
  /\ emuState \in {"PAUSED", "REQUEST_RUN"} <=> emuPc = "waitForStart"
  /\ emuPc = "park" => emuState = "REQUEST_PAUSE"
  /\ "emu" \in waiting => emuPc = "waitForStart" /\ emuState = "PAUSED"

(* Where the UI thread is. After its pauseEmulator, a call finds the       *)
(* emulator parked until it resumes it itself.                             *)
AfterPause == {"body", "orLoad", "orStore", "resume"}

UiPlace ==
  /\ uiPc = "idle" <=> call = "none"
  /\ uiPc \in {"pause", "pauseWait", "audioPause"} => call \in PausingCalls
  /\ emuState = "REQUEST_PAUSE" => uiPc = "pauseWait"
  /\ emuState = "REQUEST_RUN" => uiPc = "resumeWait"
  /\ uiPc = "pauseWait" => emuState \in {"REQUEST_PAUSE", "PAUSED"}
  /\ uiPc = "resumeWait" => emuState \in {"REQUEST_RUN", "RUNNING"}
  /\ uiPc = "audioPause" => emuState = "PAUSED"
  /\ uiPc \in AfterPause /\ call # "resume" => emuState = "PAUSED"
  /\ "ui" \in waiting => emuState \in {"REQUEST_PAUSE", "REQUEST_RUN"}

(* The emulator leaves PAUSED only when it may run, and what it needs is   *)
(* taken away only after it is parked again.                               *)
Wanted ==
  /\ emuState # "PAUSED" => MayRun
  /\ uiPc \in {"idle", "pause"} /\ MayRun => emuState # "PAUSED"

(* An exchanged machine is always announced: in resumeRestart, or in what  *)
(* the UI thread is about to write there, or in what the emulator thread   *)
(* has just read from it.                                                  *)
Announced ==
  /\ emuPc \in EmuUses \cup {"check", "park"} => fresh /\ started
  /\ ~fresh /\ romLoaded /\ started =>
        \/ resumeRestart
        \/ uiPc \in {"orLoad", "orStore"} /\ call \in RestartCalls
        \/ emuPc = "clearRestart" /\ restart
  /\ uiPc = "orStore" /\ resumeRestart => orTmp
  /\ emuPc = "clearRestart" /\ ~restart /\ started => fresh

AudioPlace ==
  /\ emuPc \notin {"waitForStart", "audioStart"} /\ soundOn => audio = "playing"
  /\ audio = "playing" => soundOn
  /\ (uiPc = "idle" \/ call = "resume") /\ ~MayRun => audio # "playing"
  /\ uiPc \in AfterPause /\ call # "resume" => audio # "playing"

(* The handshake is in order: each part is needed to prove the next.       *)
IInv ==
  /\ TypeOK
  /\ EmuPlace
  /\ UiPlace
  /\ Wanted
  /\ Announced
  /\ SurfaceAlive
  /\ AudioPlace
=============================================================================
