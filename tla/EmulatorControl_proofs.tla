----------------------- MODULE EmulatorControl_proofs -----------------------
(***************************************************************************)
(* The safety of the control handshake, for any set of surfaces: IInv is   *)
(* inductive, and the properties of EmulatorControl follow from it.        *)
(***************************************************************************)
EXTENDS EmulatorControl, TLAPS

(* The type invariant is inductive by itself. *)
LEMMA TypeStep == TypeOK /\ [Next]_vars => TypeOK'
  <1> SUFFICES ASSUME TypeOK, [Next]_vars PROVE TypeOK'
    OBVIOUS
  <1> USE DEF uiVars, emuVars, callVars, vars, Body, Return, Resuming, Signalled
  <1>1. CASE PauseEmulator
    <2>1. waiting' \subseteq {"ui", "emu"}
      BY <1>1 DEF PauseEmulator, TypeOK, EmuStates, UiPcs, EmuPcs
    <2>2. emuState' \in EmuStates /\ uiPc' \in UiPcs
      BY <1>1 DEF PauseEmulator, TypeOK, EmuStates, UiPcs, EmuPcs
    <2> QED
      BY <1>1, <2>1, <2>2 DEF PauseEmulator, TypeOK, UiPcs
  <1>2. CASE PauseWoken
    <2>1. waiting' \subseteq {"ui", "emu"}
      BY <1>2 DEF PauseWoken, TypeOK, EmuStates, UiPcs, EmuPcs
    <2>2. uiPc' \in UiPcs
      BY <1>2 DEF PauseWoken, TypeOK, EmuStates, UiPcs, EmuPcs
    <2> QED
      BY <1>2, <2>1, <2>2 DEF PauseWoken, TypeOK, UiPcs
  <1>3. CASE AudioPause
    BY <1>3 DEF AudioPause, TypeOK, UiPcs, EmuPcs
  <1>4. CASE LoadResumeRestart
    BY <1>4 DEF LoadResumeRestart, TypeOK, UiPcs, EmuPcs
  <1>5. CASE StoreResumeRestart
    <2>1. resumeRestart' \in BOOLEAN
      BY <1>5 DEF StoreResumeRestart, TypeOK, EmuStates, UiPcs, EmuPcs
    <2> QED
      BY <1>5, <2>1 DEF StoreResumeRestart, TypeOK, UiPcs
  <1>6. CASE ResumeEmulator
    <2>1. waiting' \subseteq {"ui", "emu"}
      BY <1>6 DEF ResumeEmulator, TypeOK, EmuStates, UiPcs, EmuPcs
    <2>2. emuState' \in EmuStates /\ uiPc' \in UiPcs /\ call' \in Calls \cup {"none"}
      BY <1>6 DEF ResumeEmulator, TypeOK, EmuStates, UiPcs, EmuPcs
    <2> QED
      BY <1>6, <2>1, <2>2 DEF ResumeEmulator, TypeOK, UiPcs
  <1>7. CASE ResumeWoken
    <2>1. waiting' \subseteq {"ui", "emu"}
      BY <1>7 DEF ResumeWoken, TypeOK, EmuStates, UiPcs, EmuPcs
    <2>2. uiPc' \in UiPcs /\ call' \in Calls \cup {"none"}
      BY <1>7 DEF ResumeWoken, TypeOK, EmuStates, UiPcs, EmuPcs
    <2> QED
      BY <1>7, <2>1, <2>2 DEF ResumeWoken, TypeOK, UiPcs
  <1>8. CASE Pause
    <2>1. uiPc' \in UiPcs /\ call' \in Calls \cup {"none"}
      BY <1>8 DEF Pause, TypeOK, EmuStates, UiPcs, EmuPcs
    <2> QED
      BY <1>8, <2>1 DEF Pause, TypeOK, UiPcs
  <1>9. CASE Resume
    BY <1>9 DEF Resume, TypeOK, UiPcs, EmuPcs
  <1>10. CASE Reset
    <2>1. uiPc' \in UiPcs /\ call' \in Calls \cup {"none"}
      BY <1>10 DEF Reset, TypeOK, EmuStates, UiPcs, EmuPcs
    <2> QED
      BY <1>10, <2>1 DEF Reset, TypeOK, UiPcs
  <1>11. CASE UnloadROM
    <2>1. uiPc' \in UiPcs /\ call' \in Calls \cup {"none"}
      BY <1>11 DEF UnloadROM, TypeOK, EmuStates, UiPcs, EmuPcs
    <2> QED
      BY <1>11, <2>1 DEF UnloadROM, TypeOK, UiPcs
  <1>12. CASE LoadROM
    BY <1>12 DEF LoadROM, TypeOK, UiPcs, EmuPcs
  <1>13. CASE LoadROMFails
    BY <1>13 DEF LoadROMFails, TypeOK, UiPcs, EmuPcs
  <1>14. CASE SaveState
    BY <1>14 DEF SaveState, TypeOK, UiPcs, EmuPcs
  <1>15. CASE LoadState
    <2>1. fresh' \in BOOLEAN
      BY <1>15 DEF LoadState, TypeOK, EmuStates, UiPcs, EmuPcs
    <2> QED
      BY <1>15, <2>1 DEF LoadState, TypeOK, UiPcs
  <1>16. CASE SetSoundEnabled
    BY <1>16 DEF SetSoundEnabled, TypeOK, UiPcs, EmuPcs
  <1>17. CASE WaitForStart
    <2>1. waiting' \subseteq {"ui", "emu"}
      BY <1>17 DEF WaitForStart, TypeOK, EmuStates, UiPcs, EmuPcs
    <2>2. emuState' \in EmuStates /\ emuPc' \in EmuPcs
      BY <1>17 DEF WaitForStart, TypeOK, EmuStates, UiPcs, EmuPcs
    <2> QED
      BY <1>17, <2>1, <2>2 DEF WaitForStart, TypeOK, UiPcs
  <1>18. CASE AudioStart
    BY <1>18 DEF AudioStart, TypeOK, UiPcs, EmuPcs
  <1>19. CASE ReadRestart
    BY <1>19 DEF ReadRestart, TypeOK, UiPcs, EmuPcs
  <1>20. CASE ClearRestart
    <2>1. emuPc' \in EmuPcs /\ fresh' \in BOOLEAN
      BY <1>20 DEF ClearRestart, TypeOK, EmuStates, UiPcs, EmuPcs
    <2> QED
      BY <1>20, <2>1 DEF ClearRestart, TypeOK, UiPcs
  <1>21. CASE Execute
    BY <1>21 DEF Execute, TypeOK, UiPcs, EmuPcs
  <1>22. CASE CheckPaused
    BY <1>22 DEF CheckPaused, TypeOK, UiPcs, EmuPcs
  <1>23. CASE Park
    <2>1. waiting' \subseteq {"ui", "emu"}
      BY <1>23 DEF Park, TypeOK, EmuStates, UiPcs, EmuPcs
    <2>2. emuState' \in EmuStates /\ emuPc' \in EmuPcs
      BY <1>23 DEF Park, TypeOK, EmuStates, UiPcs, EmuPcs
    <2> QED
      BY <1>23, <2>1, <2>2 DEF Park, TypeOK, UiPcs
  <1>24. CASE SkipFrame
    BY <1>24 DEF SkipFrame, TypeOK, UiPcs, EmuPcs
  <1>25. CASE FlipScreen
    BY <1>25 DEF FlipScreen, TypeOK, UiPcs, EmuPcs
  <1>26. CASE FlipDone
    BY <1>26 DEF FlipDone, TypeOK, UiPcs, EmuPcs
  <1>27. CASE SpuriousWakeup
    BY <1>27 DEF SpuriousWakeup, TypeOK, UiPcs, EmuPcs
  <1>28. ASSUME NEW s \in Surfaces \cup {NoSurface}, SetRenderSurface(s)
         PROVE TypeOK'
    BY <1>28 DEF SetRenderSurface, TypeOK, UiPcs
  <1>29. ASSUME NEW c \in Calls, EnterCall(c)
         PROVE TypeOK'
    BY <1>29 DEF EnterCall, FirstStep, TypeOK, UiPcs
  <1>30. CASE UNCHANGED vars
    BY <1>30 DEF TypeOK
  <1> QED
    BY <1>1, <1>2, <1>3, <1>4, <1>5, <1>6, <1>7, <1>8, <1>9, <1>10, <1>11, <1>12,
       <1>13, <1>14, <1>15, <1>16, <1>17, <1>18, <1>19, <1>20, <1>21, <1>22, <1>23, <1>24,
       <1>25, <1>26, <1>27, <1>28, <1>29, <1>30 DEF Next, UiWork, UiEvent, EmuWork

(* The handshake is in order before the first start.                       *)
LEMMA InitInv == Init => IInv
  BY NoSurfaceAssumption
  DEF Init, IInv, TypeOK, EmuStates, UiPcs, EmuPcs, EmuPlace, UiPlace, Wanted,
      MayRun, Announced, SurfaceAlive, AudioPlace, AfterPause, EmuUses

(* Every step preserves the inductive invariant: one step of the proof per *)
(* action, and for the steps of the handshake itself one per conjunct.     *)
LEMMA StepInv == IInv /\ [Next]_vars => IInv'
  <1> SUFFICES ASSUME IInv, [Next]_vars PROVE IInv'
    OBVIOUS
  <1>0. TypeOK'
    BY TypeStep DEF IInv
  <1> USE NoSurfaceAssumption, <1>0 DEF uiVars, emuVars, callVars, vars, IInv
  <1>1. CASE PauseEmulator
    <2> USE <1>1 DEF PauseEmulator
    <2>1. EmuPlace'
      BY DEF TypeOK, EmuStates, EmuPlace, UiPlace
    <2>2. UiPlace'
      <3>1. CASE emuState = "RUNNING"
        BY <3>1 DEF TypeOK, EmuStates, EmuPlace, UiPlace, AfterPause, PausingCalls, Calls
      <3>2. CASE emuState # "RUNNING"
        BY <3>2 DEF TypeOK, EmuStates, EmuPlace, UiPlace, AfterPause, PausingCalls, Calls
      <3> QED
        BY <3>1, <3>2
    <2>3. Wanted'
      BY DEF TypeOK, EmuPlace, UiPlace, Wanted, MayRun, AfterPause
    <2>4. Announced'
      BY DEF TypeOK, EmuPlace, UiPlace, Wanted, MayRun, Announced, EmuUses, RestartCalls, AfterPause
    <2>5. SurfaceAlive'
      BY DEF TypeOK, EmuPlace, UiPlace, Wanted, MayRun, SurfaceAlive
    <2>6. AudioPlace'
      BY DEF TypeOK, EmuPlace, UiPlace, Wanted, MayRun, AudioPlace, AfterPause, PausingCalls
    <2> QED
      BY <2>1, <2>2, <2>3, <2>4, <2>5, <2>6
  <1>2. CASE PauseWoken
    <2> USE <1>2 DEF PauseWoken
    <2>1. EmuPlace'
      BY DEF TypeOK, EmuStates, EmuPlace, UiPlace
    <2>2. UiPlace'
      BY DEF TypeOK, EmuStates, EmuPlace, UiPlace, AfterPause, PausingCalls, Calls
    <2>3. Wanted'
      BY DEF TypeOK, EmuPlace, UiPlace, Wanted, MayRun, AfterPause
    <2>4. Announced'
      BY DEF TypeOK, EmuPlace, UiPlace, Wanted, MayRun, Announced, EmuUses, RestartCalls, AfterPause
    <2>5. SurfaceAlive'
      BY DEF TypeOK, EmuPlace, UiPlace, Wanted, MayRun, SurfaceAlive
    <2>6. AudioPlace'
      BY DEF TypeOK, EmuPlace, UiPlace, Wanted, MayRun, AudioPlace, AfterPause, PausingCalls
    <2> QED
      BY <2>1, <2>2, <2>3, <2>4, <2>5, <2>6
  <1>3. CASE AudioPause
    BY <1>3 DEF AudioPause,
           TypeOK, EmuPlace, UiPlace, Wanted, MayRun, Announced,
           SurfaceAlive, AudioPlace, AfterPause, EmuUses, RestartCalls, PausingCalls,
           Calls, GameCalls
  <1>4. CASE LoadResumeRestart
    BY <1>4 DEF LoadResumeRestart,
           TypeOK, EmuPlace, UiPlace, Wanted, MayRun, Announced,
           SurfaceAlive, AudioPlace, AfterPause, EmuUses, RestartCalls, PausingCalls,
           Calls, GameCalls
  <1>5. CASE StoreResumeRestart
    <2> USE <1>5 DEF StoreResumeRestart
    <2>1. EmuPlace'
      BY DEF TypeOK, EmuStates, EmuPlace, UiPlace
    <2>2. UiPlace'
      BY DEF TypeOK, EmuStates, EmuPlace, UiPlace, AfterPause, PausingCalls, Calls
    <2>3. Wanted'
      BY DEF TypeOK, EmuPlace, UiPlace, Wanted, MayRun, AfterPause
    <2>4. Announced'
      BY DEF TypeOK, EmuPlace, UiPlace, Wanted, MayRun, Announced, EmuUses, RestartCalls, AfterPause
    <2>5. SurfaceAlive'
      BY DEF TypeOK, EmuPlace, UiPlace, Wanted, MayRun, SurfaceAlive
    <2>6. AudioPlace'
      BY DEF TypeOK, EmuPlace, UiPlace, Wanted, MayRun, AudioPlace, AfterPause, PausingCalls
    <2> QED
      BY <2>1, <2>2, <2>3, <2>4, <2>5, <2>6
  <1>6. CASE ResumeEmulator
    <2> USE <1>6 DEF ResumeEmulator, Signalled, Return
    <2>1. EmuPlace'
      BY DEF TypeOK, EmuStates, EmuPlace, UiPlace
    <2>2. UiPlace'
      BY DEF TypeOK, EmuStates, EmuPlace, UiPlace, AfterPause, PausingCalls, Calls
    <2>3. Wanted'
      BY DEF TypeOK, EmuPlace, UiPlace, Wanted, MayRun, AfterPause
    <2>4. Announced'
      BY DEF TypeOK, EmuPlace, UiPlace, Wanted, MayRun, Announced, EmuUses, RestartCalls, AfterPause
    <2>5. SurfaceAlive'
      BY DEF TypeOK, EmuPlace, UiPlace, Wanted, MayRun, SurfaceAlive
    <2>6. AudioPlace'
      BY DEF TypeOK, EmuPlace, UiPlace, Wanted, MayRun, AudioPlace, AfterPause, PausingCalls
    <2> QED
      BY <2>1, <2>2, <2>3, <2>4, <2>5, <2>6
  <1>7. CASE ResumeWoken
    <2> USE <1>7 DEF ResumeWoken, Return
    <2>1. EmuPlace'
      BY DEF TypeOK, EmuStates, EmuPlace, UiPlace
    <2>2. UiPlace'
      BY DEF TypeOK, EmuStates, EmuPlace, UiPlace, AfterPause, PausingCalls, Calls
    <2>3. Wanted'
      BY DEF TypeOK, EmuPlace, UiPlace, Wanted, MayRun, AfterPause
    <2>4. Announced'
      BY DEF TypeOK, EmuPlace, UiPlace, Wanted, MayRun, Announced, EmuUses, RestartCalls, AfterPause
    <2>5. SurfaceAlive'
      BY DEF TypeOK, EmuPlace, UiPlace, Wanted, MayRun, SurfaceAlive
    <2>6. AudioPlace'
      BY DEF TypeOK, EmuPlace, UiPlace, Wanted, MayRun, AudioPlace, AfterPause, PausingCalls
    <2> QED
      BY <2>1, <2>2, <2>3, <2>4, <2>5, <2>6
  <1>8. CASE Pause
    BY <1>8 DEF Pause, Return, Body,
           TypeOK, EmuPlace, UiPlace, Wanted, MayRun, Announced,
           SurfaceAlive, AudioPlace, AfterPause, EmuUses, RestartCalls, PausingCalls,
           Calls, GameCalls
  <1>9. CASE Resume
    BY <1>9 DEF Resume, Body, Resuming,
           TypeOK, EmuPlace, UiPlace, Wanted, MayRun, Announced,
           SurfaceAlive, AudioPlace, AfterPause, EmuUses, RestartCalls, PausingCalls,
           Calls, GameCalls
  <1>10. CASE Reset
    BY <1>10 DEF Reset, Body, Resuming,
           TypeOK, EmuPlace, UiPlace, Wanted, MayRun, Announced,
           SurfaceAlive, AudioPlace, AfterPause, EmuUses, RestartCalls, PausingCalls,
           Calls, GameCalls
  <1>11. CASE UnloadROM
    BY <1>11 DEF UnloadROM, Return,
           TypeOK, EmuPlace, UiPlace, Wanted, MayRun, Announced,
           SurfaceAlive, AudioPlace, AfterPause, EmuUses, RestartCalls, PausingCalls,
           Calls, GameCalls
  <1>12. CASE LoadROM
    BY <1>12 DEF LoadROM, Body, Resuming,
           TypeOK, EmuPlace, UiPlace, Wanted, MayRun, Announced,
           SurfaceAlive, AudioPlace, AfterPause, EmuUses, RestartCalls, PausingCalls,
           Calls, GameCalls
  <1>13. CASE LoadROMFails
    BY <1>13 DEF LoadROMFails, Return, Body,
           TypeOK, EmuPlace, UiPlace, Wanted, MayRun, Announced,
           SurfaceAlive, AudioPlace, AfterPause, EmuUses, RestartCalls, PausingCalls,
           Calls, GameCalls
  <1>14. CASE SaveState
    BY <1>14 DEF SaveState, Body, Resuming,
           TypeOK, EmuPlace, UiPlace, Wanted, MayRun, Announced,
           SurfaceAlive, AudioPlace, AfterPause, EmuUses, RestartCalls, PausingCalls,
           Calls, GameCalls
  <1>15. CASE LoadState
    <2> USE <1>15 DEF LoadState, Body, Resuming
    <2>1. EmuPlace'
      BY DEF TypeOK, EmuStates, EmuPlace, UiPlace
    <2>2. UiPlace'
      BY DEF TypeOK, EmuStates, EmuPlace, UiPlace, AfterPause, PausingCalls, Calls
    <2>3. Wanted'
      BY DEF TypeOK, EmuPlace, UiPlace, Wanted, MayRun, AfterPause
    <2>4. Announced'
      BY DEF TypeOK, EmuPlace, UiPlace, Wanted, MayRun, Announced, EmuUses, RestartCalls, AfterPause
    <2>5. SurfaceAlive'
      BY DEF TypeOK, EmuPlace, UiPlace, Wanted, MayRun, SurfaceAlive
    <2>6. AudioPlace'
      BY DEF TypeOK, EmuPlace, UiPlace, Wanted, MayRun, AudioPlace, AfterPause, PausingCalls
    <2> QED
      BY <2>1, <2>2, <2>3, <2>4, <2>5, <2>6
  <1>16. CASE SetSoundEnabled
    BY <1>16 DEF SetSoundEnabled,
           TypeOK, EmuPlace, UiPlace, Wanted, MayRun, Announced,
           SurfaceAlive, AudioPlace, AfterPause, EmuUses, RestartCalls, PausingCalls,
           Calls, GameCalls
  <1>17. CASE WaitForStart
    <2> USE <1>17 DEF WaitForStart, Signalled
    <2>1. EmuPlace'
      BY DEF TypeOK, EmuStates, EmuPlace, UiPlace
    <2>2. UiPlace'
      BY DEF TypeOK, EmuStates, EmuPlace, UiPlace, AfterPause, PausingCalls, Calls
    <2>3. Wanted'
      BY DEF TypeOK, EmuPlace, UiPlace, Wanted, MayRun, AfterPause
    <2>4. Announced'
      BY DEF TypeOK, EmuPlace, UiPlace, Wanted, MayRun, Announced, EmuUses, RestartCalls, AfterPause
    <2>5. SurfaceAlive'
      BY DEF TypeOK, EmuPlace, UiPlace, Wanted, MayRun, SurfaceAlive
    <2>6. AudioPlace'
      BY DEF TypeOK, EmuPlace, UiPlace, Wanted, MayRun, AudioPlace, AfterPause, PausingCalls
    <2> QED
      BY <2>1, <2>2, <2>3, <2>4, <2>5, <2>6
  <1>18. CASE AudioStart
    BY <1>18 DEF AudioStart,
           TypeOK, EmuPlace, UiPlace, Wanted, MayRun, Announced,
           SurfaceAlive, AudioPlace, AfterPause, EmuUses, RestartCalls, PausingCalls,
           Calls, GameCalls
  <1>19. CASE ReadRestart
    BY <1>19 DEF ReadRestart,
           TypeOK, EmuPlace, UiPlace, Wanted, MayRun, Announced,
           SurfaceAlive, AudioPlace, AfterPause, EmuUses, RestartCalls, PausingCalls,
           Calls, GameCalls
  <1>20. CASE ClearRestart
    <2> USE <1>20 DEF ClearRestart
    <2>1. EmuPlace'
      BY DEF TypeOK, EmuStates, EmuPlace, UiPlace
    <2>2. UiPlace'
      BY DEF TypeOK, EmuStates, EmuPlace, UiPlace, AfterPause, PausingCalls, Calls
    <2>3. Wanted'
      BY DEF TypeOK, EmuPlace, UiPlace, Wanted, MayRun, AfterPause
    <2>4. Announced'
      BY DEF TypeOK, EmuPlace, UiPlace, Wanted, MayRun, Announced, EmuUses, RestartCalls, AfterPause
    <2>5. SurfaceAlive'
      BY DEF TypeOK, EmuPlace, UiPlace, Wanted, MayRun, SurfaceAlive
    <2>6. AudioPlace'
      BY DEF TypeOK, EmuPlace, UiPlace, Wanted, MayRun, AudioPlace, AfterPause, PausingCalls
    <2> QED
      BY <2>1, <2>2, <2>3, <2>4, <2>5, <2>6
  <1>21. CASE Execute
    BY <1>21 DEF Execute,
           TypeOK, EmuPlace, UiPlace, Wanted, MayRun, Announced,
           SurfaceAlive, AudioPlace, AfterPause, EmuUses, RestartCalls, PausingCalls,
           Calls, GameCalls
  <1>22. CASE CheckPaused
    <2> USE <1>22 DEF CheckPaused
    <2>1. EmuPlace'
      BY DEF TypeOK, EmuStates, EmuPlace, UiPlace
    <2>2. UiPlace'
      BY DEF TypeOK, EmuStates, EmuPlace, UiPlace, AfterPause, PausingCalls, Calls
    <2>3. Wanted'
      BY DEF TypeOK, EmuPlace, UiPlace, Wanted, MayRun, AfterPause
    <2>4. Announced'
      BY DEF TypeOK, EmuPlace, UiPlace, Wanted, MayRun, Announced, EmuUses, RestartCalls, AfterPause
    <2>5. SurfaceAlive'
      BY DEF TypeOK, EmuPlace, UiPlace, Wanted, MayRun, SurfaceAlive
    <2>6. AudioPlace'
      BY DEF TypeOK, EmuPlace, UiPlace, Wanted, MayRun, AudioPlace, AfterPause, PausingCalls
    <2> QED
      BY <2>1, <2>2, <2>3, <2>4, <2>5, <2>6
  <1>23. CASE Park
    BY <1>23 DEF Park, Signalled,
           TypeOK, EmuPlace, UiPlace, Wanted, MayRun, Announced,
           SurfaceAlive, AudioPlace, AfterPause, EmuUses, RestartCalls, PausingCalls,
           Calls, GameCalls
  <1>24. CASE SkipFrame
    BY <1>24 DEF SkipFrame,
           TypeOK, EmuPlace, UiPlace, Wanted, MayRun, Announced,
           SurfaceAlive, AudioPlace, AfterPause, EmuUses, RestartCalls, PausingCalls,
           Calls, GameCalls
  <1>25. CASE FlipScreen
    BY <1>25 DEF FlipScreen,
           TypeOK, EmuPlace, UiPlace, Wanted, MayRun, Announced,
           SurfaceAlive, AudioPlace, AfterPause, EmuUses, RestartCalls, PausingCalls,
           Calls, GameCalls
  <1>26. CASE FlipDone
    BY <1>26 DEF FlipDone,
           TypeOK, EmuPlace, UiPlace, Wanted, MayRun, Announced,
           SurfaceAlive, AudioPlace, AfterPause, EmuUses, RestartCalls, PausingCalls,
           Calls, GameCalls
  <1>27. CASE SpuriousWakeup
    BY <1>27 DEF SpuriousWakeup,
           TypeOK, EmuPlace, UiPlace, Wanted, MayRun, Announced,
           SurfaceAlive, AudioPlace, AfterPause, EmuUses, RestartCalls, PausingCalls,
           Calls, GameCalls
  <1>28. ASSUME NEW s \in Surfaces \cup {NoSurface}, SetRenderSurface(s)
         PROVE IInv'
    BY <1>28 DEF SetRenderSurface, Body, Return, Resuming,
           TypeOK, EmuPlace, UiPlace, Wanted, MayRun, Announced,
           SurfaceAlive, AudioPlace, AfterPause, EmuUses, RestartCalls, PausingCalls,
           Calls, GameCalls
  <1>29. ASSUME NEW c \in Calls, EnterCall(c)
         PROVE IInv'
    BY <1>29 DEF EnterCall, FirstStep,
           TypeOK, EmuPlace, UiPlace, Wanted, MayRun, Announced,
           SurfaceAlive, AudioPlace, AfterPause, EmuUses, RestartCalls, PausingCalls,
           Calls, GameCalls
  <1>30. CASE UNCHANGED vars
    BY <1>30 DEF TypeOK, EmuPlace, UiPlace, Wanted, MayRun, Announced,
           SurfaceAlive, AudioPlace, AfterPause, EmuUses, RestartCalls, PausingCalls,
           Calls, GameCalls
  <1> QED
    BY <1>1, <1>2, <1>3, <1>4, <1>5, <1>6, <1>7, <1>8, <1>9, <1>10, <1>11, <1>12,
       <1>13, <1>14, <1>15, <1>16, <1>17, <1>18, <1>19, <1>20, <1>21, <1>22, <1>23, <1>24,
       <1>25, <1>26, <1>27, <1>28, <1>29, <1>30 DEF Next, UiWork, UiEvent, EmuWork

(* The handshake is in order in every reachable state.                     *)
THEOREM InductiveInvariant == Spec => []IInv
  BY InitInv, StepInv, PTL DEF Spec

(* Every variable keeps to its type, in every behaviour. *)
THEOREM TypeCorrect == Spec => []TypeOK
  BY InductiveInvariant, PTL DEF IInv

(* While the UI thread works on the machine (reset_gba, load_gamepak,      *)
(* save_state, load_state), the emulator thread is parked in waitForStart. *)
THEOREM MachineIsExclusive == Spec => []MachineExclusive
  <1>1. IInv => MachineExclusive
    BY DEF IInv, MachineExclusive, EmuPlace, UiPlace, AfterPause, UiUses, EmuUses
  <1> QED
    BY <1>1, InductiveInvariant, PTL

(* The emulator thread never uses what it knows of an earlier machine.     *)
THEOREM NoStaleMachineUse == Spec => []NoStaleMachine
  <1>1. IInv => NoStaleMachine
    BY DEF IInv, NoStaleMachine, Announced
  <1> QED
    BY <1>1, InductiveInvariant, PTL

(* flip_screen never draws through a deleted reference.                    *)
THEOREM SurfaceStaysAlive == Spec => []SurfaceAlive
  BY InductiveInvariant, PTL DEF IInv

(* Between two calls the game runs if and only if it is wanted.            *)
THEOREM GameRunsWhenWanted == Spec => []RunsWhenWanted
  <1>1. IInv => RunsWhenWanted
    BY DEF IInv, RunsWhenWanted, TypeOK, EmuStates, UiPlace, Wanted, MayRun
  <1> QED
    BY <1>1, InductiveInvariant, PTL

(* The audio track plays for every sample and is silent without a game.    *)
THEOREM AudioFollows == Spec => []AudioFollowsGame
  <1>1. IInv => AudioFollowsGame
    BY DEF IInv, AudioFollowsGame, AudioPlace
  <1> QED
    BY <1>1, InductiveInvariant, PTL

(* Whoever sleeps in pthread_cond_wait still has reason to.                *)
THEOREM WakeupsAreNotLost == Spec => []NoLostWakeup
  <1>1. IInv => NoLostWakeup
    BY DEF IInv, NoLostWakeup, EmuPlace, UiPlace
  <1> QED
    BY <1>1, InductiveInvariant, PTL

-----------------------------------------------------------------------------
(* The refinement of MachineHandoff: which action of the abstract          *)
(* specification a step takes.                                             *)

(* The emulator thread owns nothing before its first start.               *)
LEMMA HandoffInit == Init => Handoff!Init
  BY DEF Init, Handoff!Init

(* Every step is an abstract step or leaves owner and freshness alone.     *)
LEMMA HandoffStep == IInv /\ [Next]_vars => [Handoff!Next]_(Handoff!vars)
  <1> SUFFICES ASSUME IInv, [Next]_vars PROVE [Handoff!Next]_(Handoff!vars)
    OBVIOUS
  <1> USE DEF uiVars, emuVars, callVars, vars, Handoff!vars, Body
  (* The UI thread exchanges the machine, which it owns after its pause.   *)
  <1>1. CASE Reset \/ LoadROM \/ LoadState
    <2>1. emuState = "PAUSED" /\ emuState' = "PAUSED" /\ fresh' \in {fresh, FALSE}
      BY <1>1 DEF Reset, LoadROM, LoadState, IInv, UiPlace, AfterPause
    <2> QED
      BY <2>1 DEF Handoff!Next, Handoff!Replace
  <1>2. CASE WaitForStart
    BY <1>2 DEF WaitForStart, IInv, EmuPlace, Handoff!Next, Handoff!Lend
  <1>3. CASE ClearRestart
    <2>1. emuState' = emuState /\ emuState \notin {"PAUSED", "REQUEST_RUN"}
      BY <1>3 DEF ClearRestart, IInv, EmuPlace
    <2>2. fresh' = TRUE \/ fresh' = fresh
      BY <1>3 DEF ClearRestart
    <2> QED
      BY <2>1, <2>2 DEF Handoff!Next, Handoff!Restart, IInv, TypeOK
  (* The emulator thread parks with the machine it has been running.       *)
  <1>4. CASE Park
    <2>1. fresh /\ fresh' = fresh
      BY <1>4 DEF Park, IInv, Announced
    <2>2. emuState = "REQUEST_PAUSE" /\ emuState' = "PAUSED"
      BY <1>4 DEF Park, IInv, EmuPlace
    <2> QED
      BY <2>1, <2>2 DEF Handoff!Next, Handoff!GiveBack
  (* A pause request leaves the machine with the emulator thread, a run    *)
  (* request leaves it with the UI thread.                                 *)
  <1>5. CASE PauseEmulator \/ ResumeEmulator
    BY <1>5 DEF PauseEmulator, ResumeEmulator, Return
  <1>6. CASE UNCHANGED <<emuState, fresh>>
    BY <1>6
  <1>7. CASE UNCHANGED vars
    BY <1>7
  <1>8. ASSUME NEW s \in Surfaces \cup {NoSurface}, SetRenderSurface(s)
        PROVE UNCHANGED <<emuState, fresh>>
    BY <1>8 DEF SetRenderSurface
  <1>9. ASSUME NEW c \in Calls, EnterCall(c)
        PROVE UNCHANGED <<emuState, fresh>>
    BY <1>9 DEF EnterCall
  <1>10. ASSUME \/ PauseWoken \/ AudioPause \/ LoadResumeRestart
                \/ StoreResumeRestart \/ ResumeWoken \/ Pause \/ Resume
                \/ UnloadROM \/ LoadROMFails \/ SaveState
         PROVE UNCHANGED <<emuState, fresh>>
    BY <1>10 DEF PauseWoken, AudioPause, LoadResumeRestart, StoreResumeRestart,
                 ResumeWoken, Pause, Resume, UnloadROM, LoadROMFails, SaveState
  <1>11. ASSUME \/ AudioStart \/ ReadRestart \/ Execute \/ CheckPaused
                \/ SkipFrame \/ FlipScreen \/ FlipDone
                \/ SetSoundEnabled \/ SpuriousWakeup
         PROVE UNCHANGED <<emuState, fresh>>
    BY <1>11 DEF AudioStart, ReadRestart, Execute, CheckPaused, SkipFrame,
                 FlipScreen, FlipDone, SetSoundEnabled, SpuriousWakeup
  <1> QED
    BY <1>1, <1>2, <1>3, <1>4, <1>5, <1>6, <1>7, <1>8, <1>9, <1>10, <1>11
    DEF Next, UiWork, UiEvent, EmuWork

(* The control code implements the hand-off of the machine.                *)
THEOREM ImplementsHandoff == Spec => HandoffSafety
  BY HandoffInit, HandoffStep, InductiveInvariant, PTL
  DEF Spec, HandoffSafety, Handoff!Safety
=============================================================================
