CONSTANTS
  Surfaces = {s1, s2}
  NoSurface = NoSurface
SPECIFICATION FairSpec
INVARIANTS
  MachineExclusive
  NoStaleMachine
  SurfaceAlive
  RunsWhenWanted
  AudioFollowsGame
  NoLostWakeup
  IInv
PROPERTIES
  HandoffSafety
  CallsReturn
  StartedGameRuns
