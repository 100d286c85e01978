SPECIFICATION LiveSpec
CONSTANTS
  Ids = {i1, i2}
  INVALID = INVALID
  Worlds <- SoundWorlds
INVARIANTS TypeOK OwnsItsThread SuspendedUntilResumed FinishedTruthful ExecutesOnWholeObject
PROPERTIES StopSticks ShutdownReturns
