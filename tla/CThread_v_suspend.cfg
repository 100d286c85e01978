SPECIFICATION Spec
CONSTANTS
  Ids = {i1, i2}
  INVALID = INVALID
  Worlds <- SuspendingWorlds
INVARIANT SuspendedUntilResumed
