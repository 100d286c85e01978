SPECIFICATION FairSpec
CONSTANTS
  Writers = {w}
  Readers = {r}
  Flushers = {}
  Length = 2
  Chunks = {2}
  Modulus = 4
  UIntRange = 16
  ElemSize = 1
  ReloadCounters = FALSE
  MayTerminate = TRUE
  None = None
INVARIANT FlagsRestored
PROPERTY TerminationReleases
