SPECIFICATION Spec
CONSTANTS
  Writers = {w}
  Readers = {r}
  Flushers = {}
  Length = 3
  Chunks = {1, 3}
  Modulus = 5
  UIntRange = 16
  ElemSize = 1
  ReloadCounters = TRUE
  MayTerminate = FALSE
  None = None
INVARIANT NoOverlap
