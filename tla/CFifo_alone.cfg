SPECIFICATION Spec
CONSTANTS
  Writers = {t}
  Readers = {t}
  Flushers = {t}
  Length = 2
  Chunks = {1, 2}
  Modulus = 4
  UIntRange = 16
  ElemSize = 1
  ReloadCounters = TRUE
  MayTerminate = FALSE
  None = None
PROPERTY ImplementsQueue
CHECK_DEADLOCK FALSE
