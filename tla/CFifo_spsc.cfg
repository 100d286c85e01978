SPECIFICATION LiveSpec
CONSTANTS
  Writers = {w}
  Readers = {r}
  Flushers = {}
  Length = 3
  Chunks = {1, 2}
  Modulus = 5
  UIntRange = 16
  ElemSize = 1
  ReloadCounters = FALSE
  MayTerminate = FALSE
  None = None
INVARIANTS TypeOK CounterSound NoOverlap
PROPERTIES ImplementsQueue CallsReturn
