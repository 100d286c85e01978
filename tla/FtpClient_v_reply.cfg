SPECIFICATION Spec
CONSTANTS
  Files = {f1}
  Blocks = 1
  Cache = 1
  Ports = {p1, p2, p3}
  NoPort = NoPort
  Simple = {"CWD"}
  Worlds <- BreakingWorlds
  MaxRequests = 2
INVARIANTS AnswersOwnCommand
CHECK_DEADLOCK FALSE
