SPECIFICATION LiveSpec
CONSTANTS
  Files = {f1}
  Blocks = 2
  Cache = 1
  Ports = {p1, p2, p3}
  NoPort = NoPort
  Simple = {"CWD", "QUIT"}
  Worlds <- SoundWorlds
  MaxRequests = 2
INVARIANTS TypeOK RepliesMatched PortIsOpen TransfersWhole
PROPERTIES CallsReturn
CHECK_DEADLOCK FALSE
