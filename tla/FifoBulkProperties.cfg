SPECIFICATION FairSpec
CONSTANTS
  QueueNumber = 2
  QueueSize = 2
  FifoSize = 2
  Packet = 2
  Lengths = {1, 3}
  Modulus = 9
INVARIANTS TypeOK StreamUnbroken FlushesAlone NeverKilled NeverWaitsInVain
PROPERTY CallsReturn
