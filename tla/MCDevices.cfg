SPECIFICATION Spec
CONSTANTS
  NumHeaders = 2
  BufferSize = 2
  MaxUnits = 4
  WriteSizes = {1, 3}
  ReadSizes = {1, 3}
  WavWorlds <- WavWorldsDef
  WavSizes = {1, 3}
  WavBlock = 2
  WavCalls = 6
  Dwords = 1024
  LineRoom = 5
  UsbWorlds <- UsbWorldsDef
  UsbLengths = {1, 4}
  MaxTransfer = 2
  Slots = 2
  SerialWorlds <- SerialWorldsDef
  PageSize = 2
  NumPages = 3
  MaxWrites = 2
  SmtpWorlds <- SmtpWorldsDef
  SmtpCalls = 4
  Mails = {1, 2}
  PopWorlds <- PopWorldsDef
  PopCalls = 3
  PopLines <- PopLinesDef
  PopRoom = 5
  PingWorlds <- PingWorldsDef
  PingTimeout = 1
  PingPackets = 2
  SockWorlds <- SockWorldsDef
  SockBytes = 2
  SockSizes = {2}
  SockOpens = 2
INVARIANTS TypeOK SoundInOrder RecordInOrder OutTruthful BytesCarried PortsSound FlashIsArray NetworkSound
PROPERTIES StopKeepsSound DeviceCallsReturn
CHECK_DEADLOCK FALSE
