SPECIFICATION Spec
CONSTANTS
  MaxPieces = 3
  HaveLongLong = FALSE
  WideShift = "zero"
  SmallPrimes = {3, 5, 7}
  Loads <- LoadsDef
  Exponents <- ExponentsDef
  Randoms <- RandomsDef
  MaxCalls = 1
  ProductBits = 30
  CipherSamples <- CipherSamplesDef
  WideBlock = 4
  NarrowBlock = 2
  ChainBlocks = 3
  MinBits = 15
  KeyBits = {14, 15, 17}
  KeyExponents = {1, 3}
  PrimeDraws <- PrimeDrawsDef
  MaxKeys = 2
  DhGroups <- DhGroupsDef
  Secrets <- SecretsDef
  MaxExchanges = 2
  KeyLengths = {15, 16, 45, 46, 62, 94, 128}
  DataLengths = {0, 5, 34, 35, 200}
INVARIANTS TypeOK HashesStandard NumbersExact CiphersStandard
CHECK_DEADLOCK FALSE
