SPECIFICATION Spec
CONSTANTS
  MaxPieces = 1
  HaveLongLong = TRUE
  WideShift = "same"
  SmallPrimes = {3, 5, 7}
  Loads <- LoadsDef
  Exponents <- ExponentsDef
  Randoms <- RandomsDef
  MaxCalls = 1
  ProductBits = 30
  CipherSamples <- CipherSamplesDef
  WideBlock = 4
  NarrowBlock = 2
  ChainBlocks = 1
  MinBits = 15
  KeyBits = {14}
  KeyExponents = {3}
  PrimeDraws <- PrimeDrawsDef
  MaxKeys = 1
  DhGroups = {}
  Secrets <- SecretsDef
  MaxExchanges = 1
  KeyLengths = {16}
  DataLengths = {0}
INVARIANTS ProductExact
CHECK_DEADLOCK FALSE
