SPECIFICATION FairSpec
CONSTANTS
  Networks <- MCSASLNetworks
  Guest <- MCGuest
  DefaultNickLen = 2
  MaxUnderscoreTries = 2
  ChunkSize = 2
  Withdraws = TRUE
  MaxLoops = 2
  MaxMoves = 2
PROPERTY ExchangeEnds
CHECK_DEADLOCK FALSE
