SPECIFICATION FairSpec
CONSTANTS
  Networks <- MCNetworks
  Guest <- MCGuest
  DefaultNickLen = 2
  MaxUnderscoreTries = 2
  ChunkSize = 2
  Withdraws = FALSE
  MaxLoops = 2
  MaxMoves = 2
INVARIANTS SASLHonoured NickSound
PROPERTIES ExchangesEnd Reclaims
CHECK_DEADLOCK FALSE
