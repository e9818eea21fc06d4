SPECIFICATION Spec
CONSTANTS
  Networks <- MCNetworks
  Guest <- MCGuest
  DefaultNickLen = 2
  MaxUnderscoreTries = 2
  ChunkSize = 2
  Withdraws = FALSE
  MaxLoops = 2
  MaxMoves = 2
PROPERTIES OwnReplyConsumed ClientNickStands
CHECK_DEADLOCK FALSE
