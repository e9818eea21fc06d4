SPECIFICATION SSpec
CONSTANTS
  RingCap = 3
  SubBuf = 1
  EventBuf = 4
  Dialers = {d1}
  Closers = {}
  Subs <- MCSubs
  SerialCallers = TRUE
  MaxEpoch = 1
  MaxSeq = 3
  MaxSession = 1
  MaxReconnect = 0
  MaxChanges = 9
  MaxKills = 0
  LinesBuf = 3
  StateLines = {1, 2, 3}
INVARIANTS FeedContiguous
CHECK_DEADLOCK FALSE
PROPERTIES LossAfterAllLines
