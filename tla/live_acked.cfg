SPECIFICATION FairSSpec
CONSTANTS
  RingCap = 3
  SubBuf = 3
  EventBuf = 4
  Dialers = {d1}
  Closers = {}
  Subs <- MCSubs
  SerialCallers = TRUE
  MaxEpoch = 1
  MaxSeq = 1
  MaxSession = 2
  MaxReconnect = 0
  MaxChanges = 9
  MaxKills = 0
  LinesBuf = 3
  StateLines = {1}
PROPERTIES LinesAcked
CHECK_DEADLOCK FALSE
