SPECIFICATION SSpec
CONSTANTS
  RingCap = 2
  SubBuf = 1
  EventBuf = 4
  Dialers = {d1}
  Closers = {c1}
  Subs <- MCSubs
  SerialCallers = TRUE
  MaxEpoch = 2
  MaxSeq = 2
  MaxSession = 2
  MaxReconnect = 1
  MaxChanges = 3
  MaxKills = 1
  LinesBuf = 2
  StateLines = {1}
INVARIANTS ResumeComplete AckedIsDurable
PROPERTIES LossAfterLines StreamWhole
CHECK_DEADLOCK FALSE
