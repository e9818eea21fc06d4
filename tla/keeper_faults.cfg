SPECIFICATION Spec
CONSTANTS
  RingCap = 1
  SubBuf = 1
  EventBuf = 1
  Dialers = {d1}
  Closers = {c1}
  Subs = {s1}
  SerialCallers = TRUE
  MaxEpoch = 2
  MaxSeq = 2
INVARIANTS AtMostOneLiveSocket
PROPERTIES SelfCloseOnlyOnGap
