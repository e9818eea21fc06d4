SPECIFICATION Spec
CONSTANTS
  RingCap = 1
  SubBuf = 1
  EventBuf = 1
  Dialers = {d1, d2}
  Closers = {c1}
  Subs = {s1}
  SerialCallers = FALSE
  MaxEpoch = 2
  MaxSeq = 2
SYMMETRY DialerSymmetry
INVARIANTS ConnectedHasReader EventsTruthful SeqsDistinct CloseWillReturn
