SPECIFICATION Spec
CONSTANTS
  Cap = 3
  MaxSeq = 16
INVARIANTS GapExact
PROPERTIES ImplementsLog
CHECK_DEADLOCK FALSE
