SPECIFICATION FairSpec
CONSTANTS
  MaxEpoch = 2
  MaxOps = 2
  MaxMoves = 3
  Commands = {"stop", "reconnect"}
  Prompt = TRUE
PROPERTIES Redials NeverStalls StaysDown
CHECK_DEADLOCK FALSE
