SPECIFICATION FairSpec
CONSTANTS
  MaxEpoch = 2
  MaxOps = 2
  MaxMoves = 4
  Commands = {"stop", "reconnect"}
  Prompt = TRUE
INVARIANTS OpeningOnce
PROPERTIES AlwaysRedials StopIsFinal RegistrationResolves StaleLossIgnored LossNotIgnored ConnectedSettles
CHECK_DEADLOCK FALSE
