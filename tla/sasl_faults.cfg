SPECIFICATION Spec
CONSTANTS
  Clients = {a, b}
  Bouncer = bouncer
  MaxNews = 3
  MaxAuths = 3
  MaxTroubles = 1
INVARIANTS NeverInterleaved OutcomeToItsClient AllAnswered AlwaysTold PendingIsReal
CHECK_DEADLOCK FALSE
