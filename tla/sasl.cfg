SPECIFICATION Spec
CONSTANTS
  Clients = {a, b}
  Bouncer = bouncer
  MaxNews = 2
  MaxAuths = 3
  MaxTroubles = 1
SYMMETRY ClientSymmetry
INVARIANTS ExchangeOwned WaitersAnswered OfferTold HeldBackForReason
CHECK_DEADLOCK FALSE
