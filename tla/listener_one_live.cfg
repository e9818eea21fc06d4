SPECIFICATION Spec
CONSTANTS
  Conns = {c1, c2, c3}
  Hellos <- LiveHello
  KeeperMin = 1
  KeeperMax = 2
  KeeperGeneration = 1
  MaxWork = 1
SYMMETRY ConnSymmetry
INVARIANTS AtMostOneLive
CHECK_DEADLOCK FALSE
