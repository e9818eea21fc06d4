SPECIFICATION FairSpec
CONSTANTS
  Conns = {c1, c2}
  Hellos <- AllHellos
  KeeperMin = 1
  KeeperMax = 2
  KeeperGeneration = 1
  MaxWork = 2
INVARIANTS SlotHeld
PROPERTIES NoAddAfterWait TeardownEnds
CHECK_DEADLOCK FALSE
