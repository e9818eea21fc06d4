SPECIFICATION Spec
CONSTANTS
  Clients = {a, b}
  Keys = {x}
  RegLines = 3
  MaxHeld = 2
  MaxAsks = 1
  MaxLives = 1
INVARIANTS SeenInOrder NothingHeldForGood
CHECK_DEADLOCK FALSE
