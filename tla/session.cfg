SPECIFICATION Spec
CONSTANTS
  Clients = {a, b}
  Keys = {x, y}
  RegLines = 2
  MaxHeld = 2
  MaxAsks = 2
  MaxLives = 2
INVARIANTS ForwardedExactly SeenOnce
SYMMETRY Symmetry
CHECK_DEADLOCK FALSE
