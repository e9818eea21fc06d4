SPECIFICATION Spec
CONSTANTS
  Chans = {c}
  Others = {x, y}
  Faults = {"none", "rename"}
  MaxEvents = 4
  MaxCrash = 1
  MaxLoss = 1
  MaxQueue = 4
SYMMETRY NickSymmetry
INVARIANTS StateReal StoreIsWanted ViewReal QuitStored
CHECK_DEADLOCK FALSE
