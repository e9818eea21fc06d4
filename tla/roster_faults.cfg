SPECIFICATION Spec
CONSTANTS
  Chans = {c}
  Others = {x, y}
  Faults = {"none", "rename", "stranger", "late"}
  MaxEvents = 4
  MaxCrash = 2
  MaxLoss = 1
  MaxQueue = 4
INVARIANTS OnTheseChannels RosterTrusted OpsReal StoreIsRight ClientIsRight HistoryIsWhole
CHECK_DEADLOCK FALSE
