CONSTANTS
    Brains = {b1, b2, b3}
    Keepers = {k1, k2}
    NONE = NONE
    MaxOps = 3
    MaxCrash = 1
    Faults = {"none", "overtake", "slow", "dies", "stale", "both", "double", "orphan"}
SPECIFICATION Spec
INVARIANTS KeeperOnItsPath ServedIfWanted StoppedIfWanted NeverRefused

CHECK_DEADLOCK FALSE
