CONSTANTS
    Clients = {c1, c2}
    Caps = {x}
    NONE = NONE
    Plain = {c2}
    QueueSize = 1
    MaxClients = 1
    MaxSessions = 2
    MaxEvents = 2
    MaxCap = 2
SPECIFICATION Spec
INVARIANTS OfferAlwaysKnown AttachedToCurrent
CHECK_DEADLOCK FALSE
