CONSTANTS
    Clients = {c1, c2}
    Caps = {x}
    NONE = NONE
    Plain = {c2}
    QueueSize = 1
    MaxClients = 1
    MaxSessions = 2
    MaxEvents = 1
    MaxCap = 1
SPECIFICATION Spec
PROPERTY SlotsComeBack
CHECK_DEADLOCK FALSE
