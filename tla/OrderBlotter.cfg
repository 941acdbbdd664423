SPECIFICATION LiveSpec
CONSTANTS
    Order = {o1, o2}
    NoSnapshot = NoSnapshot
    MaxRecent = 1
    MaxTerminal = 1
    QueueMax = 2
    StreamMax = 2
    MaxEvents = 3
    MaxStops = 1
INVARIANTS TypeOK
PROPERTIES NeverReverts Heals
CHECK_DEADLOCK FALSE
