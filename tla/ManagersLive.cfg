SPECIFICATION LiveSpec
CONSTANTS
    d1 = d1
    d2 = d2
    Dispatcher = {d1}
    MaxRows = 3
    RearmMax = 1
    Durable = TRUE
    Attachable <- MCWatch
    MaxAttaches = 1
    MaxOffs = 0
    MaxCrashes = 1
    MaxFaults = 0
PROPERTIES StuckResolved
CHECK_DEADLOCK FALSE
