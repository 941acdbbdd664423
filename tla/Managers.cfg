SPECIFICATION Spec
CONSTANTS
    d1 = d1
    d2 = d2
    Dispatcher = {d1, d2}
    MaxRows = 3
    RearmMax = 2
    Durable = TRUE
    Attachable <- MCWatch
    MaxAttaches = 1
    MaxOffs = 0
    MaxCrashes = 1
    MaxFaults = 1
SYMMETRY MCSymmetry
INVARIANTS LinksDontFork
CHECK_DEADLOCK FALSE
