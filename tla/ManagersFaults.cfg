SPECIFICATION Spec
CONSTANTS
    d1 = d1
    d2 = d2
    Dispatcher = {d1, d2}
    MaxRows = 2
    RearmMax = 2
    Durable = TRUE
    Attachable <- MCBoth
    MaxAttaches = 1
    MaxOffs = 1
    MaxCrashes = 1
    MaxFaults = 2
SYMMETRY MCSymmetry
INVARIANTS TypeOK EffectOnce ApplyExclusive
PROPERTIES CancelledDoesNothing TerminalStays OffHonoured
CHECK_DEADLOCK FALSE
