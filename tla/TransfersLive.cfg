SPECIFICATION Spec
CONSTANTS
    a = a
    b = b
    c = c
    t1 = t1
    t2 = t2
    Strategy = {a, b, c}
    Registered = {a, b, c}
    Transfer = {t1, t2}
    Source <- MCSource
    Target <- MCTarget
    Side <- MCSide
    Qty <- MCQty
    InitPos <- MCPos
    MaxTrades = 0
    MaxExits = 1
    MaxCrashes = 1
    MaxFaults = 0
PROPERTY RecoveryFinishes
CHECK_DEADLOCK FALSE
