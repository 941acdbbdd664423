SPECIFICATION Spec
CONSTANTS
    a = a
    b = b
    c = c
    t1 = t1
    t2 = t2
    Strategy = {a, b, c}
    Registered = {a, b, c}
    Transfer = {t1, t2}
    Source <- MCSource
    Target <- MCTarget
    Side <- MCSide
    Qty <- MCQty
    InitPos <- MCPos
    MaxTrades = 1
    MaxExits = 0
    MaxCrashes = 1
    MaxFaults = 1
INVARIANTS TypeOK LegBookedOnce OutboxCoversLegs BooksBalance
CHECK_DEADLOCK FALSE
