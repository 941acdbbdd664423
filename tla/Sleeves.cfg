SPECIFICATION Spec
CONSTANTS
    a = a
    b = b
    u = u
    Lane <- Lanes
    Unallocated = u
    Fill = {f1, f2}
    Run = {r1, r2}
    Tx = {t1, t2}
    Recipient = b
    InitActual <- Actual
    InitTarget <- Wanted
    MaxUnits = 2
    MaxOrder = 1
    MaxWorking = 2
    MaxRetargets = 1
    MaxDeliveries = 3
    MaxFaults = 1
SYMMETRY Interchangeable
INVARIANTS LogExplainsBalances SourceNotOverdrawn WithinMeans DistributionFair
CHECK_DEADLOCK FALSE
