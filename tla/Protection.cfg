SPECIFICATION Spec
CONSTANTS
    m = m
    a = a
    b = b
    Lane <- Strategies
    NoLane = NoLane
    Mode <- ModesAB
    Manual = m
    Exiting <- OnlyA
    InitHeld <- OneEach
    InitStops <- OneStopEach
    Reserves = FALSE
    MaxStops = 3
    MaxReleases = 1
    MaxMishaps = 1
PROPERTIES BareGetsCovered OversizeCorrected
CHECK_DEADLOCK FALSE
