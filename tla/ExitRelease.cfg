SPECIFICATION Spec
CONSTANTS
    m = m
    a = a
    b = b
    Lane <- Strategies
    NoLane = NoLane
    Mode <- ModesAB
    Manual = m
    Exiting <- Strategies
    InitHeld <- OneEach
    InitStops <- OneStopEach
    Reserves = TRUE
    MaxStops = 3
    MaxReleases = 2
    MaxMishaps = 1
PROPERTY RobbedOnlyIfLost
CHECK_DEADLOCK FALSE
