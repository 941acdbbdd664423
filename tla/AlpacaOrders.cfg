SPECIFICATION FairSpec
CONSTANTS
    o1 = o1
    Order <- OneOrder
    Asks = 3
    InflightRetries = 2
    MissingRetries = 2
    MaxFaults = 3
    MaxCrashes = 1
INVARIANTS TypeOK NoCorpse NoPhantom CancelPursued
PROPERTIES NothingFromSilence Surfaces
