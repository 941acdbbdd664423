SPECIFICATION Spec
CONSTANTS
    NumEntries = 3
    BatchSize = 2
    Creating <- MCCreating
    Coid <- MCCoid
    CoidOf <- MCShared
    MaxCrashes = 1
    MaxFaults = 2
INVARIANTS TypeOK AtMostOnce LedgerTellsTruth InStreamOrder
PROPERTIES ImplementsOnce EveryCommandSettles
CHECK_DEADLOCK FALSE
