SPECIFICATION LiveSpec
CONSTANTS
    MaxClock = 5
    MaxEntries = 2
    MaxCrashes = 1
    MaxFaults = 2
INVARIANTS TypeOK SameCycle CountsItsLegs ClosesExplained
PROPERTY Settles
CHECK_DEADLOCK FALSE
