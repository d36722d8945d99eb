SPECIFICATION TestSpec
CONSTANTS
    MaxTrigger = 5
    Events = {e1, e2}
    MaxId = 20
    MaxGeneration = 3
INVARIANTS
    SorterTypeOK
    ContiguousUntilFlush
    Ascending
    NothingLost
    NoNeedToFlush
    TestsPass
