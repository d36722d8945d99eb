SPECIFICATION Spec
CONSTANTS
    Size = 5
    WaitChoices = {TRUE, FALSE}
    MaxTrigger = 4
    Events <- MCEvents
    Files <- AllFiles
    MaxBlock = 2
    CounterMod = 4
CHECK_DEADLOCK FALSE
INVARIANTS
    TypeOK
    ExactlyOnce
PROPERTIES
    Termination
    ReadIsWritten
    UsesSorterProperly
    ImplementsStream
