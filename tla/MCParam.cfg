SPECIFICATION Spec
CONSTANTS
    Size = 5
    WaitChoices = {TRUE, FALSE}
    MaxTrigger = 3
    Events <- MCEvents
    Files <- AllFiles
    Definitions <- BothDefined
    BlockCaps = {5}
CHECK_DEADLOCK FALSE
INVARIANTS
    TypeOK
    ReceivedInOrder
PROPERTIES
    Termination
    ImplementsStream
