SPECIFICATION Spec
CONSTANTS
    Size = 5
    WaitChoices = {FALSE}
    MaxTrigger = 3
    Events <- MCEvents
    Files <- TwoEvents
    Definitions <- BothDefined
    BlockCaps = {3}
CHECK_DEADLOCK FALSE
INVARIANTS
    NumberedAsInInput
