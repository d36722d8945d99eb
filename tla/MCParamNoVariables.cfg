SPECIFICATION Spec
CONSTANTS
    Size = 5
    WaitChoices = {FALSE}
    MaxTrigger = 3
    Events <- MCEvents
    Files <- TwoEvents
    Definitions <- NoVariables
    BlockCaps = {5}
CHECK_DEADLOCK FALSE
PROPERTIES
    Termination
