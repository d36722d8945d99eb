SPECIFICATION Spec
CONSTANTS
    Size = 5
    WaitChoices = {FALSE}
    MaxTrigger = 4
    Events <- MCEvents
    Files <- TinyFiles
    MaxBlock = 2
    CounterMod = 4
INVARIANTS
    NothingMissing
