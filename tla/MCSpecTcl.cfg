SPECIFICATION Spec
CONSTANTS
    Objects = {o1, o2}
    Processors = {p, q}
    MaxPipeline = 2
    Unnamed = ""
    NoDefinition = NoDefinition
    Values = {0, 1}
    MaxId = 4
    MaxGeneration = 3
    Names <- MCNames
    UserNames <- MCUserNames
    AnonymousName <- MCAnonymousName
    UserCode <- ObjectsOrIndices
SYMMETRY Symmetric
CHECK_DEADLOCK FALSE
INVARIANTS
    TypeOK
    SameNameSameParameter
    UnpackedToParameters
    UnpackedToIndices
    ReadsThisEvent
    RejectedEventIsEmpty
    EventsStartEmpty
PROPERTIES
    NumbersAreForGood
