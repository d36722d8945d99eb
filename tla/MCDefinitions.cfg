SPECIFICATION Spec
CONSTANTS
    Workers = {w1, w2}
    Outputter = out
    Parameters = {"a", "b", "raw", "late"}
    Variables = {"u", "v"}
    UserParameters = {"a", "late"}
    UserVariables = {"u"}
    Values = {0, 1}
    NoParameter = NoParameter
    MaxEvents = 1
    MaxId = 5
    DefinitionFiles <- MCDefinitionFiles
    InputParameters <- MCInputParameters
    InputVariables <- MCInputVariables
    InputEvents <- MCInputEvents
SYMMETRY Symmetric
CHECK_DEADLOCK FALSE
INVARIANTS
    TypeOK
    NumbersAgree
    ReadsBack
    SteeredAsDefined
PROPERTIES
    LoadsByName
