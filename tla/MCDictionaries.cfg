SPECIFICATION Spec
CONSTANTS
    Bases = {"a", "b"}
    UintMod = 10000
    ParameterNames <- MCParameterNames
    Limits = {0, 1}
    Bins = {0, 2}
    Units = {"", "mm"}
    Resolutions = {1}
    Widths <- MCWidths
    Defaults <- MCDefaults
    ParameterArrays = {p}
    ArrayShapes <- MCShapes
    VariableNames <- MCVariableNames
    Values = {0, 1}
    NoUnits = ""
    VariableArrays = {v, w}
    DefinitionFiles <- MCDefinitionFiles
    MaxCalls = 3
CHECK_DEADLOCK FALSE
INVARIANTS
    TypeOK
    ArraysAsDeclared
    OnlyInitializationsAreSilent
    DefinedAsInFile
