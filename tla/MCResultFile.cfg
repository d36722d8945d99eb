SPECIFICATION FileSpec
CONSTANTS
    Files <- MCFiles
    BufferSizes = {8, 56}
    Shortfalls = {0, 2}
    SizeField = 2
    MAX_UNITS_LENGTH = 3
    MAX_IDENT = 3
    Parameters <- MCParameters
    Variables <- MCVariables
    Calls <- MCCalls
    MaxCalls = 3
    Capacities <- MCCapacities
INVARIANTS
    FileTypeOK
    BlocksAreTheFile
    DescribesItself
PROPERTIES
    ReachesTheEnd
