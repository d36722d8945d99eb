SPECIFICATION FileSpec
CONSTANTS
    Files <- NoFiles
    BufferSizes = {32}
    Shortfalls = {0}
    SizeField = 2
    MAX_UNITS_LENGTH = 3
    MAX_IDENT = 3
    Parameters <- OddParameters
    Variables <- MCVariables
    Calls <- MCCalls
    MaxCalls = 2
    Capacities <- Enough
PROPERTY ReachesTheEnd
