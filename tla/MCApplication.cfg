SPECIFICATION FairSpec
CONSTANTS
    Sizes = {3, 4}
    Arguments = {1, 2, 3}
    MAX_IDENT = 128
    MAX_UNITS_LENGTH = 32
    MINIMUM_SIZE = 4
CHECK_DEADLOCK FALSE
INVARIANTS
    TypeOK
    MessagesFitTheirTypes
PROPERTIES
    EveryRankEnds
