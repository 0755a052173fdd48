CONSTANTS
    NLowers = 1
    NUppers = 2
    CPU_CORE = 4
    PerRange = 3
    UsedRanges = 4
    COLUMN_CON = 1
    Fit = 2
    Counted = 1
    Wire = 1
    exchange_id = 50
    MayCrash = {}
    Tuples <- MCTuples
    RangeOf <- MCRangeOf
    Input <- MCInput
SPECIFICATION SpecStalled
INVARIANTS RoutedByRange
PROPERTIES LowersFinish
