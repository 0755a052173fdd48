CONSTANTS
    NLowers = 2
    NUppers = 1
    CPU_CORE = 1
    PerRange = 6
    UsedRanges = 1
    COLUMN_CON = 1
    Fit = 2
    Counted = 1
    Wire = 1
    exchange_id = 50
    MayCrash = {2}
    Tuples <- MCTuples
    RangeOf <- MCRangeOf
    Input <- MCInput
SPECIFICATION Spec
INVARIANTS InOrder NoBlockVanishes DrainedWhenDone MarkerOnItsWay
PROPERTIES EndsUnlessMarkerLost ServedBeforeDead
