CONSTANTS
    CPU_CORE = 4
    DATAVOLUME = 16
    Nodes = 2
    th = 1
    MaxTuples = 4
    Fit = 3
    Counted = 2
    Garbage = garbage
SPECIFICATION Spec
INVARIANTS EveryKeyHasRange TuplesAhead StoredAscending
PROPERTIES EndsComplete
