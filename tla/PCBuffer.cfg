CONSTANTS
    Columns = {c0}
    Capacity = 2
    Blocks = {b1, b2}
    Garbage = garbage
    Threads = {t1, t2, t3}
    Attempts = 2
    n = 5
    Keys = {0, 1, 2}
SPECIFICATION MCSpec
INVARIANTS PoolPartition WinnerIsLeast OperandsWritten
PROPERTIES ImplementsFIFO CallsReturn
