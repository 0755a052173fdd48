CONSTANTS
    Adders = {a1, a2}
    Workers = {w1, w2}
    Tasks = {t1, t2, t3, t4}
    Capacity = 2
    Null = null
SPECIFICATION PoolSpec
INVARIANTS RingIsFIFO NoLostWakeup
PROPERTIES AllRunUnlessStuck
CHECK_DEADLOCK FALSE
