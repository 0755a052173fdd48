CONSTANTS
    CPU_CORE = 2
    Streams <- MCStreams
    Fit = 2
    FakeMax = 2
    NoKey = nokey
    MemKeys = {0, 2}
    Null = null
SPECIFICATION Spec
INVARIANTS NeverAnEarlierRange ExactWhenUndisturbed
PROPERTIES JoinEnds
