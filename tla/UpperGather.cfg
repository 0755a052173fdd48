CONSTANTS
    NUppers = 3
    NLowers = 2
    MaxFailures = 1
SPECIFICATION Spec
INVARIANTS RefusedOnlyBroken OneColumnPerLower
PROPERTIES EveryUpperReady
