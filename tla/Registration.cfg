SPECIFICATION Spec
CONSTANTS
  Workers = {w1, w2, w3}
  Backlog = 2
  MaxFails = 1
INVARIANT SurplusAccounted
PROPERTY EveryPairLinked
CHECK_DEADLOCK FALSE
