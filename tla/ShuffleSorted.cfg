SPECIFICATION Spec
CONSTANTS
  NLowers = 2
  NUppers = 2
  CPU_CORE = 2
  DATAVOLUME = 4
  Plans <- MCPlans
  Junk = {3}
  Fit = 3
  Counted = 2
  COLUMN_CON = 1
  Wire = 1
INVARIANT BlocksOnceButLast
INVARIANT StreamsAscend
INVARIANT MergeAscends
INVARIANT ColumnsMergedWhole
PROPERTY FlushesIffAllShare
CHECK_DEADLOCK FALSE
