SPECIFICATION Spec
CONSTANTS
  Scans = {s1, s2, s3}
  Files = {left, right, gone}
  Present = {left, right}
  Blocks = 2
INVARIANT ScanExact
CHECK_DEADLOCK FALSE
