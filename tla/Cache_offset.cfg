CONSTANTS
  fInterval = 2
  Second = 1
  DistinctTimes = TRUE
  None = None
  Failed = Failed
  MaxSize = 2
  MaxTime = 1
  MaxVersion = 1

SPECIFICATION Spec

INVARIANT RangeIsRead
