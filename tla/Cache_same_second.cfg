CONSTANTS
  fInterval = 1
  Second = 1
  DistinctTimes = FALSE
  None = None
  Failed = Failed
  MaxSize = 2
  MaxTime = 2
  MaxVersion = 1

SPECIFICATION Spec

INVARIANT EntryWasCurrent
