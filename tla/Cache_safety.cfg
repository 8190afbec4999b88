CONSTANTS
  fInterval = 2
  Second = 1
  DistinctTimes = TRUE
  None = None
  Failed = Failed
  MaxSize = 2
  MaxTime = 3
  MaxVersion = 2

SPECIFICATION Spec

INVARIANT TypeOK
INVARIANT EntryWasCurrent
INVARIANT ServedIsRecent
INVARIANT PrefixIsRead
PROPERTY ReadsGoForward
PROPERTY ImplementsRecentReads
