CONSTANTS
  Paths = {p1, p2}
  NoPath = NoPath
  Intervals = {0, 1, 2}
  MaxSubs = 3
  MaxTime = 2

SPECIFICATION FairSpec

INVARIANT TypeOK
INVARIANT ActiveIsRegistered
INVARIANT Reaped
INVARIANT NoDuplicates
PROPERTY RoundComplete
PROPERTY RoundReaches
PROPERTY EventuallyRemoved
PROPERTY ImplementsRegistry
