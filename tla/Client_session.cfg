CONSTANTS
  Texts <- MCTexts
  Numbers = {0, 2}
  Contents <- MCContents
  Times <- MCTimes
  Messages <- MCMessages
  InvalidRequest <- MCInvalidRequest
  ServerBuffer = 24
  ClientBuffer = 12
  MaxDatagram = 15
  MaxCalls = 2
  MaxEarly = 1
  MaxInbox = 2

SPECIFICATION FairSpec

INVARIANT TypeOK
INVARIANT RequestUnderstood
INVARIANT ReplyUnderstood
INVARIANT WindowBounded
PROPERTY SilentAfterWindow
INVARIANT OnlyLongPathPanics
PROPERTY OnlyStrangersKill
PROPERTY EveryCallReturns
