CONSTANTS
  Clients = {c1, c2}
  Semantics = "amo"
  IdSpace = 2
  Timely = FALSE
  NoReply = NoReply
  MaxCalls = 3
  MaxCopies = 1
  MaxRestarts = 0

SPECIFICATION FairSpec

CHECK_DEADLOCK FALSE

INVARIANT IdExecutedOnce
INVARIANT AnswerWasMade
PROPERTY EveryCallReturns
