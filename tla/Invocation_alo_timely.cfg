CONSTANTS
  Clients = {c1, c2}
  Semantics = "alo"
  IdSpace = 2
  Timely = TRUE
  NoReply = NoReply
  MaxCalls = 3
  MaxCopies = 2
  MaxRestarts = 1

SPECIFICATION Spec

CHECK_DEADLOCK FALSE

INVARIANT TypeOK
INVARIANT AnsweredIsExecuted
INVARIANT OwnAnswer
PROPERTY ImplementsRemoteCall
