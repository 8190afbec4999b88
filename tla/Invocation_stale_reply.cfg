CONSTANTS
  Clients = {c1}
  Semantics = "alo"
  IdSpace = 4
  Timely = FALSE
  NoReply = NoReply
  MaxCalls = 2
  MaxCopies = 2
  MaxRestarts = 0

SPECIFICATION Spec

CHECK_DEADLOCK FALSE

INVARIANT AnsweredIsExecuted
