CONSTANTS
  Clients = {c1, c2}
  Semantics = "amo"
  IdSpace = 4
  Timely = TRUE
  NoReply = NoReply
  MaxCalls = 2
  MaxCopies = 2
  MaxRestarts = 0

SPECIFICATION Spec

CHECK_DEADLOCK FALSE

SYMMETRY ClientSymmetry

INVARIANT StoredResponseForRepeatsOnly
