CONSTANTS
  WordSize = 16
  Paths = {"file", "missing"}
  Files = {"file"}
  Bytes = {1, 2}
  Inputs = {0, 1, 2, 3, 4, 7}
  MaxContent = 2
  MaxLen = 4
  WriteMayFail = FALSE
  MayCrash = FALSE

SPECIFICATION Spec

INVARIANT AlwaysUp
