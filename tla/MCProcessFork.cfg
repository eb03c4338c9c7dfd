\* The same, and ::fork may answer -1.
CONSTANTS
  Pids <- TwoPids
  Objs = {o1, o2}
  Foreign = Foreign
  MaxScopes = 0
  ForkMayFail = TRUE
SPECIFICATION Spec
PROPERTY NewReturnsForkedChild
CHECK_DEADLOCK FALSE
