SPECIFICATION Spec
CONSTANTS
  Proc = {p1, p2}
  Old = Old
  None = None
  Attempts = 1
  FailingPersist = FALSE
INVARIANTS
  OneKeeper
CHECK_DEADLOCK FALSE
