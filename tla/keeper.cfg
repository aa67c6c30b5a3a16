SPECIFICATION FairSpec
CONSTANTS
  Proc = {p1, p2}
  Old = Old
  None = None
  Attempts = 2
  FailingPersist = TRUE
INVARIANTS
  TypeOK OneKeeperUnlessRobbed NotAllRefused NoLockLeft StatusIsTheKeepers
  ReplayOnlyRefused
PROPERTIES
  NothingAfterBar StopCompletes
CHECK_DEADLOCK FALSE
