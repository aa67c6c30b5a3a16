SPECIFICATION Spec
CONSTANTS
  Follower = {f1}
  Source = {"job", "daemon"}
  Wanted <- JobsOnly
  None = None
  JournalLimit = 2
  MinRetained = 1
  PageLimit = 1
  WaiterLimit = 1
  Burst = 1
  LongPoll = 3
  Timeout = 2
  Generations = 1
  MaxEvents = 3
INVARIANTS
  QuietFollowerSurvives
CHECK_DEADLOCK FALSE
