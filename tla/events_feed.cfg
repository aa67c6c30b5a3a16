SPECIFICATION FairSpec
CONSTANTS
  Follower = {f1}
  Source = {"job", "daemon"}
  Wanted <- JobsOnly
  None = None
  JournalLimit = 2
  MinRetained = 1
  PageLimit = 1
  WaiterLimit = 1
  Burst = 1
  LongPoll = 1
  Timeout = 2
  Generations = 2
  MaxEvents = 3
INVARIANTS
  TypeOK PagesAccepted WaitersBounded QuietFollowerSurvives
PROPERTIES
  FeedKept FollowerCatchesUp
CHECK_DEADLOCK FALSE
