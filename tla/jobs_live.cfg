SPECIFICATION MCFairSpec
CONSTANTS
  Job = {j1, j2}
  Cancel = {c1, c2}
  None = None
  MaxConcurrent = 1
  MaxQueued = 1
  MaxBoots = 2
  FailingSaves = {"submit", "start", "terminal", "withdraw", "record", "close",
                  "load"}
  HoldsPipe = {}
  Lone = j1
ACTION_CONSTRAINTS
  Stays
INVARIANTS
  SpawnIsRecorded SpawnedAtMostOnce
PROPERTIES
  EveryJobEnds CloseCompletes
CHECK_DEADLOCK FALSE
