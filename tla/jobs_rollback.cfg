SPECIFICATION Spec
CONSTANTS
  Job = {j1}
  Cancel = {c1}
  None = None
  MaxConcurrent = 1
  MaxQueued = 1
  MaxBoots = 1
  FailingSaves = {"withdraw"}
  HoldsPipe = {}
INVARIANTS
  QueuedIsScheduled
CHECK_DEADLOCK FALSE
