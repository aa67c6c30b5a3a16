SPECIFICATION Spec
CONSTANTS
  Job = {j1}
  Cancel = {c1}
  None = None
  MaxConcurrent = 1
  MaxQueued = 1
  MaxBoots = 1
  FailingSaves = {}
  HoldsPipe = {}
INVARIANTS
  AckedCancelIsDurable
CHECK_DEADLOCK FALSE
