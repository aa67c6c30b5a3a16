SPECIFICATION Spec
CONSTANTS
  Job = {j1, j2}
  Cancel = {}
  None = None
  MaxConcurrent = 1
  MaxQueued = 1
  MaxBoots = 1
  FailingSaves = {"close"}
  HoldsPipe = {}
INVARIANTS
  ShutdownInterrupts
CHECK_DEADLOCK FALSE
