SPECIFICATION Spec
CONSTANTS
  Job = {j1, j2}
  Cancel = {c1}
  None = None
  MaxConcurrent = 1
  MaxQueued = 1
  MaxBoots = 1
  FailingSaves = {"terminal"}
  HoldsPipe = {j1, j2}
SYMMETRY Symmetry
INVARIANTS
  TypeOK ConcurrencyBound QueuedIsScheduled NoIdleSlot
  NoInventedOutcome AckedCancelNeverSucceeds ClosedIsQuiet
PROPERTIES
  NoSpawnAfterStop AnnouncedIsFinal
CHECK_DEADLOCK FALSE
