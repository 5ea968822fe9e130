SPECIFICATION Spec
CONSTANTS
  Goals = {"draw", "submit", "restore", "waiver"}
  MaxSequence = 1
  MaxRuns = 2
  MaxFaults = 1
INVARIANTS
  DoneOnce
  HashOutlivesCommand
  ReportShowsEffect
PROPERTIES
  Reconciled
CHECK_DEADLOCK FALSE
