SPECIFICATION Spec
CONSTANTS
  Goals = {"draw"}
  MaxSequence = 1
  MaxRuns = 2
  MaxFaults = 1
CHECK_DEADLOCK FALSE
INVARIANTS
  CodeAnswersBroadcast
