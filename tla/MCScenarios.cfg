SPECIFICATION Spec
CONSTANTS
  MaxStarts = 2
  MaxUpdates = 1
  MaxRejects = 1
INVARIANTS
  DrawnOncePerStep
  JournalKeepsUp
  OneWaiverInFlight
  CompleteIsWhole
  VerifiedIsFresh
CHECK_DEADLOCK FALSE
