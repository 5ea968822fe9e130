SPECIFICATION FairSpec
CONSTANTS
  console = console
  r1 = r1
  r2 = r2
  i1 = i1
  i2 = i2
  m1 = m1
  m2 = m2
  w1 = w1
  w2 = w2
  Members <- MCMembers
  Threshold = 2
  Calls <- MCCalls
  Processes = {console}
  Requests = {r1}
  home <- OneRequestHome
  Intents <- TwoIntents
  MaxFailures = 2
INVARIANTS
  OneActionInFlight
  NonceStillOurs
  BroadcastWasApproved
  RecordedIsMined
PROPERTIES
  ProposalsOutliveRestart
  SuccessIsRecorded
