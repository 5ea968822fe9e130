SPECIFICATION MCSpec
CONSTANTS
  Trades = {t1}
  t1 = t1
  MaxAmount = 1
  MaxBlocks = 2
  MaxRequests = 2
  Roles = {risk, treasury}
  Signers = {risk, treasury}
  NoKey = NoKey
  Intents = {i1, i2}
  MaxProposals = 1
  MaxSignatures = 2
  Calls = {c1, c2}
INVARIANTS
  ReportsOneBlock
  VerdictAnswersField
  DeskOneBlock
  GateAnswersField
  
CHECK_DEADLOCK FALSE
