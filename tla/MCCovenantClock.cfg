SPECIFICATION FairSpec
CONSTANTS
  admin = admin
  operator = operator
  e = e
  h = h
  t1 = t1
  vault = vault
  reason = reason
  Zero = Zero
  Accounts <- MCAccounts
  Issuers <- MCIssuers
  Currencies = {"EUR", "XAU"}
  Policies <- MCPolicies
  MaxEpoch = 0
  Trades <- MCTrades
  ExposureCredentials <- ClockExposures
  HedgeCredentials <- ClockHedges
  MaxTime = 6
  Vault = vault
  Amounts = {}
  Durations = {0, 1, 2, 3}
  Reasons = {reason, Zero}
  Supply <- MCSupply
  MaxPrincipal = 3
INVARIANTS
  DeadlineTracksStanding
  BreachAfterDeadline
  WaiverBounded
PROPERTIES
  CureClock
  CureResolves
  WaiverLapses
\* Before deployment a behaviour ends when nothing is left to grant or to tick.
CHECK_DEADLOCK FALSE
