SPECIFICATION EngineSpec
CONSTANTS
  admin = admin
  operator = operator
  e = e
  h = h
  t1 = t1
  t2 = t2
  Zero = Zero
  Accounts <- MCAccounts
  Issuers <- MCIssuers
  Currencies = {"EUR", "XAU"}
  Policies <- MCPolicies
  MaxEpoch = 1
  Trades <- MCTrades
  ExposureCredentials <- MCExposures
  HedgeCredentials <- MCHedges
  MaxTime = 3
INVARIANTS
  EvaluateMatchesRule
PROPERTIES
  SpentNeverCounts
\* A behaviour ends at MaxTime when every message and every epoch has been used.
CHECK_DEADLOCK FALSE
