SPECIFICATION Spec
CONSTANTS
  admin = admin
  operator = operator
  e = e
  h = h
  t1 = t1
  vault = vault
  reason = reason
  Zero = Zero
  Accounts <- MCAccounts
  Issuers <- MCIssuers
  Currencies = {"EUR", "XAU"}
  Policies <- MCPolicies
  MaxEpoch = 0
  Trades <- MCTrades
  ExposureCredentials <- CapitalExposures
  HedgeCredentials <- CapitalHedges
  MaxTime = 3
  Vault = vault
  Amounts = {0, 1, 2}
  Durations = {0, 1, 2, 3}
  Reasons = {reason, Zero}
  Supply <- MCSupply
  MaxPrincipal = 3
PROPERTIES
  DrawsGated
  CapitalProtected
  PromiseKept
\* Before deployment a behaviour ends when nothing is left to grant or to tick.
CHECK_DEADLOCK FALSE
