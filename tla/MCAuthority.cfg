SPECIFICATION CredentialSpec
CONSTANTS
  admin = admin
  operator = operator
  i1 = i1
  i2 = i2
  i3 = i3
  t1 = t1
  t2 = t2
  Zero = Zero
  MaxSequence = 1
  Accounts <- MCAccounts
  Issuers <- MCIssuers
  Currencies = {"EUR", "XAU"}
  Policies <- MCPolicies
  MaxEpoch = 1
  Trades <- MCTrades
  ExposureCredentials <- MCExposures
  HedgeCredentials <- MCHedges
SYMMETRY MCSymmetry
INVARIANTS
  RolesDisjoint
  CountsExact
  ActiveListSound
PROPERTIES
  RevokedNeverStored
  AuthorityNeverRevives
\* A behaviour ends when every message and every epoch has been used.
CHECK_DEADLOCK FALSE
