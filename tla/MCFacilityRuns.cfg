SPECIFICATION RunsSpec
CONSTANTS
  deployer = deployer
  originator = originator
  w1 = w1
  w2 = w2
  e = e
  h = h
  vault = vault
  Zero = Zero
  Accounts <- MCAccounts
  Issuers = {e, h}
  Currencies = {"EUR", "USD", "COP"}
  Policies = {}
  MaxEpoch = 0
  Trades = {"MOCK-USD-COP-001", "ARC-EUR-USD-001"}
  ExposureCredentials = {}
  HedgeCredentials = {}
  MaxTime = 36
  Pauses = {12}
  Vault = vault
  Amounts = {}
  Durations = {}
  Reasons = {}
  Supply <- MCSupply
  MaxPrincipal = 100000
  WalletAddress <- MCWallets
  ManifestPolicy <- MCManifestPolicy
  ExposureIssuer = e
  HedgeIssuer = h
  MaxFailures = 1
  MaxKills = 1
INVARIANTS
  SetupCallsLandOnce
  EvidenceHonest
  FailsOnlyDisturbed
PROPERTIES
  SetUpInTheEnd
CHECK_DEADLOCK FALSE
