CONSTANTS
  d1 = d1
  d2 = d2
  Desks <- MCDesks
  Policies <- MCPolicies
  Quotes <- MCQuotes
  Lowers <- MCLowers
  Drafts <- MCDrafts
  Accounts <- MCAccounts
  Versions <- MCVersions
  ModelVersion = "approved-v1"
  MaxContracts = 2
  RiskBudget = 300
  EntryMargin = 4
  ExitBuffer = 2
  FeeBuffer = 1
  MaxOrderCost = 100
  MaxEventExposure = 230
  MaxDailyLoss = 1000
  MaxOpenOrders = 4
  MinEdge = 4
  MaxSpread = 5
  MaxPredictionAge = 1
  MaxMarketAge = 0
  MaxContractsPerOrder = 2
  MaxIntents = 2
  MaxBlind = 1
  Horizon = 2
SPECIFICATION Spec
SYMMETRY Symmetry
INVARIANTS
  ExposureCapped
  TargetHeld
  FilledOnce
CHECK_DEADLOCK FALSE
