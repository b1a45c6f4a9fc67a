CONSTANTS
  f1 = f1
  f2 = f2
  f3 = f3
  Manifest <- MCManifest
  Prior <- MCPrior
  DailyLimit = 7
  Reserve = 2
  MaxRequests = 4
  Attempts = 2
  SaveEvery = 2
  FaultKinds = {"kill", "cut", "lost", "blank", "error", "down", "refused", "overlap"}
  MaxFaults = 2
SPECIFICATION Spec
INVARIANTS
  ReserveKept
  DoneIsRawBacked
PROPERTY
  BackfillCompletes
CHECK_DEADLOCK FALSE
