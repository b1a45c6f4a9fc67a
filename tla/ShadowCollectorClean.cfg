CONSTANTS
  early = early
  late = late
  Matches <- MCMatches
  Kickoff <- MCKickoff
  Priced <- NoneInTargets
  Answers <- AllQuoted
  MaxCredits = 6
  InitialUsed = {0, 4, 6}
  InitialLast <- AnHourAgo
  Slow = 1
  Horizon = 110
  HardEnd = 1000
  FaultKinds = {}
  MaxFaults = 0
SPECIFICATION Spec
INVARIANTS
  HardCeiling
  SpacedRequests
  NoMatchMissed
  WindowsFire
PROPERTIES
  LedgerSpec
CHECK_DEADLOCK FALSE
