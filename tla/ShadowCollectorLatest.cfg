CONSTANTS
  early = early
  late = late
  Matches <- MCMatches
  Kickoff <- MCKickoff
  Priced <- NoneInTargets
  Answers <- AllQuoted
  MaxCredits = 3
  InitialUsed = {0}
  InitialLast <- NoRequestYet
  Slow = 1
  Horizon = 60
  HardEnd = 1000
  FaultKinds = {}
  MaxFaults = 0
SPECIFICATION Spec
INVARIANTS
  LatestSnapshotFrozen
CHECK_DEADLOCK FALSE
