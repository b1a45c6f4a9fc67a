CONSTANTS
  early = early
  late = late
  Matches <- MCMatches
  Kickoff <- MCKickoff
  Priced <- TargetsPrice
  Answers <- OftenPartial
  MaxCredits = 2
  InitialUsed = {0}
  InitialLast <- NoRequestYet
  Slow = 1
  Horizon = 30
  HardEnd = 20
  FaultKinds = {"halt", "unbilled", "lost", "kill"}
  MaxFaults = 2
SPECIFICATION Spec
INVARIANTS
  DamageBound
  LedgerSound
  RowsHaveSnapshot
CHECK_DEADLOCK FALSE
