CONSTANTS
  first = first
  second = second
  Matches <- MCMatches
  Plan <- MCPlan
  Kickoff <- MCKickoff
  GameLength = 2
  Interval = 15
  Phases = {5, 7, 19}
  Horizon = 46
  FaultKinds = {"kill", "cut", "slow", "manual", "dry"}
  MaxFaults = 2
SPECIFICATION Spec
INVARIANTS
  FirstWriteWins
  MissedMeansAbsent
  ScheduleDecides
  ScoredOnce
CHECK_DEADLOCK FALSE
