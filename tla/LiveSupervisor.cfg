CONSTANTS
  early = early
  late = late
  Instances = {1, 2}
  MaxSessions = 2
  Matches <- MCMatches
  Kickoff <- MCKickoff
  GameLength = 2
  Duration = 47
  MaxCredits = 3
  LaunchTimes = {0}
  Outage = 1
  Horizon = 48
  FaultKinds = {"kill", "cut", "slow", "lost", "status", "denied", "overlap", "twin"}
  MaxFaults = 2
SPECIFICATION Spec
INVARIANTS
  SessionCeiling
  CapturedOnce
  DoneIsOnFile
  WindowsFire
  ResultsRecorded
CHECK_DEADLOCK FALSE
