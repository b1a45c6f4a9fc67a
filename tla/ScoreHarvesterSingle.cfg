CONSTANTS
  f1 = f1
  f2 = f2
  none = none
  late = late
  r1 = r1
  r2 = r2
  Predictions <- MCPredictions
  Kickoff <- MCKickoff
  Results <- MCResults
  Universe <- ThreeFixtures
  Drivers = {"task"}
  InitialScored <- FirstScored
  FaultKinds = {"offline", "kill"}
  MaxFaults = 1
  MaxChanges = 1
SPECIFICATION FairSpec
PROPERTIES
  LedgerSpec
  StaleLockRecovered
  EveryFinalScored
