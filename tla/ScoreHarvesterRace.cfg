CONSTANTS
  f1 = f1
  f2 = f2
  none = none
  late = late
  r1 = r1
  r2 = r2
  Predictions <- MCPredictions
  Kickoff <- MCKickoff
  Results <- MCResults
  Universe <- TwoFixtures
  Drivers = {"task", "watchdog"}
  InitialScored <- NothingScored
  FaultKinds = {"kill", "cut"}
  MaxFaults = 1
  MaxChanges = 1
SYMMETRY ResultSymmetry
SPECIFICATION Spec
INVARIANTS
  LedgerSound
  OnlyPublished
