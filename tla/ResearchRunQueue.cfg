CONSTANTS
  N = 2
  Critical = {1}
  MaxApi = 2
  FaultKinds <- AllFaults
  MaxFaults = 2
SPECIFICATION FairSpec
INVARIANTS
  CriticalGate
  BudgetDamage
PROPERTIES
  CompletedStays
  SummaryCoversQueue
  CrashResumed
