CONSTANTS
  m1 = m1
  m2 = m2
  v1 = v1
  v2 = v2
  w1 = w1
  w2 = w2
  Matches <- MCMatches
  Versions <- MCVersions
  Workers <- MCWorkers
  FaultKinds = {"kill", "cut", "update", "overlap"}
  MaxFaults = 2
  MaxRuns = 3
SPECIFICATION Spec
SYMMETRY Symmetry
INVARIANTS
  IndexBacked
  LakeRepaired
PROPERTY
  EntriesKept
CHECK_DEADLOCK FALSE
