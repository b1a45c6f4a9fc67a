CONSTANTS
  Teams <- MCTeams
  Games <- MCGames
  Scores <- MCScores
  Listings <- MCListings
  Conduct <- MCConduct
  FifaRank <- MCFifaRank
  Named <- MCNamed
  Times <- MCTimes
  MaxEvents = 3
SPECIFICATION Spec
INVARIANTS
  OfficialOrder
  GoalsNeverHurt
  ReadingsAgree
CHECK_DEADLOCK FALSE
