CONSTANTS
  t1 = t1
  t2 = t2
  t3 = t3
  t4 = t4
  Team <- MCTeam
  TeamIds <- MCTeamIds
  Weeks = 3
  schedule_grid <- MCGrid
  NumSeries = 4
  GAMES_PER_SERIES = 1
  Pitcher <- MCPitcher
  TeamOf <- MCTeamOf
  MaxBatters <- MCMaxBatters
  Refill <- MCRefill
  HashCapacity = 2
  LastDay = 4
  PipeGames = 2
  ReaderFails = TRUE
SPECIFICATION Spec
INVARIANTS
  DrawnEvenly
  EveryTeamPlaysDaily
  NothingLost
  SeasonOrNothing
PROPERTIES
  RestsLikeStaff
  SeasonEnds
