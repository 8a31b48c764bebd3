SPECIFICATION Spec
CONSTANTS
  p1 = p1
  p2 = p2
  p3 = p3
  Pitcher <- MCPitcher
  MaxBatters <- MCMaxBatters
  Refill <- MCRefill
  PitchersOf <- MCPitchersOf
  Games = 2
  LastDay = 3
  MaxLaunches = 1
  FirstGame = 2
  Season = TRUE
  ReaderFails = FALSE
INVARIANTS SettledDayIsRecorded StatsFollowResults TableLagsMemory
PROPERTIES RestsLikeStaff
