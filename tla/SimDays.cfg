SPECIFICATION Spec
CONSTANTS
  p1 = p1
  p2 = p2
  p3 = p3
  Pitcher <- MCPitcher
  MaxBatters <- MCMaxBatters
  Refill <- MCRefill
  PitchersOf <- MCPitchersOf
  Games = 2
  LastDay = 2
  MaxLaunches = 2
  FirstGame = 2
  Season = FALSE
  ReaderFails = TRUE
INVARIANTS TypeOK OnlyFinishedRecorded
PROPERTIES RestsLikeStaff DayEnds NextDayIsNew
