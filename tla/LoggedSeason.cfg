SPECIFICATION LogSpec
CONSTANTS
  none = none
  h1 = h1  h2 = h2  h3 = h3  h4 = h4  hp = hp  hs = hs  hr = hr
  a1 = a1  a2 = a2  a3 = a3  a4 = a4  ap = ap  ar = ar
  Nobody = none
  Player <- MCPlayer
  Pitcher <- MCPitcher
  Reliever <- MCReliever
  Card <- MCSeasonCard
  FreshLeft <- MCTired
  Refill <- MCRefill
  LineupSize = 5
  LastInning = 1
  OutsPerHalf = 2
  BlowoutRuns = 2
  ShakyRuns = 1
  Exhausted = 3
  QualifyOuts = 1
  Bats <- MCBats
  Throws <- MCThrows
  MaxGames = 2
INVARIANTS
  ScoreMatches
  BoxFollowsGame
  PitchingAddsUp
  DecisionsFollowLead
  ResultRecorded
CHECK_DEADLOCK FALSE
