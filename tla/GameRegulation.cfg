SPECIFICATION FairSpec
CONSTANTS
  none = none
  h1 = h1  h2 = h2  h3 = h3  h4 = h4  hp = hp  hs = hs  hr = hr
  a1 = a1  a2 = a2  a3 = a3  a4 = a4  ap = ap  ar = ar
  Nobody = none
  Player <- MCPlayer
  Pitcher <- MCPitcher
  Reliever <- MCReliever
  Card <- MCCard
  FreshLeft <- MCFreshLeft
  Refill <- MCRefill
  LineupSize = 5
  LastInning = 2
  OutsPerHalf = 2
  BlowoutRuns = 4
  ShakyRuns = 2
  Exhausted = 4
INVARIANTS
  TypeOK
  CardsInOrder
  BatterFacesMound
  TakenOutForGood
  ListMatchesHash
  RunnersInOrder
  AbortOnlyWithoutRelief
PROPERTIES
  NobodyVanishes
  FollowsRules
  Terminates
CHECK_DEADLOCK FALSE
