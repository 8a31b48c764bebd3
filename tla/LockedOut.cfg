CONSTANTS
  c1 = c1
  c2 = c2
  Client = {c1, c2}
  Name = {"n"}
  TeamId = {1, 2}
  NumberOfTeams = 2
  LastPosition = 2
  Slots = 2
  Rounds <- MCRounds
  Year = {0, 1, 2}
  MaxRank = 4
  Pools <- MCPools
  MaxRuns = 2
  ScriptDies = TRUE
CHECK_DEADLOCK FALSE
SPECIFICATION Spec
PROPERTIES
  ToldOwnersOwn
