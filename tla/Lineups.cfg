CONSTANTS
  Team = 1
  Slots = 2
  Turns = 3
  Squad <- MCSquad
SPECIFICATION Spec
INVARIANTS
  OneNextStarter
  OneManEach
  PitcherFollowsRotation
PROPERTIES
  RotationTurns
