SPECIFICATION Spec
CONSTANTS
  Nodes = {1, 2}
  Genesis = Genesis
  Committee <- Rotation
  CommitteeSize = 1
  MaxConfirmed = 2
  MaxRound = 2
  MaxBoots = 0
CHECK_DEADLOCK FALSE
INVARIANTS
  SameOrderEverywhere
