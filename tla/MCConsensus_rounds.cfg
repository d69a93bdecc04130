SPECIFICATION Spec
CONSTANTS
  Nodes = {1, 2}
  Genesis = Genesis
  Committee <- Rotation
  CommitteeSize = 2
  MaxConfirmed = 2
  MaxRound = 2
  MaxBoots = 1
CONSTRAINT LaterStepsOrBatches
CHECK_DEADLOCK FALSE
INVARIANT ConfirmedOnce
PROPERTY NodesMoveForward
