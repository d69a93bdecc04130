SPECIFICATION Spec
CONSTANTS
  Nodes = {1, 2}
  Genesis = Genesis
  Committee <- Rotation
  CommitteeSize = 2
  MaxConfirmed = 1
  MaxRound = 1
  MaxBoots = 1
CONSTRAINT RestartsOrLaterSteps
CHECK_DEADLOCK FALSE
INVARIANTS
  TypeOK
  CertificatesAreValid
  QuorumsAreNoticed
  CertifiedBatchesAreHeld
