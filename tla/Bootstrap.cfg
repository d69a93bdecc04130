SPECIFICATION Spec
CONSTANTS
  NoPeer = NoPeer
  Missing = Missing
  Torn = Torn
  Validators = {v1, v2}
  AddressSize = 20
  PublicKeySize = 1312
  SubCommitteeSize = 6
CHECK_DEADLOCK FALSE
INVARIANT ElectionsHaveALeader
