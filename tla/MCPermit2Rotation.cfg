SPECIFICATION Spec
CONSTANTS
  Handlers = {h1, h2}
  Methods = {"permit2-exact"}
  Lease = 2
  Stall = 1
  Hold = 6
  Land = 1
  ValidBefore = 4
  Rotating = {"permit2-exact"}
  PendingTries = 2
  MaxGen = 2
  MaxFaults = 1
  MaxTime = 7
SYMMETRY Symmetry
PROPERTIES RecoveryAsksFacilitator
