SPECIFICATION FairSpec
CONSTANTS
  Handlers = {h1, h2}
  Methods = {"eip3009", "permit2-exact"}
  Rotating = {"eip3009"}
  Lease = 2
  Stall = 1
  Hold = 1
  Land = 1
  ValidBefore = 3
  PendingTries = 2
  MaxGen = 1
  MaxFaults = 1
  MaxTime = 10
PROPERTIES PaidGetsQueued
