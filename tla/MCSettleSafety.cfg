SPECIFICATION Spec
CONSTANTS
  Handlers = {h1, h2}
  Methods = {"eip3009", "permit2-exact"}
  Rotating = {"eip3009"}
  Lease = 2
  Stall = 1
  Hold = 6
  Land = 1
  ValidBefore = 4
  PendingTries = 2
  MaxGen = 2
  MaxFaults = 2
  MaxTime = 7
SYMMETRY Symmetry
INVARIANTS TypeOK PaymentHonoured OneSettler RateAgrees
PROPERTIES ImplementsPaidJob
