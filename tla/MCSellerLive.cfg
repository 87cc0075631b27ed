SPECIFICATION RetrySpec
CONSTANTS
  Jobs = {j1}
  Handlers = {h1, h2}
  Contexts = {c1}
  None = None
  Deals = {j1}
  Demanding = {}
  MaxTracked = 1
  Slots = 1
  MayRestart = TRUE
  MaxFaults = 1
INVARIANTS VerifiedHasContext
PROPERTIES AcceptedGetsWorked FundedGetsDelivered
