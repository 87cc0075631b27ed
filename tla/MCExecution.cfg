CHECK_DEADLOCK FALSE
SPECIFICATION FairSpec
CONSTANTS
  Replicas = {r1, r2}
  Owners = {o1, o2, o3}
  None = None
  Outcomes = {"report", "empty"}
  MaxAttempts = 2
  Drives = 2
  MaxFaults = 1
INVARIANTS TypeOK LeaseFenced RecordSound
PROPERTIES ImplementsPaidWork JobMovesOn
