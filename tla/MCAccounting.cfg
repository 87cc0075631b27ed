SPECIFICATION AccountingFairSpec
CONSTANTS
  Replicas = {r1, r2}
  Attempts = 2
  Posts = 2
  MaxLosses = 4
CHECK_DEADLOCK FALSE
INVARIANTS AccountingTypeOK MarkerMeansDelivered
PROPERTIES EventuallyReported
