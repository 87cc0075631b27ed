SPECIFICATION Spec
CONSTANTS
  Callers = {c1, c2}
  Ids = {j1, j2}
  NoId = NoId
  Capacity = 1
  Window = 3
  Second = 2
  MaxAttempts = 2
  MaxDelay = 1
  MaxTime = 6
  MaxHanded = 2
SYMMETRY Symmetry
INVARIANTS TypeOK AdmissionsKept RollingAdmissions RetryAfterFrees
PROPERTIES ImplementsRateLimit
