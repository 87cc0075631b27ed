SPECIFICATION Spec
CONSTANTS
  Jobs = {j1, j2}
  Handlers = {h1}
  Contexts = {c1, c2}
  None = None
  Deals = {j1, j2}
  Demanding = {j1}
  MaxTracked = 1
  Slots = 1
  MayRestart = FALSE
  MaxFaults = 1
SYMMETRY Symmetry
INVARIANTS CoreConsistent ContextStable DoneIsDone ThreadsBounded
