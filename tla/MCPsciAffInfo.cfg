CONSTANTS
  Caller = {c1, c2}
  c1 = c1
  c2 = c2
  None = None
SPECIFICATION Spec
INVARIANTS PendingReachesMemory
PROPERTIES ReadsAreCurrent
