SPECIFICATION Spec
CONSTANTS
  r1 = r1
  r2 = r2
  r3 = r3
  Requests = {r1, r2, r3}
  Configs <- OneConfig
  Limit = 1
  Window = 2
  LongWindow = 2
  Concurrency = 2
  MaxTime = 2
SYMMETRY RequestSymmetry
CHECK_DEADLOCK FALSE
INVARIANT
  AtMostLimit
