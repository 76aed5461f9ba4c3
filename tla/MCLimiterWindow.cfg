SPECIFICATION Spec
CONSTANTS
  r1 = r1
  r2 = r2
  r3 = r3
  r4 = r4
  Requests = {r1, r2, r3, r4}
  Configs <- TwoConfigs
  Limit = 2
  Window = 2
  LongWindow = 3
  Concurrency = 2
  MaxTime = 4
SYMMETRY RequestSymmetry
CHECK_DEADLOCK FALSE
INVARIANTS
  TypeOK
  RecentAreCounted
  WindowBounded
PROPERTIES
  RetryFindsRoom
  ImplementsSlidingWindow
