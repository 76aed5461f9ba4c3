SPECIFICATION Spec
CONSTANTS
  a = a
  b = b
  c1 = c1
  c2 = c2
  c3 = c3
  Replicas = {a, b}
  Calls = {c1, c2, c3}
  CacheSeconds = 2
  MaxTime = 5
SYMMETRY Interchangeable
INVARIANTS
  TypeOK
  BoundedStaleness
  UpdateSeesItself
