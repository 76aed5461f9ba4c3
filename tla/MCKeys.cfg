SPECIFICATION Spec
CONSTANTS
  k1 = k1
  k2 = k2
  k3 = k3
  Keys = {k1, k2, k3}
  Seeds <- TwoSeeds
  p1 = p1
  p2 = p2
  Replicas = {p1, p2}
  r1 = r1
  r2 = r2
  Requests = {r1, r2}
SYMMETRY Interchangeable
INVARIANTS
  TypeOK
  RevocationSticks
  UsageIsCounted
  SeedsArePlanted
PROPERTY
  ServedInGrace
