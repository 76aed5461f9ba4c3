SPECIFICATION Spec
CONSTANTS
  c1 = c1
  c2 = c2
  c3 = c3
  Callers = {c1, c2, c3}
  Configs <- TwoConfigs
  Threshold = 2
  Recovery = 3
  LongRecovery = 4
  Window = 6
  CallLimit = 1
  MaxFailures = 3
SYMMETRY CallerSymmetry
INVARIANTS
  TypeOK
  SingleProbe
  QuietWhileOpen
  LateCallersHoldTheLock
PROPERTIES
  TripsAreEarned
  LateSuccessIsAProbe
