SPECIFICATION FairSpec
CONSTANTS
  c1 = c1
  c2 = c2
  Callers = {c1, c2}
  Configs <- TwoConfigs
  Threshold = 2
  Recovery = 3
  LongRecovery = 4
  Window = 4
  CallLimit = 1
  MaxFailures = 3
PROPERTY
  Recovers
