SPECIFICATION PromptLogSpec
CONSTANTS
  c1 = c1
  c2 = c2
  Callers = {c1, c2}
  Configs <- OneConfig
  Threshold = 2
  Recovery = 3
  LongRecovery = 3
  Window = 4
  CallLimit = 1
  MaxFailures = 2
  LogSize = 1
INVARIANT
  TripsAreReported
