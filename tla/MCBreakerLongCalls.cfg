SPECIFICATION PromptSpec
CONSTANTS
  c1 = c1
  c2 = c2
  Callers = {c1, c2}
  Configs <- OneConfig
  Threshold = 1
  Recovery = 2
  LongRecovery = 2
  Window = 2
  CallLimit = 2
  MaxFailures = 2
SYMMETRY CallerSymmetry
INVARIANT
  SingleProbe
