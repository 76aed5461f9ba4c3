SPECIFICATION PromptSpec
CONSTANTS
  c1 = c1
  Callers = {c1}
  Configs <- OneConfig
  Threshold = 2
  Recovery = 2
  LongRecovery = 2
  Window = 4
  CallLimit = 1
  MaxFailures = 2
PROPERTY
  FailedProbeReopens
