SPECIFICATION HistorySpec
CONSTANTS
  r1 = r1
  r2 = r2
  p1 = p1
  p2 = p2
  Requests = {r1, r2}
  Prompts = {p1, p2}
  Similar <- Everything
  Tiers <- TwoTiers
  Chain <- TwoChains
  Requested = {"auto", "gpt-4o"}
  CacheSize = 1
  Settings <- OneSetting
  None = None
PROPERTIES
  ForcedModelIsCalled
