SPECIFICATION HistorySpec
CONSTANTS
  r1 = r1
  r2 = r2
  p1 = p1
  p2 = p2
  Requests = {r1, r2}
  Prompts = {p1, p2}
  Similar <- Everything
  Tiers <- TwoTiers
  Chain <- TwoChains
  Requested = {"auto"}
  CacheSize = 1
  Settings <- TwoSettings
  None = None
SYMMETRY Interchangeable
INVARIANTS
  HistoryTypeOK
  ResponsesAreOwed
  WarmRequestsAreFree
  NoHopForgotten
  BooksBalance
PROPERTIES
  DisabledIsQuiet
