SPECIFICATION FairGatewaySpec
CONSTANTS
  r1 = r1
  r2 = r2
  p1 = p1
  Requests = {r1, r2}
  Prompts = {p1}
  Similar <- Everything
  Tiers <- OneTier
  Chain <- OneChain
  Requested = {"auto"}
  CacheSize = 1
  Settings <- OneSetting
  None = None
INVARIANTS
  GatewayTypeOK
  TouchesMatchBooks
  BooksAgreeWithLog
  AnswersAreLogged
PROPERTIES
  KeepsPromise
  NoStepBack
  EveryRequestIsAnswered
