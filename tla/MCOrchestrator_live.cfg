SPECIFICATION FairSpec
CONSTANTS
  w1 = w1
  w2 = w2
  t1 = t1
  t2 = t2
  quote = quote
  signature = signature
  cannedLogic = cannedLogic
  cannedCode = cannedCode
  Workers <- OneWorker
  Texts <- MCTexts
  Blank = Blank
  Drafts <- MCDrafts
  LogicLeaks <- MCLogicLeaks
  CodeLeaks <- MCCodeLeaks
  LogicFallback = cannedLogic
  CodeFallback = cannedCode
  MaxRegenerations = 2
  None = None
  SandboxBuckets <- MCBuckets
  CacheMayFail = TRUE
  MaxCalls = 4
  MaxCrashes = 1
  NoSession = NoSession
PROPERTIES
  EveryRequestAnswered
CHECK_DEADLOCK FALSE
