SPECIFICATION Spec
CONSTANTS
  w1 = w1
  w2 = w2
  t1 = t1
  t2 = t2
  quote = quote
  signature = signature
  cannedLogic = cannedLogic
  cannedCode = cannedCode
  Workers <- OneWorker
  Texts <- MCTexts
  Blank = Blank
  Drafts <- MCDrafts
  LogicLeaks <- MCLogicLeaks
  CodeLeaks <- MCCodeLeaks
  LogicFallback = cannedLogic
  CodeFallback = cannedCode
  MaxRegenerations = 1
  None = None
  SandboxBuckets <- MCBuckets
  CacheMayFail = FALSE
  MaxCalls = 3
  MaxCrashes = 0
  NoSession = NoSession
PROPERTIES
  EveryActionIsTaken
CHECK_DEADLOCK FALSE
