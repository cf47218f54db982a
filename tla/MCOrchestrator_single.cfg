SPECIFICATION Spec
CONSTANTS
  w1 = w1
  w2 = w2
  t1 = t1
  t2 = t2
  quote = quote
  signature = signature
  cannedLogic = cannedLogic
  cannedCode = cannedCode
  Workers <- OneWorker
  Texts <- MCTexts2
  Blank = Blank
  Drafts <- MCDrafts
  LogicLeaks <- MCLogicLeaks
  CodeLeaks <- MCCodeLeaks
  LogicFallback = cannedLogic
  CodeFallback = cannedCode
  MaxRegenerations = 1
  None = None
  SandboxBuckets <- MCBuckets
  CacheMayFail = FALSE
  MaxCalls = 5
  MaxCrashes = 1
  NoSession = NoSession
INVARIANTS
  TypeOK
  StatusMatchesPhase
  EveryTurnAnswered
  AttemptsMatchTranscript
  OneVerdictPerText
  ShownTranscriptSurvives
PROPERTIES
  KeepsPromise
SYMMETRY TextSymmetry
CHECK_DEADLOCK FALSE
