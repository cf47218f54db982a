SPECIFICATION Spec
CONSTANTS
  Drafts <- MCDrafts
  Executions <- MCExecutions
  MaxRegenerations = 2
  MAX_CODE_BLOCK_LINES = 3
  MAX_WORDS_LOGIC = 120
  MAX_WORDS_CODE = 160
  LogicFallback = counter
  CodeFallback = generic
  counter = counter
  generic = generic
  None = None
  Failure = Failure
  MaxLines = 6
  ShortLines = 2
INVARIANTS
  TypeOK
  ScanIsExact
  HiddenDataStays
PROPERTIES
  KeepsTutorPromise
CHECK_DEADLOCK FALSE
