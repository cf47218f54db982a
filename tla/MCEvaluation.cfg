SPECIFICATION FairSpec
CONSTANTS
  w1 = w1
  w2 = w2
  t1 = t1
  t2 = t2
  Workers <- MCWorkers
  Texts <- MCTexts
  Replies <- MCReplies
  MaxVersion = 2
  MaxStarts = 3
  None = None
INVARIANTS
  TypeOK
  RubricOfThisProcess
  StoredVerdictStands
PROPERTIES
  EveryEvaluationEnds
CHECK_DEADLOCK FALSE
