SPECIFICATION FairSpec
CONSTANTS
  TestCount = 2
  HostedAnswers <- MCHostedAnswers
  LocalAnswers <- MCLocalAnswers
  MaxPolls = 3
INVARIANTS
  TypeOK
  WorstWins
  AcceptedMeansAllPassed
  OnlyJudgedRunsCount
  QuotaKept
PROPERTIES
  EveryRunEnds
CHECK_DEADLOCK FALSE
