SPECIFICATION FairSpec
CONSTANTS
  PipeCapacity = 1
  MaxStdin = 2
  MaxOutput = 2
  MaxCaptured = 1
  MayFork = TRUE
INVARIANTS
  TypeOK
  VerdictIsTheProgrammes
  ResultComesLast
PROPERTIES
  FullPipesDrain
  SmallRunsEnd
CHECK_DEADLOCK FALSE
