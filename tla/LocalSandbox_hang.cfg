SPECIFICATION FairSpec
CONSTANTS
  PipeCapacity = 1
  MaxStdin = 2
  MaxOutput = 2
  MaxCaptured = 1
  MayFork = FALSE
PROPERTIES
  HardTimeout
CHECK_DEADLOCK FALSE
