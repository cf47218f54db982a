SPECIFICATION FairSpec
CONSTANTS
  Slots = {s1, s2}
  MaxActions = 3
  None = None
INVARIANTS
  TypeOK
  BusyWhileAwaiting
  IdlePageIsCurrent
PROPERTIES
  ConflictOnlyWhenBehind
  BusyEnds
CHECK_DEADLOCK FALSE
