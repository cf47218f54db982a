SPECIFICATION Spec
CONSTANTS
  s1 = s1
  s2 = s2
  c1 = c1
  c2 = c2
  c3 = c3
  States <- MCStates
  Callbacks <- MCCallbacks
  STATE_TTL = 2
  MaxTime = 4
  None = None
INVARIANTS
  TypeOK
  OnlyOneTtlKept
PROPERTIES
  KeepsLoginPromise
CHECK_DEADLOCK FALSE
