SPECIFICATION Spec
CONSTANTS
  a = a
  b = b
  c = c
  d = d
  NoStart = NoStart
  Starts <- Four
  Worlds <- Both
  MaxAlive = 2
  DieMidway = FALSE
INVARIANTS
  TypeOK
  MutualExclusion
  HolderHasLock
CHECK_DEADLOCK FALSE
