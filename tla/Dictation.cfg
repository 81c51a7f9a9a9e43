SPECIFICATION Spec
CONSTANTS
  MaxSessions = 2
  MaxPackets = 2
  MaxKeys = 2
  PressInRoll = FALSE
INVARIANTS
  TypeOK
  AudioIsItsOwn
  EndsOnce
  SendsItsOwn
PROPERTIES
  KeysAreTheirs
CHECK_DEADLOCK FALSE
