SPECIFICATION Spec
CONSTANTS
  MaxPart = 4
  Limit = 1
  MaxHolds = 0
  MaxFuel = 1
  EndingRaces = {"restart"}
INVARIANTS
  LogTellsStatus
CHECK_DEADLOCK FALSE
