SPECIFICATION FairSpec
CONSTANTS
  MaxPart = 3
  Limit = 1
  MaxHolds = 0
  MaxFuel = 1
  EndingRaces = {}
PROPERTY
  RequestsEnd
CHECK_DEADLOCK FALSE
