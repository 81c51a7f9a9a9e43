SPECIFICATION Spec
CONSTANTS
  MaxPart = 4
  Limit = 1
  MaxHolds = 1
  MaxFuel = 2
  EndingRaces = {}
INVARIANTS
  TypeOK
  WriterWhileNeeded
  PauseAndMuteSurvive
  LogTellsStatus
  OverIsOver
  CapturesWhileTaking
  FailedRestartsRetried
  RestartOverlaps
PROPERTIES
  LogSpec
  LifeSpec
  NoTransitionError
