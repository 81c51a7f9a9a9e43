SPECIFICATION Spec
CONSTANTS
  MaxWrites = 6
  MaxCrashes = 2
  MaxPower = 1
  MaxErrors = 2
INVARIANTS
  TypeOK
  SyncedStays
  SeqsGrow
  TailTellsAll
CHECK_DEADLOCK FALSE
