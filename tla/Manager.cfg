SPECIFICATION Spec
CONSTANTS
  r1 = r1
  r2 = r2
  r3 = r3
  r4 = r4
  Nobody = Nobody
  Requests <- Four
  OldCalls = 1
  MaxCalls = 3
  Workspaces <- TwoFolders
  MeetStarts = FALSE
SYMMETRY Symmetry
INVARIANTS
  TypeOK
  OneLive
  OneWriter
  KnownIsReal
