SPECIFICATION Spec
CONSTANTS
  MaxJobs = 3
  MaxTries = 1
  MaxCrashes = 2
  MayRevoke = FALSE
  EndpointOf <- Apart
  Kinds <- HereKinds
  Models = {"cpu", "gpu"}
  Remotes <- NoRemotes
  Nowhere = "nowhere"
  MaxStarts = 2
  Concurrency = 2
  LaneSlots = 1
  QueueMax = 0
  PassLimit = 1
  InFlight = 2
  Metal = {"gpu"}
  Preloaded = {"gpu"}
  Engines = {TRUE}
  Overflows = {FALSE}
  MaxFaults = 0
INVARIANTS
  TypeOK
  HeldOnce
  WorkConserving
  MetalAlone
  RestartsBounded
  UploadsKept
CHECK_DEADLOCK FALSE
