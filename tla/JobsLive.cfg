SPECIFICATION FairSpec
CONSTANTS
  MaxJobs = 2
  MaxTries = 1
  MaxCrashes = 1
  MayRevoke = FALSE
  EndpointOf <- Apart
  Kinds <- ThereKinds
  Models = {"cpu"}
  Remotes <- OneRemote
  Nowhere = "nowhere"
  MaxStarts = 2
  Concurrency = 1
  LaneSlots = 0
  QueueMax = 0
  PassLimit = 1
  InFlight = 1
  Metal = {}
  Preloaded = {}
  Engines = {TRUE}
  Overflows = {FALSE}
  MaxFaults = 1
PROPERTIES
  EveryJobEnds
CHECK_DEADLOCK FALSE
