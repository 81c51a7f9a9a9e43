SPECIFICATION FairSpec
CONSTANTS
  MaxJobs = 2
  MaxTries = 2
  MaxCrashes = 1
  MayRevoke = TRUE
  EndpointOf <- One
  Kinds <- ToldKinds
  Models = {"cpu"}
  Remotes <- NoRemotes
  Nowhere = "nowhere"
  MaxStarts = 2
  Concurrency = 1
  LaneSlots = 0
  QueueMax = 0
  PassLimit = 1
  InFlight = 2
  Metal = {}
  Preloaded = {"cpu"}
  Engines = {TRUE}
  Overflows = {FALSE}
  MaxFaults = 0
INVARIANTS
  TriesCounted
PROPERTIES
  ClosedStays
  DeliveryEnds
CHECK_DEADLOCK FALSE
