SPECIFICATION FairSpec
CONSTANTS
  N = 2
  MaxClient = 2
  MaxSent = 2
  ClientModes = {"REQUEST", "REFCOUNT"}
  Rpcs = {"PUT"}
  Preacquire = FALSE
  Requesters = {1, 2}
  StealLimit = 1
  IdleChecks = TRUE
PROPERTIES
  SyncEnds
  AllGoDown
CHECK_DEADLOCK FALSE
