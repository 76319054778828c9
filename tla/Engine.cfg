SPECIFICATION FairSpec
CONSTANTS
  Servers <- S3
  Keys <- K3
  SubKeys <- Subs
  HomeOf <- HomesAll
  Tasks <- T2
  NoTask = NoTask
  Inputs <- Inputs2
  CacheSize = 1
  FreeEarly = FALSE
CHECK_DEADLOCK FALSE
INVARIANTS
  TypeOK
  OneAnswer
  WaitsForSomething
PROPERTIES
  Promised
  Releases
