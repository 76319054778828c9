SPECIFICATION Spec
CONSTANTS
  N = 2
  MaxClient = 2
  MaxSent = 2
  ClientModes = {"REQUEST", "REFCOUNT", "SUBSCRIBE", "NOTIFY"}
  Rpcs = {"STORE", "PUT"}
  Preacquire = TRUE
  Requesters = {1, 2}
  StealLimit = 1
  IdleChecks = TRUE
INVARIANTS
  TypeOK
  SyncInv
  NoCircularWait
  RefcountsInOrder
  ProbeExpected
CHECK_DEADLOCK FALSE
