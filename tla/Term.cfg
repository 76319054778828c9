SPECIFICATION LiveSpec
CONSTANTS
  Servers = {10, 11}
  Workers = {"a", "b", "c"}
  ServerOf <- TwoServers
  Types = {"x"}
  SentTypes = {"x"}
  CrossPuts = TRUE
  ProbeLimit = 1
  MaxPuts = 2
  MaxAttempts = 4
CHECK_DEADLOCK FALSE
INVARIANTS
  SafeShutdown
  RoundInv
PROPERTIES
  IdleShutsDown
  StealMatches
