SPECIFICATION Spec
CONSTANTS
  Servers = {10, 11, 12}
  Workers = {"a", "b", "c"}
  ServerOf <- ThreeServers
  Types = {"x"}
  SentTypes = {"x"}
  CrossPuts = FALSE
  ProbeLimit = 1
  MaxPuts = 1
  MaxAttempts = 1
CHECK_DEADLOCK FALSE
INVARIANTS
  SafeShutdown
