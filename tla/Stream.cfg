SPECIFICATION LiveSpec
CONSTANTS
  Units = {"a", "b", "c", "p", "q"}
  Par = {"p", "q"}
  Chunk = 2
  NServers = 3
  ProbeLimit = 2
  MaxFailed = 2
INVARIANTS
  StealComplete
PROPERTIES
  TotalsExact
  StealTerminates
