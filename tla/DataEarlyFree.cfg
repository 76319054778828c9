SPECIFICATION Spec
CONSTANTS
  Servers <- S2
  Clients <- C2
  Home <- MCHome
  MyServer <- MCMyServer
  Programs <- EarlyProgram
  ReadRefc = TRUE
INVARIANT Survives
CHECK_DEADLOCK FALSE
