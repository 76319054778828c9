SPECIFICATION FairSpec
CONSTANTS
  Servers <- S2
  Clients <- C2
  Home <- MCHome
  MyServer <- MCMyServer
  Programs <- MCPrograms
  ReadRefc = TRUE
INVARIANTS
  TypeOK
  Conserved
  NotifiedOnce
  OneCreates
PROPERTIES
  Told
CHECK_DEADLOCK FALSE
