SPECIFICATION Spec
CONSTANTS
  Workers = {1, 2, 3}
  Types = {"t"}
  Host <- MCHost
  Idx = {i1, i2, i3}
  IntMin <- MCIntMin
  Penalty = 2
  Plans <- SafePlans
SYMMETRY IdxSymmetry
INVARIANTS
  UnitsConserved
  NoUnitOrphaned
  NoWorkWithheld
  NoParallelWithheld
  HardTargetsKept
  QueuesConsistent
  BlockedExact
  WorkersIdleExact
PROPERTIES
  PriorityKept
CHECK_DEADLOCK FALSE
