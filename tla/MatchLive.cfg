SPECIFICATION LiveSpec
CONSTANTS
  Workers = {1, 2}
  Types = {"t"}
  Host <- MCHost
  Idx = {i1, i2}
  IntMin <- MCIntMin
  Penalty = 2
  Plans <- LivePlans
PROPERTIES
  AllDelivered
CHECK_DEADLOCK FALSE
