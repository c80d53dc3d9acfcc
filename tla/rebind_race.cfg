SPECIFICATION Spec
CONSTANTS
  ResumeOrders = TRUE
  Kinds = {TRUE}
  MaxDays = 2
  MaxOwnerActs = 1
  MaxCrashes = 0
  MaxFaults = 0
  MaxUnits = 2
PROPERTIES
  DecidesOnlyVerified
CHECK_DEADLOCK FALSE
