SPECIFICATION Spec
CONSTANTS
  ResumeOrders = TRUE
  Kinds = {TRUE}
  MaxDays = 2
  MaxOwnerActs = 0
  MaxCrashes = 1
  MaxFaults = 0
  MaxUnits = 2
INVARIANTS
  NeverBoughtTwice
CHECK_DEADLOCK FALSE
