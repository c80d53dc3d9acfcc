SPECIFICATION FairSpec
CONSTANTS
  ResumeOrders = TRUE
  Kinds = {TRUE}
  MaxDays = 2
  MaxOwnerActs = 1
  MaxCrashes = 0
  MaxFaults = 0
  MaxUnits = 1
PROPERTIES
  OrderPathConverges
  PendingClears
CHECK_DEADLOCK FALSE
