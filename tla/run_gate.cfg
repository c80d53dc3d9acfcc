SPECIFICATION Spec
CONSTANTS
  ResumeOrders = TRUE
  Kinds = {FALSE}
  MaxDays = 2
  MaxOwnerActs = 1
  MaxCrashes = 1
  MaxFaults = 1
  MaxUnits = 1
INVARIANTS
  TypeOK
  VerifiedUnlessRaced
  NeverOversold
  RestartLosesOneDecision
  DecidesOnceUndisturbed
CHECK_DEADLOCK FALSE
