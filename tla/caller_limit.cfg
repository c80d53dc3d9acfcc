SPECIFICATION Spec
CONSTANTS
  Quantities = {1, 2}
  Touches = {1, 3}
  Limits = {2, 4}
  Ladder <- MCLadder
  Rungs = 2
  RetryAfterCancel = TRUE
  MaxOrdersPerDay = 2
  MaxNotional = 4
  LagReads = 1
  MaxRequests = 2
INVARIANTS
  CallersLimitHeld
