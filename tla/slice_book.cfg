SPECIFICATION Spec
CONSTANTS
  Symbols = {stock, option}
  Shorts = {option}
  Options = {option}
  Sizes = {2}
  Freeze = 1
  MaxActions = 2
  MaxLots = 2
  MaxSlices = 2
  MaxJobs = 1
  MaxFaults = 1
INVARIANTS
  TypeOK
  StopsGuardTheirLots
  LogsMatchBook
  AccountMatchesBook
  HandedOver
  FlattenLeavesNothing
CHECK_DEADLOCK FALSE
