SPECIFICATION Spec
CONSTANTS
  Objects = {o1, o2, o3}
  Loops = {l1, l2, l3}
  Ticks = {t1, t2}
  NoObject = NoObject
  NoLoop = NoLoop
  MaxActs = 4
  MaxCrashes = 1
  MaxFaults = 1
  MaxUnits = 1
  MaxDisturbed = 1
INVARIANTS
  TypeOK
  NoOrphanLoop
  OneDecider
  BookIsAccount
  RowTellsTheTruth
PROPERTIES
  DeadLoopsComeBack
  PausedGoesQuiet
CHECK_DEADLOCK FALSE
