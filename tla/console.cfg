SPECIFICATION Spec
CONSTANTS
  Contracts = {k1, k2}
  Lots = {1}
  Minutes = {1, 2, 4, 5}
  ExpiryDay = 2
  ExpiryAt = 3
  Overnight = 5
  MaxOrders = 3
  MaxHeld = 2
  MaxUpsets = 1
SYMMETRY Strikes
INVARIANTS
  TypeOK
  RewindUnwinds
  NothingOutlivesExpiry
  FileKeepsTheTrades
PROPERTIES
  UndoTakesBackTheAction
