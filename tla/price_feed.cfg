SPECIFICATION Spec
CONSTANTS
  Readers = {r1, r2}
  Symbols = {nifty, vix}
  Asked = {{nifty, vix}}
  Stale = 0
  MaxClock = 1
  MaxTokens = 2
  MaxSockets = 2
  MaxDrops = 1
SYMMETRY Alike
INVARIANTS
  TypeOK
  ServedFresh
  KnownIsSubscribed
  NoStraySocket
CHECK_DEADLOCK FALSE
