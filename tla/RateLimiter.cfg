SPECIFICATION LimiterSpec
CONSTANTS
  Last = 2
  Window <- MCWindow
  Count <- MCCount
  Lag = 1
  Horizon = 6
  Calls = {r1, r2}
  NoCall = NoCall
  NotYet = NotYet
  r1 = r1  r2 = r2
SYMMETRY Symmetry
INVARIANTS
  LimitHolds
PROPERTIES
  RefusedForCause
