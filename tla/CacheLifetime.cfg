SPECIFICATION LifetimeSpec
CONSTANTS
  CacheTtl = 20
  Slowness = 3
  Calls = {r1, r2}
  NoEntry = NoEntry
  NoCall = NoCall
  r1 = r1  r2 = r2
SYMMETRY Symmetry
INVARIANTS
  StaleBounded
