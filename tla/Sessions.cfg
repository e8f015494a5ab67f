SPECIFICATION MCSpec
CONSTANTS
  Tokens = {t1, t2, t3, t4}
  Families = {f1, f2}
  Reqs = {r1, r2}
  Ops = {"login", "rotate", "logout", "session", "everywhere", "password"}
  NoRow = NoRow
  None = None
  Idle = Idle
  t1 = t1  t2 = t2  t3 = t3  t4 = t4  f1 = f1  f2 = f2  r1 = r1  r2 = r2
SYMMETRY Symmetry
INVARIANTS
  RotatedIsSpent
  ForkHasTwoChildren
  SerialOneActive
PROPERTIES
  RetryServed
  SerialLogoutEndsAll
  SerialReuseEndsFamily
\* No token is left to issue and every session has ended.
CHECK_DEADLOCK FALSE
