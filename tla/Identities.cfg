SPECIFICATION MCSpec
CONSTANTS
  Users = {u1, u2}
  Subjects = {s1}
  Codes = {c1, c2}
  Reqs = {r1, r2}
  None = None
  Idle = Idle
  u1 = u1  u2 = u2  s1 = s1  c1 = c1  c2 = c2  r1 = r1  r2 = r2
SYMMETRY Symmetry
INVARIANTS
  TypeOK
  LoginOpensOneAccount
  PasswordIsOwn
  SerialHasLogin
PROPERTIES
  SerialCodeSpentOnce
