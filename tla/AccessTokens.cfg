SPECIFICATION Spec
CONSTANTS
  Second = 2
  Life = 3
  FamilyBan = 3
  Slowness = 1
  MaxTime = 8
  Tokens = {t1}
  Families = {f1}
  Reqs = {r1, r2}
  NoToken = NoToken
  Idle = Idle
  t1 = t1
  f1 = f1
  r1 = r1  r2 = r2
SYMMETRY Symmetry
PROPERTIES
  RevokedStaysOut
