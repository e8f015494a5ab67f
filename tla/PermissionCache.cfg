SPECIFICATION Spec
CONSTANTS
  Users = {u1, u2}
  Founder = u1
  GrantRoles = {"ADMIN"}
  Reads = {r1}
  Writes = {w1}
  StatusKey = StatusKey
  Absent = Absent
  Idle = Idle
  u1 = u1  u2 = u2  r1 = r1  r2 = r2  w1 = w1  w2 = w2
SYMMETRY Symmetry
INVARIANTS
  StaleHasCause
  GrantWasHeld
