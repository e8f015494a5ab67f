SPECIFICATION Spec
CONSTANTS
  Users = {u1, u2}
  Tasks = {t1}
  Sessions = {}
  Restores = {x1}
  Reqs = {r1}
  Batch = 1
  MaxBatches = 2
  MaxOld = 3
  None = None
  Idle = Idle
  u1 = u1  u2 = u2
  t1 = t1
  x1 = x1
  r1 = r1
PROPERTIES
  DueIsSettled
  ExpiredTokensGo
