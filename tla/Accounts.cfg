SPECIFICATION Spec
CONSTANTS
  Users = {u1}
  Tasks = {t1}
  Sessions = {s1, s2, s3}
  Restores = {x1}
  Reqs = {r1, r2}
  Batch = 1
  MaxBatches = 1
  MaxOld = 0
  None = None
  Idle = Idle
  u1 = u1
  t1 = t1
  s1 = s1  s2 = s2  s3 = s3
  x1 = x1
  r1 = r1  r2 = r2
INVARIANTS
  TypeOK
  GraceSessionsAreLate
PROPERTIES
  ServedTokenIsRefused
  PurgedWhenDue
