SPECIFICATION FairSpec
CONSTANTS
  Users = {u1, u2}
  Invites = {i1, i2}
  Reqs = {r1, r2}
  InviteRoles = {"ADMIN", "VIEWER"}
  BatchSize = 2
  NoRole = NoRole
  NoRow = NoRow
  Idle = Idle
  u1 = u1  u2 = u2  i1 = i1  i2 = i2  r1 = r1  r2 = r2
INVARIANTS
  TypeOK
  OnePendingPerTarget
PROPERTIES
  AcceptanceIsMembership
  AnsweredOnce
  LapsedResolved
\* Nothing happens to the invitations of a project that is gone.
CHECK_DEADLOCK FALSE
