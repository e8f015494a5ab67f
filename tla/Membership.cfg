SPECIFICATION MCSpec
CONSTANTS
  u3 = u3
  u2 = u2
  u1 = u1
  r2 = r2
  r1 = r1
  Users = {u1, u2, u3}
  Reqs = {r1, r2}
  Ops = {"remove", "changeRole", "archive", "setStatus", "hardDelete", "leave", "transfer", "accept"}
  GrantRoles = {"ADMIN", "EDITOR"}
  Departing = {u3}
  Idle = Idle
SYMMETRY Symmetry
INVARIANTS
  AtMostOneOwner
  SerialProjectHasOwner
PROPERTIES
  ImplementsMembership
  SerialHierarchy
  SerialDeletedInOrder
\* Once the project is deleted nothing is left to do.
CHECK_DEADLOCK FALSE
