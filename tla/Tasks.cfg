SPECIFICATION MCSpec
CONSTANTS
  u1 = u1
  u2 = u2
  u3 = u3
  r1 = r1
  r2 = r2
  Users = {u1, u2, u3}
  Founder = u1
  Reqs = {r1, r2}
  Ops = {"create", "delete", "selfAssign", "assign", "unassign", "review", "cancelReview", "complete", "cancelComplete"}
  Nobody = Nobody
  GrantRoles = {"EDITOR", "VIEWER"}
  Departing = {u3}
  Idle = Idle
SYMMETRY Symmetry
INVARIANTS
  AssigneeExists
  SerialStartedWhenAssigned
PROPERTIES
  DeletedStaysDeleted
  OnlyManagersReassign
  SerialStatusFollowsWorkflow
  SerialAssigneeFixedInReview
