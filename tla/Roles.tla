------------------------------- MODULE Roles -------------------------------
(***************************************************************************)
(* The roles of a project's members and the hierarchy check every handler  *)
(* that manages another member calls (services/permission_check.py).       *)
(***************************************************************************)
EXTENDS Naturals

UserRole == {"OWNER", "ADMIN", "EDITOR", "VIEWER"}

\* Python's None: no row in user_project_relation, or an argument left out.
NoRole == "NONE"

RoleOrNone == UserRole \cup {NoRole}

\* The roles verify_user_hierarchy lets nobody but the owner handle.
Senior == {"ADMIN", "OWNER"}

\* verify_user_hierarchy returns (TRUE) or raises ForbiddenError (FALSE):
\* `curr` acts on a member who holds `relation` and would give him `new`.
\* Mutant: only the new role is checked, not the one the member holds.
HierarchyOfNewRole(curr, relation, new) ==
  curr # relation /\ (curr = "OWNER" \/ new \notin Senior)
HierarchyAllows(curr, relation, new) ==
  /\ curr # relation
  /\ \/ curr = "OWNER" /\ new # "OWNER"
     \/ relation \notin Senior /\ new \notin Senior

\* The order OWNER > ADMIN > EDITOR > VIEWER the README promises.
Rank == [r \in RoleOrNone |->
           CASE r = "OWNER"  -> 4
             [] r = "ADMIN"  -> 3
             [] r = "EDITOR" -> 2
             [] r = "VIEWER" -> 1
             [] r = NoRole   -> 0]

Outranks(r, s) == Rank[r] > Rank[s]
=============================================================================
