----------------------------- MODULE Membership -----------------------------
(***************************************************************************)
(* What a project promises about its members, whatever its requests do to  *)
(* one another: its life, and the ways in which somebody gets, changes and *)
(* loses a role.  ProjectMembership implements it.                         *)
(***************************************************************************)
EXTENDS Roles

CONSTANT Users

Status == {"ACTIVE", "SUSPENDED", "ARCHIVED"}

VARIABLES
  project,  \* its status, "absent" before and "deleted" after
  role,     \* each user's role in it, or NoRole
  joining   \* who is about to join, and as what

vars == <<project, role, joining>>

OneOwner(rel) == \A u, v \in Users : rel[u] = "OWNER" /\ rel[v] = "OWNER" => u = v
IsMember(u) == role[u] # NoRole

Init == project = "absent" /\ role = [u \in Users |-> NoRole] /\ joining = {}

\* A project begins with its founder as the owner and only member.
Found(u) ==
  /\ project = "absent"
  /\ project' = "ACTIVE"
  /\ role' = [v \in Users |-> IF v = u THEN "OWNER" ELSE NoRole]
  /\ UNCHANGED joining

\* Who is about to join has said so, and does not join as the owner.
Accept(u, w) ==
  /\ project \in Status /\ w # "OWNER" /\ UNCHANGED <<project, role>>
  /\ joining' = joining \cup {<<u, w>>}

\* He joins if the project still exists and he is no member yet.
Join(u, w) ==
  /\ project \in Status /\ ~ IsMember(u)
  /\ role' = [role EXCEPT ![u] = w]
  /\ joining' \in {joining, joining \ {<<u, w>>}}
  /\ UNCHANGED project

Fail(u, w) ==
  /\ joining' = joining \ {<<u, w>>}
  /\ UNCHANGED <<project, role>>

\* Only a member's role changes, and not to owner.
Regrade(u, w) ==
  /\ IsMember(u) /\ w # "OWNER"
  /\ role' = [role EXCEPT ![u] = w]
  /\ UNCHANGED <<project, joining>>

Drop(u) ==
  /\ IsMember(u)
  /\ role' = [role EXCEPT ![u] = NoRole]
  /\ UNCHANGED <<project, joining>>

\* Ownership goes from member to member, and leaves one owner.
HandOver(u, v) ==
  /\ u # v /\ IsMember(u) /\ IsMember(v)
  /\ role' = [role EXCEPT ![u] = "ADMIN", ![v] = "OWNER"] /\ OneOwner(role')
  /\ UNCHANGED <<project, joining>>

SetStatus(s) ==
  /\ project \in Status /\ s \in Status
  /\ project' = s
  /\ UNCHANGED <<role, joining>>

\* A project goes with all its members, for good.
Dissolve ==
  /\ project \in Status
  /\ project' = "deleted" /\ role' = [u \in Users |-> NoRole]
  /\ UNCHANGED joining

Next ==
  \/ \E u \in Users : Found(u) \/ Drop(u)
  \/ \E u \in Users, w \in UserRole : Accept(u, w) \/ Regrade(u, w)
  \/ \E p \in joining : Join(p[1], p[2]) \/ Fail(p[1], p[2])
  \/ \E u, v \in Users : HandOver(u, v)
  \/ \E s \in Status : SetStatus(s)
  \/ Dissolve

Spec == Init /\ [][Next]_vars
=============================================================================
