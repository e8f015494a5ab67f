------------------------- MODULE ProjectMembership -------------------------
(***************************************************************************)
(* One project, its members and its status, under concurrent requests.     *)
(*                                                                         *)
(* Every HTTP request runs as a coroutine with a database session of its   *)
(* own, at READ COMMITTED.  It first SELECTs what its checks need, in one  *)
(* or two awaits that other requests may come between, and then writes and *)
(* commits.  A request is therefore a record that goes through the steps   *)
(* "role" -> "authorised" -> "loaded"; each step is one await.  The write  *)
(* and the commit are one step: the rows written stay locked until the     *)
(* commit, so nothing another request does falls in between.               *)
(*                                                                         *)
(* A check that raises ends the request with no effect.  Roles and status  *)
(* are read from the database, as the service does with ENABLE_CACHING     *)
(* off; PermissionCache models the Redis cache in front of them.           *)
(***************************************************************************)
EXTENDS Roles

CONSTANTS Users,       \* the accounts
          Reqs,        \* the requests that may be in flight at once
          Ops,         \* the operations clients issue
          GrantRoles,  \* the roles asked for in role changes and invitations
          Departing,   \* accounts whose deletion grace period runs out
          Idle         \* a request slot not in use

Status == {"ACTIVE", "SUSPENDED", "ARCHIVED"}

\* Operations that begin with PermissionService.verify_user_role, with the
\* roles each allows, and those that leave check_active at its default.
Managed == {"remove", "changeRole", "archive", "setStatus", "hardDelete"}
AllowedRoles(op) == IF op = "hardDelete" THEN {"OWNER"} ELSE {"ADMIN", "OWNER"}
CheckActive == {"remove", "changeRole", "archive"}

Operation == Managed \cup {"leave", "transfer", "accept"}

VARIABLES
  project,   \* "absent" before add_new_project, "deleted" after its row is gone
  role,      \* user_project_relation: the role of each user, NoRole without a row
  gone,      \* accounts the cleanup job has removed
  req        \* the requests in flight

vars == <<project, role, gone, req>>

\* `want` is the role or status asked for, `seen` the actor's role and `found`
\* the target's role, or the project's status, as this request read them.
Request == [op : Operation, actor : Users, target : Users,
            want : RoleOrNone \cup Status, seen : RoleOrNone,
            found : RoleOrNone \cup Status, pc : {"role", "authorised", "loaded"}]

ASSUME MembershipAssumption ==
  /\ Ops \subseteq Operation
  /\ GrantRoles \subseteq UserRole
  /\ Departing \subseteq Users
  /\ Idle \notin Request

TypeOK ==
  /\ project \in Status \cup {"absent", "deleted"}
  /\ role \in [Users -> RoleOrNone]
  /\ gone \subseteq Users
  /\ req \in [Reqs -> Request \cup {Idle}]

Members == {u \in Users : role[u] # NoRole}
Nobody == [u \in Users |-> NoRole]

-----------------------------------------------------------------------------
(* What the database says to a write.                                      *)

\* ix_unique_owner_per_project accepts the rows rel.
\* Mutant: no unique index on owners.
NoOwnerIndex(rel) == TRUE
OwnerIndex(rel) ==
  \A u, v \in Users : rel[u] = "OWNER" /\ rel[v] = "OWNER" => u = v

\* The UPDATE of u's row finds it; if not, SQLAlchemy raises StaleDataError
\* and everything the request wrote is rolled back.
\* Mutant: the write merges, and so inserts a row that is missing.
RowUpserted(u) == TRUE
RowMatched(u) == role[u] # NoRole

\* The INSERT of a row for u: its foreign keys and the primary key.
\* Mutant: no foreign key to projects.
InsertableUnchecked(u) == u \notin gone /\ role[u] = NoRole
Insertable(u) == project \in Status /\ u \notin gone /\ role[u] = NoRole

\* The DELETE of the project's row cascades to the memberships.
DeleteProject == project' = "deleted" /\ role' = Nobody

Init ==
  /\ project = "absent"
  /\ role = Nobody
  /\ gone = {}
  /\ req = [r \in Reqs |-> Idle]

-----------------------------------------------------------------------------
(* The life of a request.                                                  *)

At(r, op, pc) == req[r] # Idle /\ req[r].op = op /\ req[r].pc = pc

Begin(r, op, u, t, w, pc) ==
  /\ op \in Ops
  /\ req[r] = Idle
  /\ u \notin gone
  /\ req' = [req EXCEPT ![r] = [op |-> op, actor |-> u, target |-> t, want |-> w,
                                seen |-> role[u], found |-> NoRole, pc |-> pc]]
  /\ UNCHANGED <<project, role, gone>>

\* The request goes on to pc having read f, or its check raises.
Proceed(r, ok, f, pc) ==
  /\ req' = [req EXCEPT ![r] = IF ok THEN [@ EXCEPT !.found = f, !.pc = pc] ELSE Idle]
  /\ UNCHANGED <<project, role, gone>>

\* The request commits, or rolls back when the database refuses its rows.
Finish(r) == req' = [req EXCEPT ![r] = Idle]

-----------------------------------------------------------------------------
(* PermissionService.verify_user_role: the role, then the status.          *)

VerifyRole(r, op, u, t, w) ==
  /\ op \in Managed
  /\ role[u] \in AllowedRoles(op)
  /\ Begin(r, op, u, t, w, IF op \in CheckActive THEN "role" ELSE "authorised")

VerifyActive(r) ==
  /\ req[r] # Idle /\ req[r].pc = "role" /\ req[r].op \in CheckActive
  /\ Proceed(r, project \in Status \ {"ARCHIVED"}, NoRole, "authorised")

-----------------------------------------------------------------------------
(* delete_user_from_project and change_user_role                           *)

LoadTarget(r) ==
  /\ At(r, "remove", "authorised") \/ At(r, "changeRole", "authorised")
  /\ LET q == req[r] IN
       Proceed(r, /\ role[q.target] # NoRole
                  /\ q.actor # q.target
                  /\ HierarchyAllows(q.seen, role[q.target], q.want),
               role[q.target], "loaded")

\* DELETE by primary key; a row that is no longer there is only a warning.
Remove(r) ==
  /\ At(r, "remove", "loaded")
  /\ role' = [role EXCEPT ![req[r].target] = NoRole]
  /\ Finish(r)
  /\ UNCHANGED <<project, gone>>

\* UPDATE by primary key, sent only when the value differs from the one loaded.
ChangeRole(r) ==
  /\ At(r, "changeRole", "loaded")
  /\ LET q == req[r] IN
       role' = IF q.want # q.found /\ RowMatched(q.target)
               THEN [role EXCEPT ![q.target] = q.want] ELSE role
  /\ Finish(r)
  /\ UNCHANGED <<project, gone>>

-----------------------------------------------------------------------------
(* leave_from_project, which reads the relation itself                     *)

LoadLeaver(r, u) ==
  /\ role[u] # NoRole
  /\ Begin(r, "leave", u, u, NoRole, IF role[u] = "OWNER" THEN "authorised" ELSE "loaded")

\* The owner must be alone: count_project_users, then the project.
\* Mutant: the owner need not be alone.
CountNobody(r) ==
  /\ At(r, "leave", "authorised")
  /\ Proceed(r, project \in Status, NoRole, "loaded")
CountMembers(r) ==
  /\ At(r, "leave", "authorised")
  /\ Proceed(r, project \in Status /\ \A u, v \in Members : u = v, NoRole, "loaded")

Leave(r) ==
  /\ At(r, "leave", "loaded")
  /\ IF req[r].seen = "OWNER" /\ project \in Status
     THEN DeleteProject
     ELSE /\ role' = IF req[r].seen = "OWNER" THEN role
                     ELSE [role EXCEPT ![req[r].actor] = NoRole]
          /\ UNCHANGED project
  /\ Finish(r)
  /\ UNCHANGED gone

-----------------------------------------------------------------------------
(* assign_new_owner, which reads both relations itself                     *)

LoadOwner(r, u, t) ==
  /\ u # t
  /\ role[u] = "OWNER"
  /\ Begin(r, "transfer", u, t, NoRole, "authorised")

LoadHeir(r) ==
  /\ At(r, "transfer", "authorised")
  /\ Proceed(r, role[req[r].target] # NoRole, role[req[r].target], "loaded")

\* The owner is demoted and flushed, then the heir is promoted: each UPDATE
\* must find its row and satisfy the unique index, or all is rolled back.
\* Mutant: the heir is never promoted.
TransferHalfDone(r) ==
  /\ At(r, "transfer", "loaded")
  /\ role' = IF RowMatched(req[r].actor) THEN [role EXCEPT ![req[r].actor] = "ADMIN"] ELSE role
  /\ Finish(r)
  /\ UNCHANGED <<project, gone>>
Transfer(r) ==
  /\ At(r, "transfer", "loaded")
  /\ LET q       == req[r]
         demoted == [role EXCEPT ![q.actor] = "ADMIN"]
         handed  == IF q.found = "OWNER" THEN demoted
                    ELSE [demoted EXCEPT ![q.target] = "OWNER"]
     IN role' = IF /\ RowMatched(q.actor)
                   /\ q.found # "OWNER" => RowMatched(q.target)
                   /\ OwnerIndex(demoted) /\ OwnerIndex(handed)
                THEN handed ELSE role
  /\ Finish(r)
  /\ UNCHANGED <<project, gone>>

-----------------------------------------------------------------------------
(* soft_delete_project, change_project_status, verify_and_delete_project   *)

\* The checks on the project loaded (the caller gives the project's name).
\* Mutant: verify_and_delete_project without its status check.
LoadableUnarchived(op) == project \in Status
Loadable(op) ==
  /\ project \in Status
  /\ op = "archive" => project # "ARCHIVED"
  /\ op = "hardDelete" => project = "ARCHIVED"

LoadProject(r) ==
  \E op \in {"archive", "setStatus", "hardDelete"} :
    At(r, op, "authorised") /\ Proceed(r, Loadable(op), project, "loaded")

WriteStatus(r) ==
  /\ At(r, "archive", "loaded") \/ At(r, "setStatus", "loaded")
  /\ project' = IF req[r].want # req[r].found /\ project \in Status
                THEN req[r].want ELSE project
  /\ Finish(r)
  /\ UNCHANGED <<role, gone>>

HardDelete(r) ==
  /\ At(r, "hardDelete", "loaded")
  /\ IF project \in Status THEN DeleteProject ELSE UNCHANGED <<project, role>>
  /\ Finish(r)
  /\ UNCHANGED gone

-----------------------------------------------------------------------------
(* accept_invitation, as far as memberships go: Invitations models the     *)
(* invitation.  Neither the project's status nor the inviter is looked at  *)
(* again.                                                                  *)

LoadInvitation(r, u, w) ==
  /\ project \in Status
  /\ w # "OWNER"
  /\ Begin(r, "accept", u, u, w, "loaded")

Accept(r) ==
  /\ At(r, "accept", "loaded")
  /\ role' = IF Insertable(req[r].actor)
             THEN [role EXCEPT ![req[r].actor] = req[r].want] ELSE role
  /\ Finish(r)
  /\ UNCHANGED <<project, gone>>

-----------------------------------------------------------------------------
(* add_new_project; and clean_deleted_user_accounts, whose DELETE of a user *)
(* cascades to his memberships.  A session that was opened while he deleted *)
(* his account (Accounts) may still have a request in flight then.          *)

CreateProject(u) ==
  /\ project = "absent"
  /\ u \notin gone
  /\ project' = "ACTIVE"
  /\ role' = [role EXCEPT ![u] = "OWNER"]
  /\ UNCHANGED <<gone, req>>

PurgeAccount(u) ==
  /\ u \in Departing \ gone
  /\ gone' = gone \cup {u}
  /\ role' = [role EXCEPT ![u] = NoRole]
  /\ UNCHANGED <<project, req>>

-----------------------------------------------------------------------------
\* The routes, each with what its caller chooses.
ManageProject(r, u) ==
  \/ VerifyRole(r, "archive", u, u, "ARCHIVED")
  \/ \E s \in Status : VerifyRole(r, "setStatus", u, u, s)
  \/ VerifyRole(r, "hardDelete", u, u, NoRole)

ManageMembers(r, u) ==
  \/ \E t \in Users :
       \/ VerifyRole(r, "remove", u, t, NoRole)
       \/ \E w \in GrantRoles : VerifyRole(r, "changeRole", u, t, w)
       \/ LoadOwner(r, u, t)
  \/ LoadLeaver(r, u)

StartRequest(r) ==
  \E u \in Users :
    \/ ManageProject(r, u) \/ ManageMembers(r, u)
    \/ \E w \in GrantRoles : LoadInvitation(r, u, w)

ContinueRequest(r) ==
  \/ VerifyActive(r) \/ LoadTarget(r) \/ CountMembers(r) \/ LoadHeir(r) \/ LoadProject(r)

WriteAndCommit(r) ==
  \/ Remove(r) \/ ChangeRole(r) \/ Leave(r) \/ Transfer(r)
  \/ WriteStatus(r) \/ HardDelete(r) \/ Accept(r)

Next ==
  \/ \E r \in Reqs : StartRequest(r) \/ ContinueRequest(r) \/ WriteAndCommit(r)
  \/ \E u \in Users : CreateProject(u) \/ PurgeAccount(u)

Spec == Init /\ [][Next]_vars
-----------------------------------------------------------------------------
(* What holds however the requests interleave.                             *)

\* A project never has two owners (ix_unique_owner_per_project, and the order
\* in which assign_new_owner flushes its two updates).
AtMostOneOwner ==
  \A u, v \in Users : role[u] = "OWNER" /\ role[v] = "OWNER" => u = v

\* r finishes in this step, having passed all its checks.
Commits(r, ops) == \E op \in ops : At(r, op, "loaded") /\ req'[r] = Idle

\* Every step is one of those a project promises, or none of them: a request
\* still in flight adds no member to a deleted project, only who accepts an
\* invitation becomes a member, with the role it names, whoever has left does
\* not come back by a role change or a transfer that read his row before, and
\* ownership is handed over whole.
Joining ==
  {<<req[r].actor, req[r].want>> : r \in {q \in Reqs : At(q, "accept", "loaded")}}
Promised == INSTANCE Membership WITH joining <- Joining
ImplementsMembership == Promised!Spec

-----------------------------------------------------------------------------
(* What the handlers' checks promise: each holds while requests come one   *)
(* at a time, and none is re-established when the request commits.         *)

\* As long as a project exists somebody owns it.
ProjectHasOwner == project \in Status => \E u \in Users : role[u] = "OWNER"

\* Whoever changes or removes a member outranks him.
CommittedByRank ==
  \A r \in Reqs :
    Commits(r, {"remove", "changeRole"})
      /\ role[req[r].target] \notin {NoRole, role'[req[r].target]}
    => Outranks(role[req[r].actor], role[req[r].target])

\* An owner who leaves takes no other member's project with him.
LeftAlone ==
  \A r \in Reqs :
    Commits(r, {"leave"}) /\ (\E u \in Members : role[u] = "OWNER" /\ role'[u] = NoRole)
    => Members = {req[r].actor}

\* A project that is hard deleted is archived.
DeletedFromArchive ==
  \A r \in Reqs :
    Commits(r, {"hardDelete"}) /\ project # project' => project = "ARCHIVED"
=============================================================================
