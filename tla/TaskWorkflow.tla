---------------------------- MODULE TaskWorkflow ----------------------------
(***************************************************************************)
(* One task of a project: its assignee and its status, under concurrent    *)
(* requests (services/task_service.py).                                    *)
(*                                                                         *)
(* A request reads the caller's role and the project's status, then the    *)
(* task, and assign_user_to_task the target's role after that: one await   *)
(* each.  Its checks look at what it read.  The UPDATE goes by primary key *)
(* and carries only the columns whose value differs from the one read, so  *)
(* two requests can each write one column of the same row.                 *)
(* task_self_assign_update alone checks and writes in one statement.       *)
(***************************************************************************)
EXTENDS Roles

CONSTANTS Users,      \* the accounts
          Founder,    \* the project's owner throughout
          Reqs,       \* the requests that may be in flight at once
          Ops,        \* the operations clients issue
          Nobody,     \* assignee_id NULL
          GrantRoles, \* the roles members are given
          Departing,  \* accounts whose deletion grace period runs out
          Idle        \* a request slot not in use

TaskStatus == {"TODO", "IN_PROGRESS", "REVIEW", "COMPLETED"}
Started == TaskStatus \ {"TODO"}

\* The status a change of status asks for, and the one it must find.
\* Mutant: a task can be completed as soon as it is in progress.
EarlyChange == [review         |-> [from |-> "IN_PROGRESS", to |-> "REVIEW"],
                cancelReview   |-> [from |-> "REVIEW",      to |-> "IN_PROGRESS"],
                complete       |-> [from |-> "IN_PROGRESS", to |-> "COMPLETED"],
                cancelComplete |-> [from |-> "COMPLETED",   to |-> "REVIEW"]]
StatusChange == [review         |-> [from |-> "IN_PROGRESS", to |-> "REVIEW"],
                 cancelReview   |-> [from |-> "REVIEW",      to |-> "IN_PROGRESS"],
                 complete       |-> [from |-> "REVIEW",      to |-> "COMPLETED"],
                 cancelComplete |-> [from |-> "COMPLETED",   to |-> "REVIEW"]]
ByEditor == {"review", "cancelReview"}
ByAdmin == {"complete", "cancelComplete"}

Workers == {"EDITOR", "ADMIN", "OWNER"}
ManagersOnly == ByAdmin \cup {"assign", "unassign"}
Operation == ByEditor \cup ManagersOnly \cup {"create", "delete", "selfAssign"}
AllowedRoles(op) == IF op \in ManagersOnly THEN Workers \ {"EDITOR"} ELSE Workers

ASSUME TaskAssumption ==
  /\ Founder \in Users /\ Nobody \notin Users
  /\ Ops \subseteq Operation
  /\ GrantRoles \subseteq UserRole \ {"OWNER"}
  /\ Departing \subseteq Users \ {Founder}

VARIABLES
  task,     \* the row, or Absent before add_new_task, Deleted afterwards
  role,     \* the role of each user in the project
  active,   \* the project is not archived
  gone,     \* accounts the cleanup job has removed
  req       \* the requests in flight

vars == <<task, role, active, gone, req>>

Assignee == Users \cup {Nobody}
Row == [assignee : Assignee, status : TaskStatus]
Blank == [assignee |-> Nobody, status |-> "TODO"]
Absent == [Blank EXCEPT !.status = "absent"]
Deleted == [Blank EXCEPT !.status = "deleted"]
NoRow == {Absent, Deleted}

\* `seen` is the actor's role and `found` the task as this request read them.
Request == [op : Operation, actor : Users, target : Assignee, seen : UserRole,
            found : Row, pc : {"role", "authorised", "target", "loaded"}]

TypeOK ==
  /\ task \in Row \cup NoRow
  /\ role \in [Users -> RoleOrNone]
  /\ active \in BOOLEAN
  /\ gone \subseteq Users
  /\ req \in [Reqs -> Request \cup {Idle}]

Init ==
  /\ task = Absent
  /\ role \in [Users -> {NoRole} \cup GrantRoles \cup {"OWNER"}]
  /\ \A u \in Users : role[u] = "OWNER" <=> u = Founder
  /\ active = TRUE
  /\ gone = {}
  /\ req = [r \in Reqs |-> Idle]

-----------------------------------------------------------------------------
(* The reads and checks of a request.                                      *)

At(r, ops, pc) == req[r] # Idle /\ req[r].op \in ops /\ req[r].pc = pc

\* The request goes on, or its check raises.
Proceed(r, ok, f, pc) ==
  /\ req' = [req EXCEPT ![r] = IF ok THEN [@ EXCEPT !.found = f, !.pc = pc] ELSE Idle]
  /\ UNCHANGED <<task, role, active, gone>>

\* verify_user_role: the role, then the project's status.  The role comes from
\* the cache, which may hold one that u has had and lost, and outlive his
\* account (PermissionCache).
RolesHeld(u) == IF u = Founder THEN {"OWNER"} ELSE GrantRoles
VerifyRole(r, op, u, t) ==
  /\ op \in Ops
  /\ req[r] = Idle
  /\ \E s \in RolesHeld(u) \cap AllowedRoles(op) :
       req' = [req EXCEPT ![r] = [op |-> op, actor |-> u, target |-> t, seen |-> s,
                                  found |-> Blank, pc |-> "role"]]
  /\ UNCHANGED <<task, role, active, gone>>

VerifyActive(r) ==
  At(r, Operation, "role") /\ Proceed(r, active, Blank, "authorised")

\* The checks each handler makes on the task it loaded; _validate_task_access
\* is the first, and the only one that asks for an assignee.
Allowed(q, row) ==
  /\ q.op \in DOMAIN StatusChange => row.status = StatusChange[q.op].from
  /\ q.op \in ByEditor => row.assignee # Nobody /\ (q.seen = "EDITOR" => row.assignee = q.actor)
  /\ q.op \in {"assign", "unassign"} => row.status \notin {"REVIEW", "COMPLETED"}
  /\ q.op = "unassign" => row.assignee # Nobody

LoadTask(r) ==
  /\ At(r, Operation \ {"create", "selfAssign"}, "authorised")
  /\ IF task \in NoRow
     THEN Proceed(r, FALSE, Blank, "loaded")
     ELSE Proceed(r, Allowed(req[r], task), task,
                  IF req[r].op = "assign" THEN "target" ELSE "loaded")

\* get_user_role_request of the person to be assigned, in add_new_task and
\* assign_user_to_task; add_new_task may name nobody.
Assignable(u) == role[u] \in Workers
LoadTarget(r) ==
  /\ At(r, {"create"}, "authorised") \/ At(r, {"assign"}, "target")
  /\ LET t == req[r].target IN
       Proceed(r, t # Nobody => Assignable(t), req[r].found, "loaded")

-----------------------------------------------------------------------------
(* The writes.  A row that is gone raises StaleDataError, an assignee that *)
(* is gone violates the foreign key: nothing of the request remains.       *)

\* What is left of the row `now` when a request that read `old` writes `new`.
\* Mutant: every column is written, changed or not.
WholeRow(now, old, new) == new
ChangedColumns(now, old, new) ==
  [assignee |-> IF new.assignee # old.assignee THEN new.assignee ELSE now.assignee,
   status   |-> IF new.status # old.status THEN new.status ELSE now.status]

\* Mutant: the assignee column is no foreign key.
AnyReference(u) == TRUE
ForeignKey(u) == u \notin gone

\* Mutant: the UPDATE inserts a row that is missing.
MergedRow == task # Absent
RowMatched == task \notin NoRow

\* What each handler assigns to the task it loaded.
\* Mutant: delete_task_assignee leaves the status.
StatusKept(q) ==
  IF q.op \in DOMAIN StatusChange THEN [q.found EXCEPT !.status = StatusChange[q.op].to]
  ELSE [assignee |-> IF q.op = "assign" THEN q.target ELSE Nobody, status |-> "IN_PROGRESS"]
Edited(q) ==
  IF q.op \in DOMAIN StatusChange THEN [q.found EXCEPT !.status = StatusChange[q.op].to]
  ELSE IF q.op = "assign" THEN [assignee |-> q.target, status |-> "IN_PROGRESS"]
  ELSE Blank

Update(r) ==
  /\ At(r, DOMAIN StatusChange \cup {"assign", "unassign"}, "loaded")
  /\ LET q   == req[r]
         new == Edited(q)
     IN task' = IF RowMatched /\ (new.assignee # q.found.assignee => ForeignKey(new.assignee))
                THEN ChangedColumns(task, q.found, new) ELSE task
  /\ req' = [req EXCEPT ![r] = Idle]
  /\ UNCHANGED <<role, active, gone>>

\* add_new_task; this model follows the first task only.
Create(r) ==
  /\ At(r, {"create"}, "loaded")
  /\ LET t == req[r].target IN
       task' = IF task = Absent /\ ForeignKey(t)
               THEN [assignee |-> t, status |-> IF t = Nobody THEN "TODO" ELSE "IN_PROGRESS"]
               ELSE task
  /\ req' = [req EXCEPT ![r] = Idle]
  /\ UNCHANGED <<role, active, gone>>

\* A DELETE that finds no row is only a warning.
Delete(r) ==
  /\ At(r, {"delete"}, "loaded")
  /\ task' = Deleted
  /\ req' = [req EXCEPT ![r] = Idle]
  /\ UNCHANGED <<role, active, gone>>

\* The WHERE clause of task_self_assign_update.
\* Mutant: the WHERE clause looks at the task's status only.
NotCompleted(row) == row.status # "COMPLETED"
Unclaimed(row) == row.assignee = Nobody /\ row.status = "TODO"

SelfAssign(r) ==
  /\ At(r, {"selfAssign"}, "authorised")
  /\ task' = IF RowMatched /\ Unclaimed(task) /\ ForeignKey(req[r].actor)
             THEN [assignee |-> req[r].actor, status |-> "IN_PROGRESS"] ELSE task
  /\ req' = [req EXCEPT ![r] = Idle]
  /\ UNCHANGED <<role, active, gone>>

-----------------------------------------------------------------------------
(* What happens around the task.  Each of these is a request or a job of   *)
(* its own and takes a free slot for the step it commits in.               *)

\* Members join, leave, are removed and change roles (ProjectMembership);
\* the assignee of a task is not looked at.
MemberChanges(r, u, w) ==
  /\ req[r] = Idle
  /\ u # Founder /\ u \notin gone
  /\ w \in GrantRoles \cup {NoRole} /\ w # role[u]
  /\ role' = [role EXCEPT ![u] = w]
  /\ UNCHANGED <<task, active, gone, req>>

Archive(r) ==
  /\ req[r] = Idle
  /\ active' = ~active
  /\ UNCHANGED <<task, role, gone, req>>

\* clean_deleted_user_accounts empties the assignee column and then deletes
\* the user.  Both show when they are committed: till then the row of a task
\* the UPDATE found is locked, and a task assigned to him in between makes the
\* foreign key roll both back (Accounts has the two steps).
\* Mutant: the first statement is left out.
PurgedRow(u) == task
ReleasedRow(u) ==
  IF task \notin NoRow /\ task.assignee = u THEN [task EXCEPT !.assignee = Nobody] ELSE task
PurgeAccount(r, u) ==
  /\ req[r] = Idle
  /\ u \in Departing \ gone
  /\ gone' = gone \cup {u}
  /\ role' = [role EXCEPT ![u] = NoRole]
  /\ task' = ReleasedRow(u)
  /\ UNCHANGED <<active, req>>

-----------------------------------------------------------------------------
StartRequest(r) ==
  \E u \in Users :
    \/ \E op \in Operation \ {"create", "assign"} : VerifyRole(r, op, u, Nobody)
    \/ \E t \in Users : VerifyRole(r, "assign", u, t)
    \/ \E t \in Assignee : task = Absent /\ VerifyRole(r, "create", u, t)

Surroundings(r) ==
  \/ \E u \in Users :
       \/ \E w \in RoleOrNone : MemberChanges(r, u, w)
       \/ PurgeAccount(r, u)
  \/ Archive(r)

Write(r) == Update(r) \/ Create(r) \/ Delete(r) \/ SelfAssign(r)

Next ==
  \E r \in Reqs :
    \/ StartRequest(r) \/ VerifyActive(r) \/ LoadTask(r) \/ LoadTarget(r)
    \/ Write(r) \/ Surroundings(r)

Spec == Init /\ [][Next]_vars
-----------------------------------------------------------------------------
(* What holds however the requests interleave.                             *)

Exists == task \notin NoRow

\* A task is never left with an assignee whose account has been removed: an
\* assignment that checked him before the purge does not outlive it.
AssigneeExists == Exists => task.assignee \notin gone

\* A request that loaded the task before it was deleted does not bring it back.
DeletedStaysDeleted == [][task = Deleted => task' = Deleted]_vars

\* r's request ends in this step at pc "loaded", its checks passed.
Commits(r, ops) == At(r, ops, "loaded") /\ req'[r] = Idle

\* Whoever holds a task keeps it until someone who was an owner or admin when
\* he asked assigns or releases it, it is deleted, or his account is purged.
\* Neither a self-assignment nor a change of status that read an earlier
\* assignee takes it from him.
OnlyManagersReassign ==
  [][Exists /\ task' # Deleted /\ task.assignee # Nobody /\ task'.assignee # task.assignee =>
       \/ task.assignee \in gone'
       \/ \E r \in Reqs : /\ Commits(r, {"assign", "unassign"})
                          /\ req[r].seen \in Senior]_vars

-----------------------------------------------------------------------------
(* What the handlers promise: each holds while requests come one at a time *)
(* and no account is purged.                                               *)

\* A task is waiting exactly as long as nobody has it.
StartedWhenAssigned == Exists => (task.assignee = Nobody <=> task.status = "TODO")

Changes == Exists /\ task' # Deleted

\* A task's status moves by one place, forward or back.
OnePlace ==
  LET forward == {<<"TODO", "IN_PROGRESS">>, <<"IN_PROGRESS", "REVIEW">>,
                  <<"REVIEW", "COMPLETED">>}
  IN Changes /\ task.status # task'.status =>
       <<task.status, task'.status>> \in forward \/ <<task'.status, task.status>> \in forward

\* A task in review or completed keeps its assignee.
AssigneeKept ==
  Changes /\ task.status \in {"REVIEW", "COMPLETED"} => task'.assignee = task.assignee
=============================================================================
