---------------------------- MODULE Invitations ----------------------------
(***************************************************************************)
(* The invitations to one project (services/invitation_service.py), the    *)
(* requests that send and resolve them and the job that expires them.      *)
(*                                                                         *)
(* As in ProjectMembership a request first reads and checks, and later     *)
(* writes and commits; others run in between.  That the sender or revoker  *)
(* may manage the project is the business of that module: here any request *)
(* may come.  The expiry job's UPDATE takes its ids from a subquery; when  *)
(* a row it picked is locked by another transaction, PostgreSQL waits and  *)
(* then checks only the id of the row's new version, not its status, so    *)
(* the scan and the update of a batch are two steps.                       *)
(***************************************************************************)
EXTENDS Naturals, FiniteSets

CONSTANTS Users,        \* accounts that can be invited
          Invites,      \* ids: at most so many invitations exist at once
          Reqs,         \* requests in flight at once
          InviteRoles,  \* the roles invitations carry
          BatchSize,    \* row_limit of the expiry job
          NoRole, NoRow, Idle

InvitationStatus == {"PENDING", "ACCEPTED", "REJECTED", "REVOKED", "EXPIRED"}

Row == [target : Users, role : InviteRoles, status : InvitationStatus, due : BOOLEAN]

Request == [op : {"send"}, target : Users, role : InviteRoles]
             \cup [op : {"accept", "reject", "revoke"}, id : Invites]

ASSUME InvitationAssumption ==
  /\ BatchSize \in Nat \ {0}
  /\ NoRole \notin InviteRoles /\ "OWNER" \notin InviteRoles
  /\ NoRow \notin Row /\ Idle \notin Request

VARIABLES
  exists,  \* the project has its row
  role,    \* the role of each member, NoRole for the others
  inv,     \* the invitations' rows; `due` once expires_at has passed
  req,     \* the requests in flight
  job      \* the ids the running batch of the expiry job picked, or Idle

vars == <<exists, role, inv, req, job>>

TypeOK ==
  /\ exists \in BOOLEAN
  /\ role \in [Users -> InviteRoles \cup {NoRole}]
  /\ inv \in [Invites -> Row \cup {NoRow}]
  /\ req \in [Reqs -> Request \cup {Idle}]
  /\ job \in (SUBSET Invites) \cup {Idle}

Pending(i) == inv[i] # NoRow /\ inv[i].status = "PENDING"

Init ==
  /\ exists = TRUE
  /\ role = [u \in Users |-> NoRole]
  /\ inv = [i \in Invites |-> NoRow]
  /\ req = [r \in Reqs |-> Idle]
  /\ job = Idle

Start(r, q) == req[r] = Idle /\ req' = [req EXCEPT ![r] = q]
Doing(r, op) == req[r] # Idle /\ req[r].op = op
Finish(r) == req' = [req EXCEPT ![r] = Idle]

-----------------------------------------------------------------------------
(* send_invitation                                                         *)

CheckNotMember(r, t, w) ==
  /\ exists /\ role[t] = NoRole
  /\ Start(r, [op |-> "send", target |-> t, role |-> w])
  /\ UNCHANGED <<exists, role, inv, job>>

\* ix_unique_project_invite accepts a PENDING row for t.
\* Mutant: no such index.
AnyPendingIndex(t) == TRUE
PendingIndex(t) == \A i \in Invites : Pending(i) => inv[i].target # t

\* The INSERT, or the ConflictError its IntegrityError is turned into.
Send(r) ==
  /\ Doing(r, "send")
  /\ LET t == req[r].target IN
       IF exists /\ PendingIndex(t)
       THEN \E i \in Invites :
              /\ inv[i] = NoRow
              /\ inv' = [inv EXCEPT ![i] = [target |-> t, role |-> req[r].role,
                                            status |-> "PENDING", due |-> FALSE]]
       ELSE inv' = inv
  /\ Finish(r)
  /\ UNCHANGED <<exists, role, job>>

-----------------------------------------------------------------------------
(* accept_invitation, reject_invitation, revoke_invitation                 *)

CheckAvailable(r, op, i) ==
  /\ Pending(i) /\ ~inv[i].due
  /\ Start(r, [op |-> op, id |-> i])
  /\ UNCHANGED <<exists, role, inv, job>>

\* The WHERE clause of update_if_pending.
\* Mutant: an UPDATE by id alone.
UpdatableById(i) == inv[i] # NoRow
Updatable(i) == Pending(i)

\* The role add_user_to_project is called with.
\* Mutant: the founder's role.
FounderRole(i) == "OWNER"
GrantedRole(i) == inv[i].role

\* One transaction: the invitation is resolved and the member's row inserted,
\* or, when the user has a row already, neither.
\* Mutant: the invitation's update is committed before the insert.
AcceptInTwo(r) ==
  /\ Doing(r, "accept")
  /\ LET i == req[r].id IN
       IF Updatable(i)
       THEN /\ inv' = [inv EXCEPT ![i].status = "ACCEPTED"]
            /\ role' = IF role[inv[i].target] = NoRole
                       THEN [role EXCEPT ![inv[i].target] = GrantedRole(i)] ELSE role
       ELSE UNCHANGED <<inv, role>>
  /\ Finish(r)
  /\ UNCHANGED <<exists, job>>
Accept(r) ==
  /\ Doing(r, "accept")
  /\ LET i == req[r].id IN
       IF Updatable(i) /\ role[inv[i].target] = NoRole
       THEN /\ inv' = [inv EXCEPT ![i].status = "ACCEPTED"]
            /\ role' = [role EXCEPT ![inv[i].target] = GrantedRole(i)]
       ELSE UNCHANGED <<inv, role>>
  /\ Finish(r)
  /\ UNCHANGED <<exists, job>>

RejectOrRevoke(r) ==
  /\ Doing(r, "reject") \/ Doing(r, "revoke")
  /\ LET i == req[r].id IN
       inv' = IF Updatable(i)
              THEN [inv EXCEPT ![i].status =
                      IF req[r].op = "reject" THEN "REJECTED" ELSE "REVOKED"]
              ELSE inv
  /\ Finish(r)
  /\ UNCHANGED <<exists, role, job>>

-----------------------------------------------------------------------------
(* Time and the jobs                                                       *)

\* Seven days after it was sent an invitation runs out.
Lapse(i) ==
  /\ Pending(i) /\ ~inv[i].due
  /\ inv' = [inv EXCEPT ![i].due = TRUE]
  /\ UNCHANGED <<exists, role, req, job>>

\* The WHERE clause of the expiry job's subquery.
\* Mutant: the comparison the wrong way round.
NotYetDue(i) == Pending(i) /\ ~inv[i].due
Expirable(i) == Pending(i) /\ inv[i].due

\* One batch: LIMIT picks any BatchSize of the rows, or all if there are fewer.
ExpireScan ==
  /\ job = Idle
  /\ LET due == {i \in Invites : Expirable(i)} IN
       /\ due # {}
       /\ \E batch \in SUBSET due :
            /\ Cardinality(batch) = BatchSize \/ (batch = due /\ Cardinality(due) < BatchSize)
            /\ job' = batch
  /\ UNCHANGED <<exists, role, inv, req>>

ExpireUpdate ==
  /\ job # Idle
  /\ inv' = [i \in Invites |-> IF i \in job /\ inv[i] # NoRow
                               THEN [inv[i] EXCEPT !.status = "EXPIRED"] ELSE inv[i]]
  /\ job' = Idle
  /\ UNCHANGED <<exists, role, req>>

\* delete_old_rejected_invitations, 30 days after the invitation was sent: no
\* request or batch of that day still holds its id.
PurgeOld(i) ==
  /\ inv[i] # NoRow /\ inv[i].status \in {"REJECTED", "REVOKED", "EXPIRED"}
  /\ \A r \in Reqs : req[r] # Idle /\ req[r].op # "send" => req[r].id # i
  /\ job # Idle => i \notin job
  /\ inv' = [inv EXCEPT ![i] = NoRow]
  /\ UNCHANGED <<exists, role, req, job>>

-----------------------------------------------------------------------------
(* What the rest of the project service does to members and the project.   *)

MemberGoes(u) ==
  /\ role[u] # NoRole
  /\ role' = [role EXCEPT ![u] = NoRole]
  /\ UNCHANGED <<exists, inv, req, job>>

ProjectGoes ==
  /\ exists
  /\ exists' = FALSE
  /\ role' = [u \in Users |-> NoRole]
  /\ inv' = [i \in Invites |-> NoRow]
  /\ UNCHANGED <<req, job>>

-----------------------------------------------------------------------------
HandleRequest(r) ==
  \/ \E t \in Users, w \in InviteRoles : CheckNotMember(r, t, w)
  \/ Send(r)
  \/ \E i \in Invites, op \in {"accept", "reject", "revoke"} : CheckAvailable(r, op, i)
  \/ Accept(r) \/ RejectOrRevoke(r)

Next ==
  \/ \E r \in Reqs : HandleRequest(r)
  \/ \E i \in Invites : Lapse(i) \/ PurgeOld(i)
  \/ ExpireScan \/ ExpireUpdate
  \/ \E u \in Users : MemberGoes(u)
  \/ ProjectGoes

\* The scheduler runs the expiry job every 30 minutes (jobs/scheduler.py).
Fairness == WF_vars(ExpireScan) /\ WF_vars(ExpireUpdate)

Spec == Init /\ [][Next]_vars
FairSpec == Spec /\ Fairness

-----------------------------------------------------------------------------
\* A user has at most one invitation to answer, whoever invites him at once.
OnePendingPerTarget ==
  \A i, j \in Invites :
    Pending(i) /\ Pending(j) /\ inv[i].target = inv[j].target => i = j

Joins(u) == role[u] = NoRole /\ role'[u] # NoRole
IsAccepted(i) == Pending(i) /\ inv'[i] # NoRow /\ inv'[i].status = "ACCEPTED"

\* Whoever becomes a member spends, in the same step, a pending invitation of
\* his own and gets the role it carries; and no invitation is spent without
\* making its target a member.  A second accept in flight, or one that comes
\* after the member has left again, grants nothing.
AcceptanceIsMembership ==
  [][/\ \A u \in Users : Joins(u) =>
          \E i \in Invites : IsAccepted(i) /\ inv[i].target = u /\ role'[u] = inv[i].role
     /\ \A i \in Invites : IsAccepted(i) => Joins(inv[i].target)]_vars

\* An invitation is resolved once: of two requests that found it pending only
\* one has an effect.  Only the expiry job overwrites an answer, and only the
\* answer to an invitation it found pending and lapsed when it scanned.
AnsweredOnce ==
  [][\A i \in Invites :
       inv[i] # NoRow /\ ~Pending(i) /\ inv'[i] # NoRow /\ inv'[i].status # inv[i].status
       => inv'[i].status = "EXPIRED" /\ inv[i].due /\ job # Idle /\ i \in job]_vars

\* An invitation that has lapsed does not block the next one for ever.
LapsedResolved ==
  \A i \in Invites : (Pending(i) /\ inv[i].due) ~> ~(Pending(i) /\ inv[i].due)
=============================================================================
