---------------------- MODULE ProjectMembershipProofs ----------------------
(***************************************************************************)
(* What ProjectMembership guarantees for every number of users and of      *)
(* requests in flight: its type invariant, at most one owner, no members   *)
(* without a project, no membership that was not asked for, and that every *)
(* step is one Membership promises.  And what it guarantees as long as no  *)
(* request overtakes another: a project has its owner, the hierarchy holds *)
(* against the roles of the moment, and a project is archived before it    *)
(* goes.                                                                   *)
(***************************************************************************)
EXTENDS MCProjectMembership, TLAPS

\* The code's hierarchy check is the order of the roles: an admin or owner may
\* act on a member, and give him a role, exactly if he outranks both.
THEOREM HierarchyIsRank ==
  ASSUME NEW curr \in Senior, NEW relation \in RoleOrNone, NEW new \in RoleOrNone
  PROVE  HierarchyAllows(curr, relation, new)
           <=> Outranks(curr, relation) /\ Outranks(curr, new)
<1> DEFINE R(r) == CASE r = "OWNER"  -> 4
                     [] r = "ADMIN"  -> 3
                     [] r = "EDITOR" -> 2
                     [] r = "VIEWER" -> 1
                     [] r = NoRole   -> 0
<1>1. \A r \in RoleOrNone : Rank[r] = R(r)
  BY DEF Rank
<1>2. curr \in RoleOrNone
  BY DEF Senior, RoleOrNone, UserRole
<1>3. Rank[curr] = R(curr) /\ Rank[relation] = R(relation) /\ Rank[new] = R(new)
  BY <1>1, <1>2
<1> QED
  BY <1>3 DEF HierarchyAllows, Outranks, Senior, RoleOrNone, UserRole, NoRole

-----------------------------------------------------------------------------
(* The inductive invariant.  TypeOK alone is not inductive: a request could *)
(* ask for a status where a role belongs, or to make somebody owner.  Asked *)
(* adds what the checks a request has passed say of what it asks for.       *)

\* A project whose row is gone, or not there yet, has no members: an accept,
\* a transfer or a role change that is still in flight adds no row to it.
NoProjectNoMembers == project \notin Status => Members = {}

Asked == {q \in Request :
  /\ q.op = "transfer" => q.actor # q.target
  /\ q.op \in {"changeRole", "accept"} => q.want \in GrantRoles
  /\ q.op = "accept" \/ (q.op = "changeRole" /\ q.pc = "loaded") => q.want # "OWNER"
  /\ q.op \in {"archive", "setStatus"} => q.want \in Status}

Typed ==
  /\ project \in Status \cup {"absent", "deleted"}
  /\ role \in [Users -> RoleOrNone]
  /\ gone \subseteq Users
  /\ req \in [Reqs -> Asked \cup {Idle}]

Inv == Typed /\ AtMostOneOwner /\ NoProjectNoMembers

LEMMA InitInv == Init => Inv
BY DEF Init, Inv, Typed, AtMostOneOwner, OwnerIndex, NoProjectNoMembers, Members, Nobody,
       RoleOrNone, NoRole

\* A step that leaves the rows alone keeps Inv if it keeps the requests typed.
LEMMA RequestStep ==
  ASSUME Inv, UNCHANGED <<project, role, gone>>, req' \in [Reqs -> Asked \cup {Idle}]
  PROVE  Inv'
BY DEF Inv, Typed, AtMostOneOwner, OwnerIndex, NoProjectNoMembers, Members

LEMMA BeginStep ==
  ASSUME Inv, NEW r \in Reqs, NEW op, NEW u \in Users, NEW t \in Users,
         NEW w \in RoleOrNone \cup Status, NEW pc \in {"role", "authorised", "loaded"},
         op \in {"changeRole", "accept"} => w \in GrantRoles,
         op = "accept" => w # "OWNER",
         op = "transfer" => u # t,
         op = "changeRole" => pc # "loaded",
         op \in {"archive", "setStatus"} => w \in Status,
         Begin(r, op, u, t, w, pc)
  PROVE  Inv'
<1>1. op \in Operation
  BY MembershipAssumption DEF Begin
<1>2. role[u] \in RoleOrNone /\ NoRole \in RoleOrNone
  BY DEF Inv, Typed, RoleOrNone
<1>3. [op |-> op, actor |-> u, target |-> t, want |-> w, seen |-> role[u],
       found |-> NoRole, pc |-> pc] \in Asked
  BY <1>1, <1>2 DEF Asked, Request
<1> QED
  BY <1>3, RequestStep DEF Begin, Inv, Typed

LEMMA ProceedStep ==
  ASSUME Inv, NEW r \in Reqs, NEW ok, NEW f \in RoleOrNone \cup Status,
         NEW pc \in {"role", "authorised", "loaded"}, req[r] # Idle,
         ok /\ req[r].op = "changeRole" /\ pc = "loaded" => req[r].want # "OWNER",
         Proceed(r, ok, f, pc)
  PROVE  Inv'
<1>1. req[r] \in Asked
  BY DEF Inv, Typed
<1>2. ok => [req[r] EXCEPT !.found = f, !.pc = pc] \in Asked
  BY <1>1 DEF Asked, Request
<1> QED
  BY <1>2, RequestStep DEF Proceed, Inv, Typed

-----------------------------------------------------------------------------
(* The steps that begin a request.                                         *)

LEMMA StartStep ==
  ASSUME Inv, NEW r \in Reqs, StartRequest(r)
  PROVE  Inv'
<1> PICK u \in Users :
      \/ \E t \in Users :
           \/ VerifyRole(r, "remove", u, t, NoRole)
           \/ \E w \in GrantRoles : VerifyRole(r, "changeRole", u, t, w)
           \/ LoadOwner(r, u, t)
      \/ VerifyRole(r, "archive", u, u, "ARCHIVED")
      \/ \E s \in Status : VerifyRole(r, "setStatus", u, u, s)
      \/ VerifyRole(r, "hardDelete", u, u, NoRole)
      \/ LoadLeaver(r, u)
      \/ \E w \in GrantRoles : LoadInvitation(r, u, w)
  BY DEF StartRequest, ManageProject, ManageMembers
<1> NoRole \in RoleOrNone /\ GrantRoles \subseteq RoleOrNone /\ "ARCHIVED" \in Status
  BY MembershipAssumption DEF RoleOrNone, Status
<1>1. CASE \E t \in Users : VerifyRole(r, "remove", u, t, NoRole)
  BY <1>1, BeginStep DEF VerifyRole
<1>2. CASE \E t \in Users : \E w \in GrantRoles : VerifyRole(r, "changeRole", u, t, w)
  BY <1>2, BeginStep DEF VerifyRole
<1>3. CASE \E t \in Users : LoadOwner(r, u, t)
  BY <1>3, BeginStep DEF LoadOwner
<1>4. CASE VerifyRole(r, "archive", u, u, "ARCHIVED")
  BY <1>4, BeginStep DEF VerifyRole
<1>5. CASE \E s \in Status : VerifyRole(r, "setStatus", u, u, s)
  BY <1>5, BeginStep DEF VerifyRole
<1>6. CASE VerifyRole(r, "hardDelete", u, u, NoRole)
  BY <1>6, BeginStep DEF VerifyRole
<1>7. CASE LoadLeaver(r, u)
  BY <1>7, BeginStep DEF LoadLeaver
<1>8. CASE \E w \in GrantRoles : LoadInvitation(r, u, w)
  BY <1>8, BeginStep DEF LoadInvitation
<1> QED
  BY <1>1, <1>2, <1>3, <1>4, <1>5, <1>6, <1>7, <1>8

(* The steps that read on.  Only LoadTarget has to be looked into: it is the *)
(* hierarchy check that keeps a role change from naming an owner.            *)

LEMMA ContinueStep ==
  ASSUME Inv, NEW r \in Reqs, ContinueRequest(r)
  PROVE  Inv'
<1> NoRole \in RoleOrNone
  BY DEF RoleOrNone
<1> req[r] \in Asked \cup {Idle} /\ role \in [Users -> RoleOrNone]
  BY DEF Inv, Typed
<1>1. CASE VerifyActive(r)
  BY <1>1, ProceedStep DEF VerifyActive
<1>2. CASE LoadTarget(r)
  <2>1. req[r] # Idle /\ req[r] \in Request
    BY <1>2 DEF LoadTarget, At, Asked
  <2>2. role[req[r].target] \in RoleOrNone
    BY <2>1 DEF Request
  <2>3. HierarchyAllows(req[r].seen, role[req[r].target], req[r].want) => req[r].want # "OWNER"
    BY DEF HierarchyAllows, Senior
  <2> QED
    BY <1>2, <2>1, <2>2, <2>3, ProceedStep DEF LoadTarget
<1>3. CASE CountMembers(r)
  BY <1>3, ProceedStep DEF CountMembers, At
<1>4. CASE LoadHeir(r)
  <2>1. req[r] # Idle /\ req[r] \in Request /\ req[r].op = "transfer"
    BY <1>4 DEF LoadHeir, At, Asked
  <2>2. role[req[r].target] \in RoleOrNone
    BY <2>1 DEF Request
  <2> QED
    BY <1>4, <2>1, <2>2, ProceedStep DEF LoadHeir
<1>5. CASE LoadProject(r)
  <2>1. req[r] # Idle /\ req[r].op # "changeRole"
    BY <1>5 DEF LoadProject, At
  <2>2. CASE project \in Status
    BY <1>5, <2>1, <2>2, ProceedStep DEF LoadProject, Loadable
  <2>3. CASE project \notin Status
    <3>1. Proceed(r, FALSE, NoRole, "loaded")
      BY <1>5, <2>3 DEF LoadProject, Loadable, Proceed, Status
    <3> QED
      BY <2>1, <3>1, ProceedStep
  <2> QED
    BY <2>2, <2>3
<1> QED
  BY <1>1, <1>2, <1>3, <1>4, <1>5 DEF ContinueRequest

-----------------------------------------------------------------------------
(* The steps that write.                                                   *)

LEMMA FinishType ==
  ASSUME Inv, NEW r \in Reqs, Finish(r)
  PROVE  req' \in [Reqs -> Asked \cup {Idle}]
BY DEF Finish, Inv, Typed

\* Taking one row away, or giving somebody who has a row, or a new member of
\* a project that exists, a role other than OWNER.
LEMMA OneRowStep ==
  ASSUME Inv, NEW u \in Users, NEW x \in RoleOrNone, x # "OWNER",
         role' = [role EXCEPT ![u] = x],
         x = NoRole \/ role[u] # NoRole \/ project \in Status,
         UNCHANGED project, gone' \subseteq Users, req' \in [Reqs -> Asked \cup {Idle}]
  PROVE  Inv'
<1>1. \A v \in Users : role'[v] = IF v = u THEN x ELSE role[v]
  BY DEF Inv, Typed
<1>2. OwnerIndex(role)'
  BY <1>1 DEF Inv, AtMostOneOwner, OwnerIndex
<1>3. (project \notin Status => \A v \in Users : role[v] = NoRole)'
  BY <1>1 DEF Inv, NoProjectNoMembers, Members
<1> QED
  BY <1>2, <1>3 DEF Inv, Typed, AtMostOneOwner, NoProjectNoMembers, Members

\* The project's row goes, and with it every membership.
LEMMA DeleteStep ==
  ASSUME Inv, DeleteProject, UNCHANGED gone, req' \in [Reqs -> Asked \cup {Idle}]
  PROVE  Inv'
BY DEF DeleteProject, Nobody, Inv, Typed, AtMostOneOwner, OwnerIndex, NoProjectNoMembers,
       Members, RoleOrNone, NoRole, Status

\* Rows left alone while the project's row exists before and after.
LEMMA StatusStep ==
  ASSUME Inv, project' = project \/ (project \in Status /\ project' \in Status),
         UNCHANGED <<role, gone>>, req' \in [Reqs -> Asked \cup {Idle}]
  PROVE  Inv'
BY DEF Inv, Typed, AtMostOneOwner, OwnerIndex, NoProjectNoMembers, Members

\* The two updates of a transfer: what the unique index accepts is kept, and
\* the project exists because both rows do.
LEMMA TransferStep ==
  ASSUME Inv, NEW r \in Reqs, Transfer(r)
  PROVE  Inv'
<1> DEFINE q == req[r]
           demoted == [role EXCEPT ![q.actor] = "ADMIN"]
           handed == IF q.found = "OWNER" THEN demoted
                     ELSE [demoted EXCEPT ![q.target] = "OWNER"]
<1>1. q.actor \in Users /\ q.target \in Users
  BY DEF Inv, Typed, Asked, Request, Transfer, At
<1>2. req' \in [Reqs -> Asked \cup {Idle}]
  BY FinishType DEF Transfer, RowMatched
<1>3. CASE role' = role
  BY <1>2, <1>3, RequestStep DEF Transfer, RowMatched
<1>4. CASE role' # role
  <2>1. role' = handed /\ role[q.actor] # NoRole /\ OwnerIndex(handed)
    BY <1>4 DEF Transfer, RowMatched
  <2>2. handed \in [Users -> RoleOrNone]
    BY DEF Inv, Typed, RoleOrNone, UserRole
  <2>3. project \in Status
    BY <1>1, <2>1 DEF Inv, NoProjectNoMembers, Members
  <2> HIDE DEF handed
  <2>4. UNCHANGED <<project, gone>>
    BY DEF Transfer, RowMatched
  <2> QED
    BY <1>2, <2>1, <2>2, <2>3, <2>4 DEF Inv, Typed, AtMostOneOwner, OwnerIndex, NoProjectNoMembers
<1> QED
  BY <1>3, <1>4

LEMMA CommitStep ==
  ASSUME Inv, NEW r \in Reqs, WriteAndCommit(r)
  PROVE  Inv'
<1>1. req' \in [Reqs -> Asked \cup {Idle}]
  BY FinishType DEF WriteAndCommit, Remove, ChangeRole, Leave, Transfer, WriteStatus,
                    HardDelete, Accept
<1>2. req[r] \in Asked /\ req[r].actor \in Users /\ req[r].target \in Users
  BY DEF WriteAndCommit, Remove, ChangeRole, Leave, Transfer, WriteStatus, HardDelete,
         Accept, At, Inv, Typed, Asked, Request
<1>3. gone \subseteq Users /\ NoRole \in RoleOrNone /\ NoRole # "OWNER"
  BY DEF Inv, Typed, RoleOrNone, NoRole
<1>4. CASE Remove(r)
  BY <1>1, <1>2, <1>3, <1>4, OneRowStep DEF Remove
<1>5. CASE ChangeRole(r)
  <2>1. req[r].want \in RoleOrNone /\ req[r].want # "OWNER"
    BY <1>2, <1>5, MembershipAssumption DEF ChangeRole, At, Asked, RoleOrNone
  <2>2. CASE role' = role
    BY <1>1, <1>5, <2>2, RequestStep DEF ChangeRole, RowMatched
  <2>3. CASE role' # role
    BY <1>1, <1>2, <1>3, <1>5, <2>1, <2>3, OneRowStep DEF ChangeRole, RowMatched, RowMatched
  <2> QED
    BY <2>2, <2>3
<1>6. CASE Leave(r)
  <2>1. CASE req[r].seen = "OWNER" /\ project \in Status
    BY <1>1, <1>6, <2>1, DeleteStep DEF Leave
  <2>2. CASE req[r].seen = "OWNER" /\ project \notin Status
    BY <1>1, <1>6, <2>2, RequestStep DEF Leave
  <2>3. CASE req[r].seen # "OWNER"
    BY <1>1, <1>2, <1>3, <1>6, <2>3, OneRowStep DEF Leave
  <2> QED
    BY <2>1, <2>2, <2>3
<1>7. CASE Transfer(r)
  BY <1>7, TransferStep
<1>8. CASE WriteStatus(r)
  <2>1. req[r].want \in Status
    BY <1>2, <1>8 DEF WriteStatus, At, Asked
  <2> QED
    BY <1>1, <1>8, <2>1, StatusStep DEF WriteStatus
<1>9. CASE HardDelete(r)
  BY <1>1, <1>9, DeleteStep, RequestStep DEF HardDelete
<1>10. CASE Accept(r)
  <2>1. req[r].want \in RoleOrNone /\ req[r].want # "OWNER"
    BY <1>2, <1>10, MembershipAssumption DEF Accept, At, Asked, RoleOrNone
  <2>2. CASE role' = role
    BY <1>1, <1>10, <2>2, RequestStep DEF Accept
  <2>3. CASE role' # role
    BY <1>1, <1>2, <1>3, <1>10, <2>1, <2>3, OneRowStep DEF Accept, Insertable
  <2> QED
    BY <2>2, <2>3
<1> QED
  BY <1>4, <1>5, <1>6, <1>7, <1>8, <1>9, <1>10 DEF WriteAndCommit

LEMMA CreateStep ==
  ASSUME Inv, NEW u \in Users, CreateProject(u)
  PROVE  Inv'
<1>1. \A v \in Users : role'[v] = IF v = u THEN "OWNER" ELSE NoRole
  BY DEF CreateProject, Inv, Typed, NoProjectNoMembers, Members, Status
<1>2. role' \in [Users -> RoleOrNone] /\ project' \in Status
  BY DEF CreateProject, Inv, Typed, RoleOrNone, UserRole, Status
<1> QED
  BY <1>1, <1>2 DEF CreateProject, Inv, Typed, AtMostOneOwner, OwnerIndex, NoProjectNoMembers,
                    NoRole

LEMMA PurgeStep ==
  ASSUME Inv, NEW u \in Users, PurgeAccount(u)
  PROVE  Inv'
<1>1. gone' \subseteq Users /\ req' \in [Reqs -> Asked \cup {Idle}]
  BY DEF PurgeAccount, Inv, Typed
<1>2. NoRole \in RoleOrNone /\ NoRole # "OWNER"
  BY DEF RoleOrNone, NoRole
<1> QED
  BY <1>1, <1>2, OneRowStep DEF PurgeAccount

LEMMA NextInv == Inv /\ [Next]_vars => Inv'
<1> SUFFICES ASSUME Inv, [Next]_vars PROVE Inv'
  OBVIOUS
<1>1. CASE \E r \in Reqs : StartRequest(r) \/ ContinueRequest(r) \/ WriteAndCommit(r)
  BY <1>1, StartStep, ContinueStep, CommitStep
<1>2. CASE \E u \in Users : CreateProject(u) \/ PurgeAccount(u)
  BY <1>2, CreateStep, PurgeStep
<1>3. CASE UNCHANGED vars
  BY <1>3, RequestStep DEF vars, Inv, Typed
<1> QED
  BY <1>1, <1>2, <1>3 DEF Next

THEOREM Invariant == Spec => []Inv
BY InitInv, NextInv, PTL DEF Spec

-----------------------------------------------------------------------------
(* The theorems.                                                           *)

\* Every variable keeps its type.
THEOREM TypeCorrect == Spec => []TypeOK
<1>1. Inv => TypeOK
  BY DEF Inv, Typed, TypeOK, Asked
<1> QED
  BY <1>1, Invariant, PTL

\* However many requests overlap, a project never has two owners
\* (ix_unique_owner_per_project and the flush in assign_new_owner).
THEOREM OneOwner == Spec => []AtMostOneOwner
<1>1. Inv => AtMostOneOwner
  BY DEF Inv
<1> QED
  BY <1>1, Invariant, PTL

\* No request in flight adds a member to a project whose row is gone.
THEOREM MembersNeedProject == Spec => []NoProjectNoMembers
<1>1. Inv => NoProjectNoMembers
  BY DEF Inv
<1> QED
  BY <1>1, Invariant, PTL

\* A user gets a membership he does not have only by founding the project or
\* by accepting an invitation himself.  A role change or a transfer that read
\* his row before he left or was removed does not bring him back.
NoResurrection ==
  [][\A u \in Users :
       role[u] = NoRole /\ role'[u] # NoRole =>
         \/ project = "absent"
         \/ \E r \in Reqs : Commits(r, {"accept"}) /\ req[r].actor = u]_vars

\* Only founding a project and accepting an invitation make a member of a
\* non-member: every other write touches no row, or a row that is there.
Gains(u) == role[u] = NoRole /\ role'[u] # NoRole

LEMMA CommitGains ==
  ASSUME Inv, NEW r \in Reqs, WriteAndCommit(r), NEW u \in Users, Gains(u)
  PROVE  Accept(r) /\ req[r].actor = u
<1>1. req[r] \in Asked /\ req[r].actor \in Users /\ req[r].target \in Users
  BY DEF WriteAndCommit, Remove, ChangeRole, Leave, Transfer, WriteStatus, HardDelete,
         Accept, At, Inv, Typed, Asked, Request
<1>2. role \in [Users -> RoleOrNone] /\ role[u] = NoRole /\ role'[u] # NoRole
  BY DEF Inv, Typed, Gains
<1>3. ~Remove(r) /\ ~WriteStatus(r) /\ ~HardDelete(r) /\ ~Leave(r)
  BY <1>1, <1>2 DEF Remove, WriteStatus, HardDelete, Leave, DeleteProject, Nobody
<1>4. ~ChangeRole(r)
  BY <1>1, <1>2 DEF ChangeRole, RowMatched
<1>5. ~Transfer(r)
  BY <1>1, <1>2 DEF Transfer, RowMatched
<1>6. Accept(r)
  BY <1>3, <1>4, <1>5 DEF WriteAndCommit
<1> QED
  BY <1>1, <1>2, <1>6 DEF Accept, Insertable

\* A role change or a transfer read before its target left never brings the
\* target back.
THEOREM NothingResurrects == Spec => NoResurrection
<1> DEFINE Granted(u) == \/ project = "absent"
                        \/ \E r \in Reqs : Commits(r, {"accept"}) /\ req[r].actor = u
<1>1. ASSUME Inv, [Next]_vars, NEW u \in Users, Gains(u)
      PROVE  Granted(u)
  <2>1. CASE \E r \in Reqs : StartRequest(r) \/ ContinueRequest(r)
    BY <1>1, <2>1 DEF Gains, StartRequest, ManageProject, ManageMembers, ContinueRequest,
      VerifyRole, LoadOwner, LoadLeaver,
       LoadInvitation, Begin, VerifyActive, LoadTarget, CountMembers, LoadHeir, LoadProject,
       Proceed
  <2>2. CASE \E r \in Reqs : WriteAndCommit(r)
    <3>1. PICK r \in Reqs : WriteAndCommit(r)
      BY <2>2
    <3>2. Accept(r) /\ req[r].actor = u
      BY <1>1, <3>1, CommitGains
    <3>3. At(r, "accept", "loaded") /\ req'[r] = Idle
      BY <1>1, <3>2 DEF Accept, Finish, Inv, Typed
    <3> QED
      BY <3>2, <3>3 DEF Commits
  <2>3. CASE \E v \in Users : CreateProject(v) \/ PurgeAccount(v)
    BY <1>1, <2>3 DEF CreateProject, PurgeAccount, Gains, Inv, Typed
  <2>4. CASE UNCHANGED vars
    BY <1>1, <2>4 DEF vars, Gains
  <2> QED
    BY <1>1, <2>1, <2>2, <2>3, <2>4 DEF Next
<1>2. Inv /\ [Next]_vars =>
        [\A u \in Users :
           role[u] = NoRole /\ role'[u] # NoRole =>
             \/ project = "absent"
             \/ \E r \in Reqs : Commits(r, {"accept"}) /\ req[r].actor = u]_vars
  BY <1>1 DEF Gains
<1> QED
  BY <1>2, Invariant, PTL DEF Spec, NoResurrection

-----------------------------------------------------------------------------
(* ProjectMembership implements Membership.                                *)

\* Who is about to join changes only with a request that accepts.
LEMMA JoiningKept ==
  ASSUME \A q \in Reqs : At(q, "accept", "loaded") \/ At(q, "accept", "loaded")'
                           => req'[q] = req[q]
  PROVE  Joining' = Joining
<1>1. \A q \in Reqs : At(q, "accept", "loaded")' <=> At(q, "accept", "loaded")
  BY DEF At
<1> QED
  BY <1>1 DEF Joining

\* The two modules mean the same roles and statuses.
LEMMA SameWords ==
  Promised!NoRole = NoRole /\ Promised!UserRole = UserRole /\ Promised!Status = Status
BY DEF Promised!NoRole, NoRole, Promised!UserRole, UserRole, Promised!Status, Status

\* A request that reads or is refused is no step of the project.
LEMMA SilentStep ==
  ASSUME Joining' = Joining, UNCHANGED <<project, role>>
  PROVE  UNCHANGED Promised!vars
BY DEF Promised!vars

LEMMA BeginJoining ==
  ASSUME Inv, NEW r \in Reqs, NEW op, NEW u, NEW t, NEW w, NEW pc,
         op # "accept", Begin(r, op, u, t, w, pc)
  PROVE  UNCHANGED Promised!vars
<1>1. \A q \in Reqs : q # r => req'[q] = req[q]
  BY DEF Begin, Inv, Typed
<1>2. req[r] = Idle /\ ~ At(r, "accept", "loaded")'
  BY DEF Begin, Inv, Typed, At
<1>3. Joining' = Joining
  BY <1>1, <1>2, JoiningKept DEF At
<1> QED
  BY <1>3, SilentStep DEF Begin

LEMMA ProceedJoining ==
  ASSUME Inv, NEW r \in Reqs, NEW ok, NEW f, NEW pc,
         req[r] # Idle, req[r].op # "accept", Proceed(r, ok, f, pc)
  PROVE  UNCHANGED Promised!vars
<1>1. \A q \in Reqs : q # r => req'[q] = req[q]
  BY DEF Proceed, Inv, Typed
<1>2. req[r] \in Request
  BY DEF Inv, Typed, Asked
<1>3. ~ At(r, "accept", "loaded") /\ ~ At(r, "accept", "loaded")'
  BY <1>2 DEF Proceed, Inv, Typed, At, Request
<1>4. Joining' = Joining
  BY <1>1, <1>3, JoiningKept
<1> QED
  BY <1>4, SilentStep DEF Proceed

LEMMA FinishJoining ==
  ASSUME Inv, NEW r \in Reqs, req[r].op # "accept", Finish(r)
  PROVE  Joining' = Joining
<1>1. \A q \in Reqs : q # r => req'[q] = req[q]
  BY DEF Finish, Inv, Typed
<1>2. ~ At(r, "accept", "loaded") /\ ~ At(r, "accept", "loaded")'
  BY DEF Finish, Inv, Typed, At
<1> QED
  BY <1>1, <1>2, JoiningKept

LEMMA StartImplements ==
  ASSUME Inv, NEW r \in Reqs, StartRequest(r)
  PROVE  [Promised!Next]_(Promised!vars)
<1>1. CASE \E u \in Users, w \in GrantRoles : LoadInvitation(r, u, w)
  <2>1. PICK u \in Users, w \in GrantRoles : LoadInvitation(r, u, w)
    BY <1>1
  <2>a. /\ w \in UserRole /\ w # "OWNER" /\ project \in Status
        /\ UNCHANGED <<project, role>> /\ req[r] = Idle
        /\ \A q \in Reqs : q # r => req'[q] = req[q]
    BY <2>1, MembershipAssumption DEF LoadInvitation, Begin, Inv, Typed
  <2>b. req'[r] = [op |-> "accept", actor |-> u, target |-> u, want |-> w,
                   seen |-> role[u], found |-> NoRole, pc |-> "loaded"]
    BY <2>1 DEF LoadInvitation, Begin, Inv, Typed
  <2>c. req'[r] \in Request
    BY <2>a, <2>b DEF Request, Operation, Managed, RoleOrNone, Inv, Typed
  <2>2. At(r, "accept", "loaded")' /\ req'[r].actor = u /\ req'[r].want = w
    BY <2>b, <2>c, MembershipAssumption DEF At
  <2>3. \A q \in Reqs : q # r => (At(q, "accept", "loaded")' <=> At(q, "accept", "loaded"))
    BY <2>a DEF At
  <2>n. ~ At(r, "accept", "loaded")
    BY <2>a DEF At
  <2>4. Joining' = Joining \cup {<<u, w>>}
    BY <2>a, <2>2, <2>3, <2>n DEF Joining
  <2>5. Promised!Accept(u, w)
    BY <2>a, <2>4, SameWords DEF Promised!Accept
  <2> QED
    BY <2>a, <2>5, SameWords DEF Promised!Next
<1>2. CASE ~ \E u \in Users, w \in GrantRoles : LoadInvitation(r, u, w)
  BY <1>2, BeginJoining DEF StartRequest, ManageProject, ManageMembers,
    VerifyRole, LoadOwner, LoadLeaver, Managed
<1> QED
  BY <1>1, <1>2

LEMMA ContinueImplements ==
  ASSUME Inv, NEW r \in Reqs, ContinueRequest(r)
  PROVE  UNCHANGED Promised!vars
<1>1. CASE VerifyActive(r)
  BY <1>1, ProceedJoining DEF VerifyActive, CheckActive
<1>2. CASE LoadTarget(r)
  BY <1>2, ProceedJoining DEF LoadTarget, At
<1>3. CASE CountMembers(r)
  BY <1>3, ProceedJoining DEF CountMembers, At
<1>4. CASE LoadHeir(r)
  BY <1>4, ProceedJoining DEF LoadHeir, At
<1>5. CASE LoadProject(r)
  BY <1>5, ProceedJoining DEF LoadProject, At
<1> QED
  BY <1>1, <1>2, <1>3, <1>4, <1>5 DEF ContinueRequest

LEMMA AcceptImplements ==
  ASSUME Inv, NEW r \in Reqs, Accept(r)
  PROVE  [Promised!Next]_(Promised!vars)
<1> DEFINE u == req[r].actor  w == req[r].want
<1>1. /\ <<u, w>> \in Joining /\ u \in Users
      /\ \A q \in Reqs : q # r => req'[q] = req[q]
      /\ ~ At(r, "accept", "loaded")'
  BY DEF Accept, At, Finish, Inv, Typed, Asked, Request, Joining
<1>2. \A q \in Reqs : q # r => (At(q, "accept", "loaded")' <=> At(q, "accept", "loaded"))
  BY <1>1 DEF At
<1>3. Joining' \subseteq Joining /\ Joining \ {<<u, w>>} \subseteq Joining'
  BY <1>1, <1>2 DEF Joining
<1>4. Joining' \in {Joining, Joining \ {<<u, w>>}}
  BY <1>3
<1>5. CASE Insertable(u)
  <2>1. Promised!Join(u, w)
    BY <1>4, <1>5, SameWords DEF Promised!Join, Promised!IsMember, Insertable, Accept
  <2> QED
    BY <1>1, <2>1 DEF Promised!Next
<1>6. CASE ~ Insertable(u)
  <2>1. UNCHANGED <<project, role>>
    BY <1>6 DEF Accept
  <2>2. CASE Joining' = Joining
    BY <2>1, <2>2, SilentStep
  <2>3. CASE Joining' = Joining \ {<<u, w>>}
    <3>1. Promised!Fail(u, w)
      BY <2>1, <2>3 DEF Promised!Fail
    <3> QED
      BY <1>1, <3>1 DEF Promised!Next
  <2> QED
    BY <1>4, <2>2, <2>3
<1> QED
  BY <1>5, <1>6

LEMMA TransferImplements ==
  ASSUME Inv, NEW r \in Reqs, Transfer(r)
  PROVE  [Promised!Next]_(Promised!vars)
<1> DEFINE a == req[r].actor  t == req[r].target
<1>1. /\ a \in Users /\ t \in Users /\ a # t /\ UNCHANGED project
      /\ req[r].op # "accept" /\ Finish(r)
  BY DEF Transfer, RowMatched, At, Inv, Typed, Asked, Request
<1>2. Joining' = Joining
  BY <1>1, FinishJoining
<1>3. CASE role' = role
  BY <1>1, <1>2, <1>3, SilentStep
<1>4. CASE role' # role /\ req[r].found = "OWNER"
  <2>1. role[a] # NoRole /\ role' = [role EXCEPT ![a] = "ADMIN"]
    BY <1>4 DEF Transfer, RowMatched
  <2>2. Promised!Regrade(a, "ADMIN")
    BY <1>1, <1>2, <2>1, SameWords DEF Promised!Regrade, Promised!IsMember
  <2> QED
    BY <1>1, <2>2, SameWords DEF Promised!Next, UserRole
<1>5. CASE role' # role /\ req[r].found # "OWNER"
  <2>1. /\ role[a] # NoRole /\ role[t] # NoRole
        /\ role' = [role EXCEPT ![a] = "ADMIN", ![t] = "OWNER"] /\ OwnerIndex(role')
    BY <1>5 DEF Transfer, RowMatched
  <2>2. Promised!HandOver(a, t)
    BY <1>1, <1>2, <2>1, SameWords
       DEF Promised!HandOver, Promised!IsMember, Promised!OneOwner, OwnerIndex
  <2> QED
    BY <1>1, <2>2 DEF Promised!Next
<1> QED
  BY <1>3, <1>4, <1>5

\* Taking a row away is a Drop, unless it was gone.
LEMMA RowGoes ==
  ASSUME Inv, NEW u \in Users, role' = [role EXCEPT ![u] = NoRole],
         UNCHANGED project, Joining' = Joining
  PROVE  [Promised!Next]_(Promised!vars)
<1>1. CASE role[u] = NoRole
  <2>1. role' = role
    BY <1>1 DEF Inv, Typed
  <2> QED
    BY <2>1, SilentStep
<1>2. CASE role[u] # NoRole
  <2>1. Promised!Drop(u)
    BY <1>2, SameWords DEF Promised!Drop, Promised!IsMember
  <2> QED
    BY <2>1 DEF Promised!Next
<1> QED
  BY <1>1, <1>2

LEMMA ProjectGoes ==
  ASSUME DeleteProject, project \in Status, Joining' = Joining
  PROVE  [Promised!Next]_(Promised!vars)
<1>1. Promised!Dissolve
  BY SameWords DEF Promised!Dissolve, DeleteProject, Nobody
<1> QED
  BY <1>1 DEF Promised!Next

LEMMA CommitImplements ==
  ASSUME Inv, NEW r \in Reqs, WriteAndCommit(r)
  PROVE  [Promised!Next]_(Promised!vars)
<1>1. /\ req[r] \in Asked /\ req[r].actor \in Users /\ req[r].target \in Users
      /\ Finish(r)
  BY DEF WriteAndCommit, Remove, ChangeRole, Leave, Transfer, WriteStatus, HardDelete,
         Accept, At, Inv, Typed, Asked, Request, RowMatched
<1>2. ~ Accept(r) => Joining' = Joining
  <2>1. ~ Accept(r) => req[r].op # "accept"
    BY DEF WriteAndCommit, Remove, ChangeRole, Leave, Transfer, WriteStatus, HardDelete, At
  <2> QED
    BY <1>1, <2>1, FinishJoining
<1>3. CASE Accept(r)
  BY <1>3, AcceptImplements
<1>4. CASE Transfer(r)
  BY <1>4, TransferImplements
<1>5. CASE Remove(r)
  <2>1. Joining' = Joining
    BY <1>2, <1>5 DEF Remove, Accept, At
  <2> QED
    BY <1>1, <1>5, <2>1, RowGoes DEF Remove
<1>6. CASE ChangeRole(r)
  <2>1. Joining' = Joining /\ UNCHANGED project
    BY <1>2, <1>6 DEF ChangeRole, Accept, At
  <2>2. CASE role' = role
    BY <2>1, <2>2, SilentStep
  <2>3. CASE role' # role
    <3>1. /\ role[req[r].target] # NoRole
          /\ role' = [role EXCEPT ![req[r].target] = req[r].want]
      BY <1>6, <2>3 DEF ChangeRole, RowMatched
    <3>2. req[r].want \in UserRole /\ req[r].want # "OWNER"
      BY <1>1, <1>6, MembershipAssumption DEF ChangeRole, At, Asked
    <3>3. Promised!Regrade(req[r].target, req[r].want)
      BY <2>1, <3>1, <3>2, SameWords DEF Promised!Regrade, Promised!IsMember
    <3> QED
      BY <1>1, <3>2, <3>3, SameWords DEF Promised!Next
  <2> QED
    BY <2>2, <2>3
<1>7. CASE Leave(r)
  <2>1. Joining' = Joining
    BY <1>2, <1>7 DEF Leave, Accept, At
  <2>2. CASE req[r].seen = "OWNER" /\ project \in Status
    BY <1>7, <2>1, <2>2, ProjectGoes DEF Leave
  <2>3. CASE req[r].seen = "OWNER" /\ project \notin Status
    BY <1>7, <2>1, <2>3, SilentStep DEF Leave
  <2>4. CASE req[r].seen # "OWNER"
    BY <1>1, <1>7, <2>1, <2>4, RowGoes DEF Leave
  <2> QED
    BY <2>2, <2>3, <2>4
<1>8. CASE WriteStatus(r)
  <2>1. Joining' = Joining /\ UNCHANGED role
    BY <1>2, <1>8 DEF WriteStatus, Accept, At
  <2>2. CASE project' = project
    BY <2>1, <2>2, SilentStep
  <2>3. CASE project' # project
    <3>1. project \in Status /\ project' = req[r].want /\ req[r].want \in Status
      BY <1>1, <1>8, <2>3 DEF WriteStatus, At, Asked
    <3>2. Promised!SetStatus(req[r].want)
      BY <2>1, <3>1, SameWords DEF Promised!SetStatus
    <3> QED
      BY <3>1, <3>2, SameWords DEF Promised!Next
  <2> QED
    BY <2>2, <2>3
<1>9. CASE HardDelete(r)
  <2>1. Joining' = Joining
    BY <1>2, <1>9 DEF HardDelete, Accept, At
  <2> QED
    <3>1. CASE project \in Status
      BY <1>9, <2>1, <3>1, ProjectGoes DEF HardDelete
    <3>2. CASE project \notin Status
      BY <1>9, <2>1, <3>2, SilentStep DEF HardDelete
    <3> QED
      BY <3>1, <3>2
<1> QED
  BY <1>3, <1>4, <1>5, <1>6, <1>7, <1>8, <1>9 DEF WriteAndCommit

\* ProjectMembership is an implementation of Membership: the requests, their
\* checks and their races come down to the steps a project promises.
THEOREM Implementation == Spec => ImplementsMembership
<1>1. Init => Promised!Init
  BY SameWords DEF Init, Promised!Init, Nobody, Joining, At
<1>2. Inv /\ [Next]_vars => [Promised!Next]_(Promised!vars)
  <2> SUFFICES ASSUME Inv, [Next]_vars PROVE [Promised!Next]_(Promised!vars)
    OBVIOUS
  <2>1. CASE \E r \in Reqs : StartRequest(r) \/ ContinueRequest(r) \/ WriteAndCommit(r)
    BY <2>1, StartImplements, ContinueImplements, CommitImplements
  <2>2. CASE \E u \in Users : CreateProject(u)
    <3>1. PICK u \in Users : CreateProject(u)
      BY <2>2
    <3>2. Joining' = Joining
      BY <3>1, JoiningKept DEF CreateProject
    <3>3. Promised!Found(u)
      <4>1. \A v \in Users : role[v] = NoRole
        BY <3>1 DEF CreateProject, Inv, NoProjectNoMembers, Members, Status
      <4> QED
        BY <3>1, <3>2, <4>1, SameWords DEF CreateProject, Promised!Found, Inv, Typed
    <3> QED
      BY <3>3 DEF Promised!Next
  <2>3. CASE \E u \in Users : PurgeAccount(u)
    <3>1. PICK u \in Users : PurgeAccount(u)
      BY <2>3
    <3>2. Joining' = Joining
      BY <3>1, JoiningKept DEF PurgeAccount
    <3> QED
      BY <3>1, <3>2, RowGoes DEF PurgeAccount
  <2>4. CASE UNCHANGED vars
    <3>1. Joining' = Joining
      BY <2>4, JoiningKept DEF vars
    <3> QED
      BY <2>4, <3>1, SilentStep DEF vars
  <2> QED
    BY <2>1, <2>2, <2>3, <2>4 DEF Next
<1> QED
  BY <1>1, <1>2, Invariant, PTL DEF Spec, ImplementsMembership, Promised!Spec

-----------------------------------------------------------------------------
(* Requests that come one at a time.  As long as they do, what a request   *)
(* has read is what is so, and what its checks established still holds:    *)
(* only its own steps have run since.                                      *)

\* What a request that nothing has overtaken relies on when it commits.
Fresh(q) ==
  /\ q.seen = role[q.actor]
  /\ q.op \in Managed => q.seen \in AllowedRoles(q.op)
  /\ q.op = "remove" => q.want = NoRole
  /\ q.op \in {"remove", "changeRole"} /\ q.pc = "loaded" =>
       /\ q.found = role[q.target] /\ q.found # NoRole
       /\ q.want \in RoleOrNone /\ HierarchyAllows(q.seen, q.found, q.want)
  /\ q.op = "leave" /\ q.pc = "loaded" /\ q.seen = "OWNER" => Members = {q.actor}
  /\ q.op = "transfer" => q.seen = "OWNER"
  /\ q.op = "transfer" /\ q.pc = "loaded" => q.found = role[q.target] /\ q.found # NoRole
  /\ q.op = "hardDelete" /\ q.pc = "loaded" => project = "ARCHIVED"

AllFresh == \A r \in Reqs : req[r] # Idle => Fresh(req[r])
OneInFlight == \A q, r \in Reqs : req[q] # Idle /\ req[r] # Idle => q = r
OwnerStays == gone = {} => ProjectHasOwner

SerialInv == serial => AllFresh /\ OneInFlight /\ OwnerStays

\* In a step that keeps the history serial nobody is overtaken.
NobodyOvertaken == \A r \in Reqs : req[r] # Idle => req'[r] # req[r]

LEMMA SerialInit == MCInit => SerialInv
BY DEF MCInit, Init, SerialInv, AllFresh, OneInFlight, OwnerStays, ProjectHasOwner, Status

\* The roles the hierarchy check lets somebody act on are below his own.
LEMMA AllowedIsRank ==
  ASSUME NEW curr \in Senior, NEW relation \in RoleOrNone, NEW new \in RoleOrNone,
         HierarchyAllows(curr, relation, new)
  PROVE  Outranks(curr, relation) /\ relation # "OWNER"
<1>1. Outranks(curr, relation)
  BY HierarchyIsRank
<1>2. relation # "OWNER"
  BY DEF HierarchyAllows, Senior
<1> QED
  BY <1>1, <1>2

\* Only the request that takes the step is in flight.
LEMMA OneMoves ==
  ASSUME Inv, NobodyOvertaken, NEW r \in Reqs, NEW q, req' = [req EXCEPT ![r] = q]
  PROVE  /\ req'[r] = q
         /\ \A s \in Reqs : s # r => req[s] = Idle /\ req'[s] = Idle
BY DEF Inv, Typed, NobodyOvertaken

\* A request that reads goes on to what is fresh if it was alone before.
LEMMA ReadKeepsSerial ==
  ASSUME Inv, SerialInv, serial, NobodyOvertaken, UNCHANGED <<project, role, gone>>,
         NEW r \in Reqs, NEW q, q # Idle => Fresh(q), req' = [req EXCEPT ![r] = q]
  PROVE  SerialInv'
<1>1. /\ req'[r] = q
      /\ \A s \in Reqs : s # r => req'[s] = Idle
  BY OneMoves
<1>2. ASSUME NEW s \in Reqs, req'[s] # Idle PROVE Fresh(req[s])'
  <2>1. s = r /\ Fresh(q)
    BY <1>1, <1>2
  <2> QED
    BY <1>1, <2>1 DEF Fresh, Members
<1>3. OneInFlight'
  BY <1>1 DEF OneInFlight
<1>4. OwnerStays'
  BY DEF SerialInv, OwnerStays, ProjectHasOwner
<1> QED
  BY <1>2, <1>3, <1>4 DEF SerialInv, AllFresh

\* Fresh checks, one for each way to begin.
LEMMA StartKeepsSerial ==
  ASSUME Inv, SerialInv, serial, NobodyOvertaken, NEW r \in Reqs, StartRequest(r)
  PROVE  SerialInv'
<1>1. ASSUME NEW op, NEW u \in Users, NEW t, NEW w, NEW pc, Begin(r, op, u, t, w, pc),
             op \in Managed => role[u] \in AllowedRoles(op) /\ pc # "loaded",
             op = "remove" => w = NoRole,
             op = "leave" => role[u] # "OWNER" \/ pc # "loaded",
             op = "transfer" => role[u] = "OWNER" /\ pc # "loaded"
      PROVE  SerialInv'
  <2> DEFINE q == [op |-> op, actor |-> u, target |-> t, want |-> w,
                   seen |-> role[u], found |-> NoRole, pc |-> pc]
  <2>1. req' = [req EXCEPT ![r] = q] /\ UNCHANGED <<project, role, gone>>
    BY <1>1 DEF Begin
  <2>2. Fresh(q)
    BY <1>1 DEF Fresh, Managed
  <2> HIDE DEF q
  <2> QED
    BY <2>1, <2>2, ReadKeepsSerial
<1>2. PICK u \in Users :
        \/ ManageProject(r, u) \/ ManageMembers(r, u)
        \/ \E w \in GrantRoles : LoadInvitation(r, u, w)
  BY DEF StartRequest
<1>3. ASSUME NEW op, NEW t, NEW w, VerifyRole(r, op, u, t, w), op = "remove" => w = NoRole
      PROVE  SerialInv'
  <2>1. PICK pc \in {"role", "authorised"} : Begin(r, op, u, t, w, pc)
    BY <1>3 DEF VerifyRole
  <2>2. role[u] \in AllowedRoles(op) /\ op \notin {"leave", "transfer"}
    BY <1>3 DEF VerifyRole, Managed
  <2> QED
    BY <1>1, <1>3, <2>1, <2>2
<1>4. ASSUME NEW t \in Users, LoadOwner(r, u, t) PROVE SerialInv'
  BY <1>1, <1>4 DEF LoadOwner, Managed
<1>5. ASSUME LoadLeaver(r, u) PROVE SerialInv'
  BY <1>1, <1>5 DEF LoadLeaver, Managed
<1>6. ASSUME NEW w \in GrantRoles, LoadInvitation(r, u, w) PROVE SerialInv'
  BY <1>1, <1>6 DEF LoadInvitation, Managed
<1> QED
  BY <1>2, <1>3, <1>4, <1>5, <1>6 DEF ManageProject, ManageMembers

\* Fresh checks, one for each later read.
LEMMA ContinueKeepsSerial ==
  ASSUME Inv, SerialInv, serial, NobodyOvertaken, NEW r \in Reqs, ContinueRequest(r)
  PROVE  SerialInv'
<1>1. req[r] # Idle /\ req[r] \in Asked /\ Fresh(req[r]) /\ req[r].actor \in Users
  BY DEF ContinueRequest, VerifyActive, LoadTarget, CountMembers, LoadHeir, LoadProject, At,
     Inv, Typed, SerialInv, AllFresh, Asked, Request
<1>2. ASSUME NEW ok \in BOOLEAN, NEW f, NEW pc, Proceed(r, ok, f, pc),
             ok => Fresh([req[r] EXCEPT !.found = f, !.pc = pc])
      PROVE  SerialInv'
  <2> DEFINE q == IF ok THEN [req[r] EXCEPT !.found = f, !.pc = pc] ELSE Idle
  <2>1. req' = [req EXCEPT ![r] = q] /\ UNCHANGED <<project, role, gone>>
    BY <1>2 DEF Proceed
  <2>2. q # Idle => Fresh(q)
    BY <1>2
  <2> HIDE DEF q
  <2> QED
    BY <2>1, <2>2, ReadKeepsSerial
<1>3. CASE VerifyActive(r)
  <2>1. req[r].op \in Managed /\ req[r].op \notin {"leave", "transfer"}
    BY <1>3 DEF VerifyActive, CheckActive, Managed
  <2>2. Fresh([req[r] EXCEPT !.found = NoRole, !.pc = "authorised"])
    BY <1>1, <2>1 DEF Fresh, Asked, Request
  <2>3. /\ Proceed(r, project \in Status \ {"ARCHIVED"}, NoRole, "authorised")
        /\ (project \in Status \ {"ARCHIVED"}) \in BOOLEAN
    BY <1>3 DEF VerifyActive
  <2> QED
    BY <1>2, <2>2, <2>3
<1>4. CASE LoadTarget(r)
  <2>1. req[r].op \in {"remove", "changeRole"} /\ req[r].want \in RoleOrNone
    <3>1. NoRole \in RoleOrNone /\ GrantRoles \subseteq RoleOrNone
      BY MembershipAssumption DEF RoleOrNone
    <3> QED
      BY <1>1, <1>4, <3>1 DEF LoadTarget, At, Asked, Fresh
  <2> DEFINE ok == /\ role[req[r].target] # NoRole
                   /\ req[r].actor # req[r].target
                   /\ HierarchyAllows(req[r].seen, role[req[r].target], req[r].want)
  <2>2. ok => Fresh([req[r] EXCEPT !.found = role[req[r].target], !.pc = "loaded"])
    BY <1>1, <2>1 DEF Fresh, Asked, Request, Managed
  <2>3. Proceed(r, ok, role[req[r].target], "loaded")
    BY <1>4 DEF LoadTarget
  <2> HIDE DEF ok
  <2>4. ok \in BOOLEAN
    BY DEF ok, HierarchyAllows
  <2> QED
    BY <1>2, <2>2, <2>3, <2>4
<1>5. CASE CountMembers(r)
  <2>1. req[r].op = "leave" /\ req[r].actor \in Users
    BY <1>1, <1>5 DEF CountMembers, At
  <2> DEFINE ok == project \in Status /\ \A u, v \in Members : u = v
  <2>2. ASSUME ok, req[r].seen = "OWNER" PROVE Members = {req[r].actor}
    BY <1>1, <2>2 DEF Fresh, Members, NoRole
  <2>3. ok => Fresh([req[r] EXCEPT !.found = NoRole, !.pc = "loaded"])
    BY <1>1, <2>1, <2>2 DEF Fresh, Asked, Request, Managed
  <2>4. Proceed(r, ok, NoRole, "loaded")
    BY <1>5 DEF CountMembers
  <2> HIDE DEF ok
  <2>5. ok \in BOOLEAN
    BY DEF ok
  <2> QED
    BY <1>2, <2>3, <2>4, <2>5
<1>6. CASE LoadHeir(r)
  <2>1. req[r].op = "transfer"
    BY <1>6 DEF LoadHeir, At
  <2>2. role[req[r].target] # NoRole =>
          Fresh([req[r] EXCEPT !.found = role[req[r].target], !.pc = "loaded"])
    BY <1>1, <2>1 DEF Fresh, Asked, Request, Managed
  <2> QED
    BY <1>2, <1>6, <2>2 DEF LoadHeir
<1>7. CASE LoadProject(r)
  <2>1. PICK op \in {"archive", "setStatus", "hardDelete"} :
          At(r, op, "authorised") /\ Proceed(r, Loadable(op), project, "loaded")
    BY <1>7 DEF LoadProject
  <2> DEFINE ok == Loadable(op)
  <2>2. ok => Fresh([req[r] EXCEPT !.found = project, !.pc = "loaded"])
    BY <1>1, <2>1 DEF Fresh, Asked, Request, Managed, At, Loadable
  <2>3. ok \in BOOLEAN
    BY DEF Loadable
  <2>4. Proceed(r, ok, project, "loaded")
    BY <2>1
  <2> HIDE DEF ok
  <2> QED
    BY <1>2, <2>2, <2>3, <2>4
<1> QED
  BY <1>3, <1>4, <1>5, <1>6, <1>7 DEF ContinueRequest

\* Whoever the check of the hierarchy let through acts on somebody below him.
LEMMA TargetIsBelow ==
  ASSUME Inv, NEW r \in Reqs, Fresh(req[r]), NEW op \in {"remove", "changeRole"},
         At(r, op, "loaded")
  PROVE  /\ Outranks(role[req[r].actor], role[req[r].target])
         /\ role[req[r].target] # "OWNER" /\ req[r].want # "OWNER"
<1>1. /\ req[r].seen \in Senior /\ req[r].seen = role[req[r].actor]
      /\ req[r].found = role[req[r].target] /\ req[r].want \in RoleOrNone
      /\ HierarchyAllows(req[r].seen, req[r].found, req[r].want)
  BY DEF Fresh, At, Managed, AllowedRoles, Senior
<1>2. req[r].found \in RoleOrNone /\ req[r].target \in Users
  BY <1>1 DEF At, Inv, Typed, Asked, Request
<1>3. req[r].want # "OWNER"
  BY <1>1 DEF HierarchyAllows, Senior
<1> QED
  BY <1>1, <1>2, <1>3, AllowedIsRank

\* A commit that nothing has overtaken leaves an owner to a project it leaves.
LEMMA CommitKeepsSerial ==
  ASSUME Inv, SerialInv, serial, NobodyOvertaken, NEW r \in Reqs, WriteAndCommit(r)
  PROVE  SerialInv'
<1>1. /\ req[r] # Idle /\ req[r] \in Asked /\ Fresh(req[r]) /\ Finish(r) /\ gone' = gone
      /\ req[r].actor \in Users /\ req[r].target \in Users
  BY DEF WriteAndCommit, Remove, ChangeRole, Leave, Transfer, WriteStatus, HardDelete, Accept, At,
     Inv, Typed, SerialInv, AllFresh, Asked, Request
<1>2. \A s \in Reqs : req'[s] = Idle
  BY <1>1, OneMoves DEF Finish
<1>3. AllFresh' /\ OneInFlight'
  BY <1>2 DEF AllFresh, OneInFlight
<1> SUFFICES ASSUME gone = {}, project' \in Status PROVE \E u \in Users : role'[u] = "OWNER"
  BY <1>1, <1>3 DEF SerialInv, OwnerStays, ProjectHasOwner
<1>4. project \in Status
  BY <1>1 DEF WriteAndCommit, Remove, ChangeRole, Leave, Transfer, WriteStatus, HardDelete, Accept,
     DeleteProject, Status
<1>5. PICK o \in Users : role[o] = "OWNER"
  BY <1>4 DEF SerialInv, OwnerStays, ProjectHasOwner
<1>6. role \in [Users -> RoleOrNone] /\ AtMostOneOwner
  BY DEF Inv, Typed
<1>7. CASE Remove(r)
  BY <1>1, <1>5, <1>6, <1>7, TargetIsBelow DEF Remove
<1>8. CASE ChangeRole(r)
  BY <1>1, <1>5, <1>6, <1>8, TargetIsBelow DEF ChangeRole
<1>9. CASE Leave(r)
  BY <1>1, <1>4, <1>5, <1>6, <1>9 DEF Leave, DeleteProject, Fresh, Status, At
<1>10. CASE Transfer(r)
  <2>1. /\ role[req[r].actor] = "OWNER" /\ req[r].actor # req[r].target
        /\ req[r].found = role[req[r].target]
    BY <1>1, <1>10 DEF Transfer, At, Fresh, Asked
  <2>2. req[r].found # "OWNER"
    BY <1>1, <1>6, <2>1 DEF AtMostOneOwner
  <2>3. role' = role \/ role' = [role EXCEPT ![req[r].actor] = "ADMIN", ![req[r].target] = "OWNER"]
    BY <1>10, <2>2 DEF Transfer
  <2> QED
    BY <1>1, <1>5, <1>6, <2>3
<1>11. CASE WriteStatus(r) \/ HardDelete(r)
  BY <1>5, <1>11 DEF WriteStatus, HardDelete, DeleteProject, Status
<1>12. CASE Accept(r)
  BY <1>1, <1>5, <1>6, <1>12 DEF Accept, Insertable, NoRole
<1> QED
  BY <1>7, <1>8, <1>9, <1>10, <1>11, <1>12 DEF WriteAndCommit

LEMMA SerialNext == Inv /\ SerialInv /\ [MCNext]_<<vars, serial>> => SerialInv'
<1> SUFFICES ASSUME Inv, SerialInv, [MCNext]_<<vars, serial>>, serial' PROVE SerialInv'
  BY DEF SerialInv
<1>1. CASE UNCHANGED <<vars, serial>>
  BY <1>1 DEF vars, SerialInv, AllFresh, OneInFlight, OwnerStays, ProjectHasOwner, Fresh, Members
<1>2. CASE MCNext
  <2>1. serial /\ NobodyOvertaken /\ Next
    BY <1>2 DEF MCNext, NobodyOvertaken
  <2>2. CASE \E r \in Reqs : StartRequest(r) \/ ContinueRequest(r) \/ WriteAndCommit(r)
    BY <2>1, <2>2, StartKeepsSerial, ContinueKeepsSerial, CommitKeepsSerial
  <2>3. CASE \E u \in Users : CreateProject(u) \/ PurgeAccount(u)
    <3>1. PICK u \in Users : CreateProject(u) \/ PurgeAccount(u)
      BY <2>3
    <3>2. \A r \in Reqs : req'[r] = Idle
      BY <2>1, <3>1 DEF NobodyOvertaken, CreateProject, PurgeAccount
    <3>3. OwnerStays'
      <4>1. CASE CreateProject(u)
        BY <4>1 DEF CreateProject, OwnerStays, ProjectHasOwner, Inv, Typed
      <4>2. CASE PurgeAccount(u)
        BY <4>2 DEF PurgeAccount, OwnerStays
      <4> QED
        BY <3>1, <4>1, <4>2
    <3> QED
      BY <3>2, <3>3 DEF SerialInv, AllFresh, OneInFlight
  <2> QED
    BY <2>1, <2>2, <2>3 DEF Next
<1> QED
  BY <1>1, <1>2

\* A request past its checks is taken out by its write alone.
LEMMA CommitIsWrite ==
  ASSUME Inv, [Next]_vars, NEW r \in Reqs, NEW op, At(r, op, "loaded"), req'[r] = Idle
  PROVE  WriteAndCommit(r)
<1> USE DEF At, Inv, Typed
<1>1. req[r] # Idle /\ req[r].pc = "loaded" /\ req' # req
  OBVIOUS
<1>2. PICK s \in Reqs : StartRequest(s) \/ ContinueRequest(s) \/ WriteAndCommit(s)
  BY <1>1 DEF Next, CreateProject, PurgeAccount, vars
<1>3. s = r
  BY <1>1, <1>2 DEF StartRequest, ManageProject, ManageMembers, VerifyRole, LoadOwner, LoadLeaver,
     LoadInvitation, Begin, ContinueRequest, VerifyActive, LoadTarget, CountMembers, LoadHeir,
     LoadProject, Proceed, WriteAndCommit, Remove, ChangeRole, Leave, Transfer, WriteStatus,
     HardDelete, Accept, Finish
<1>4. ~ StartRequest(r)
  BY <1>1 DEF StartRequest, ManageProject, ManageMembers, VerifyRole, LoadOwner, LoadLeaver,
     LoadInvitation, Begin
<1>5. ~ ContinueRequest(r)
  BY <1>1 DEF ContinueRequest, VerifyActive, LoadTarget, CountMembers, LoadHeir, LoadProject
<1> QED
  BY <1>2, <1>3, <1>4, <1>5

\* The history variable restricts nothing.
LEMMA HistoryOnly == MCSpec => Spec
<1>1. MCInit => Init
  BY DEF MCInit
<1>2. [MCNext]_<<vars, serial>> => [Next]_vars
  BY DEF MCNext, vars
<1> QED
  BY <1>1, <1>2, PTL DEF MCSpec, Spec

\* While requests come one at a time each commits what it has checked.
THEOREM SerialRequests == MCSpec => [](Inv /\ SerialInv)
<1>1. MCSpec => []Inv
  BY HistoryOnly, Invariant, PTL
<1> QED
  BY <1>1, SerialInit, SerialNext, PTL DEF MCSpec

\* As long as requests do not overlap and no account is purged, a project has
\* an owner: assign_new_owner, leave_from_project and the hierarchy check.
THEOREM OwnerRemains == MCSpec => []SerialProjectHasOwner
<1>1. SerialInv => SerialProjectHasOwner
  BY DEF SerialInv, OwnerStays, SerialProjectHasOwner
<1> QED
  BY <1>1, SerialRequests, PTL

\* As long as requests do not overlap nobody acts on whom he does not outrank.
THEOREM HierarchyKept == MCSpec => SerialHierarchy
<1>1. Inv /\ SerialInv /\ [MCNext]_<<vars, serial>> => [serial => CommittedByRank]_vars
  <2> SUFFICES ASSUME Inv, SerialInv, serial, NEW r \in Reqs, Commits(r, {"remove", "changeRole"})
               PROVE  Outranks(role[req[r].actor], role[req[r].target])
    BY DEF CommittedByRank
  <2>1. PICK op \in {"remove", "changeRole"} : At(r, op, "loaded")
    BY DEF Commits
  <2>2. Fresh(req[r])
    BY <2>1 DEF SerialInv, AllFresh, At
  <2> QED
    BY <2>1, <2>2, TargetIsBelow
<1> QED
  BY <1>1, SerialRequests, PTL DEF MCSpec, SerialHierarchy

\* As long as requests do not overlap a project goes with its last member or
\* from the archive.
THEOREM DeletedInOrder == MCSpec => SerialDeletedInOrder
<1>1. Inv /\ SerialInv /\ [MCNext]_<<vars, serial>>
        => [serial => LeftAlone /\ DeletedFromArchive]_vars
  <2> SUFFICES ASSUME Inv, SerialInv, serial, [Next]_vars, vars' # vars
               PROVE  LeftAlone /\ DeletedFromArchive
    BY DEF MCNext, LeftAlone, DeletedFromArchive, vars
  <2>1. ASSUME NEW r \in Reqs, Commits(r, {"leave"}),
               NEW u \in Members, role[u] = "OWNER", role'[u] = NoRole
        PROVE  Members = {req[r].actor}
    <3>1. Leave(r)
      BY <2>1, CommitIsWrite DEF Commits, At, WriteAndCommit, Remove, ChangeRole, Leave, Transfer,
         WriteStatus, HardDelete, Accept
    <3>2. Fresh(req[r]) /\ req[r].pc = "loaded" /\ req[r].op = "leave"
      BY <3>1 DEF Leave, At, SerialInv, AllFresh
    <3>3. req[r].seen = "OWNER"
      BY <2>1, <3>1, <3>2 DEF Leave, Fresh, Inv, Typed, Members, NoRole
    <3> QED
      BY <3>2, <3>3 DEF Fresh
  <2>2. ASSUME NEW r \in Reqs, Commits(r, {"hardDelete"}) PROVE project = "ARCHIVED"
    BY <2>2 DEF Commits, At, SerialInv, AllFresh, Fresh
  <2> QED
    BY <2>1, <2>2 DEF LeftAlone, DeletedFromArchive
<1> QED
  BY <1>1, SerialRequests, PTL DEF MCSpec, SerialDeletedInOrder
=============================================================================
