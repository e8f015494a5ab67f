------------------------- MODULE TaskWorkflowProofs -------------------------
(***************************************************************************)
(* What concurrent requests on a task keep, for any number of them, of     *)
(* users and of purges: its assignee is an account that exists, a deleted  *)
(* task stays deleted, and only owners and admins take a task from someone.*)
(* And what the handlers' checks keep as long as no request overtakes      *)
(* another: a task in TODO is unassigned, its status moves place by place, *)
(* and a task in review stays its assignee's.                              *)
(***************************************************************************)
EXTENDS MCTaskWorkflow, TLAPS

\* A request that may reassign was let in by verify_user_role as an owner's or
\* an admin's.
ManagersChecked ==
  \A r \in Reqs : req[r] # Idle /\ req[r].op \in {"assign", "unassign"} => req[r].seen \in Senior

Inv == TypeOK /\ AssigneeExists /\ ManagersChecked

\* The request slot r holds q: a request that was let in, or nothing.
Admitted(q) ==
  /\ q \in Request \cup {Idle}
  /\ q # Idle /\ q.op \in {"assign", "unassign"} => q.seen \in Senior

LEMMA Rows == Blank \in Row /\ Absent.status = "absent" /\ Deleted.status = "deleted"
              /\ \A t \in Row : t \notin NoRow
  BY DEF Blank, Row, Assignee, TaskStatus, NoRow, Absent, Deleted

\* The first state satisfies the invariant.
LEMMA InitInv == Init => Inv
<1> SUFFICES ASSUME Init PROVE Inv
  OBVIOUS
<1>1. role \in [Users -> RoleOrNone]
  BY TaskAssumption DEF Init, RoleOrNone, UserRole
<1>2. TypeOK
  BY <1>1 DEF Init, TypeOK, NoRow
<1>3. AssigneeExists /\ ManagersChecked
  BY DEF Init, AssigneeExists, Exists, NoRow, ManagersChecked
<1>. QED BY <1>2, <1>3 DEF Inv

\* A step keeps the invariant if it leaves an admitted request in its slot, a
\* row whose assignee has an account, and the rest of the state well typed.
LEMMA StepInv ==
  ASSUME Inv, NEW r \in Reqs, NEW q, Admitted(q), req' = [req EXCEPT ![r] = q],
         task' \in Row \cup NoRow, task' \notin NoRow => task'.assignee \notin gone,
         UNCHANGED <<role, active, gone>>
  PROVE  Inv'
<1>1. TypeOK'
  BY DEF Inv, TypeOK, Admitted
<1>2. AssigneeExists'
  BY DEF AssigneeExists, Exists
<1>3. ManagersChecked'
  BY DEF Inv, TypeOK, ManagersChecked, Admitted
<1>. QED BY <1>1, <1>2, <1>3 DEF Inv

\* Reading and checking keeps the invariant.
LEMMA ProceedInv ==
  ASSUME Inv, NEW r \in Reqs, req[r] # Idle, NEW ok \in BOOLEAN, NEW f \in Row,
         NEW pc \in {"role", "authorised", "target", "loaded"}, Proceed(r, ok, f, pc)
  PROVE  Inv'
<1> DEFINE q == IF ok THEN [req[r] EXCEPT !.found = f, !.pc = pc] ELSE Idle
<1>1. req[r] \in Request
  BY DEF Inv, TypeOK
<1>2. Admitted(q)
  <2>1. [req[r] EXCEPT !.found = f, !.pc = pc] \in Request
    BY <1>1 DEF Request
  <2>2. /\ [req[r] EXCEPT !.found = f, !.pc = pc].op = req[r].op
        /\ [req[r] EXCEPT !.found = f, !.pc = pc].seen = req[r].seen
    BY <1>1 DEF Request
  <2>. QED BY <2>1, <2>2 DEF Inv, ManagersChecked, Admitted
<1>3. req' = [req EXCEPT ![r] = q] /\ UNCHANGED <<task, role, active, gone>>
  BY DEF Proceed
<1> HIDE DEF q
<1>. QED BY <1>2, <1>3, StepInv DEF Inv, TypeOK, AssigneeExists, Exists

\* So does letting a request in.
LEMMA VerifyRoleInv ==
  ASSUME Inv, NEW r \in Reqs, NEW op \in Operation, NEW u \in Users, NEW t \in Assignee,
         VerifyRole(r, op, u, t)
  PROVE  Inv'
<1>0. PICK s \in AllowedRoles(op) :
        req' = [req EXCEPT ![r] = [op |-> op, actor |-> u, target |-> t, seen |-> s,
                                   found |-> Blank, pc |-> "role"]]
  BY DEF VerifyRole
<1> DEFINE q == [op |-> op, actor |-> u, target |-> t, seen |-> s,
                 found |-> Blank, pc |-> "role"]
<1>1. s \in UserRole
  BY DEF AllowedRoles, Workers, UserRole
<1>2. q \in Request /\ q.op = op /\ q.seen = s
  BY <1>1, Rows DEF Request
<1>3. op \in {"assign", "unassign"} => s \in Senior
  BY DEF AllowedRoles, Workers, ManagersOnly, Senior
<1>4. Admitted(q)
  BY <1>2, <1>3 DEF Admitted
<1>5. req' = [req EXCEPT ![r] = q] /\ UNCHANGED <<task, role, active, gone>>
  BY <1>0 DEF VerifyRole
<1> HIDE DEF q
<1>. QED BY <1>4, <1>5, StepInv DEF Inv, TypeOK, AssigneeExists, Exists

\* What a handler assigns to the task is a row, whose assignee is the one it
\* read unless the handler is there to change him.
LEMMA EditedRow ==
  ASSUME NEW q \in Request, q.op \in DOMAIN StatusChange \cup {"assign", "unassign"}
  PROVE  /\ Edited(q) \in Row
         /\ q.op \notin {"assign", "unassign"} => Edited(q).assignee = q.found.assignee
<1>1. CASE q.op \in DOMAIN StatusChange
  <2>1. StatusChange[q.op].to \in TaskStatus
    BY <1>1 DEF StatusChange, TaskStatus
  <2>2. q.found \in Row
    BY DEF Request
  <2>3. Edited(q) = [q.found EXCEPT !.status = StatusChange[q.op].to]
    BY <1>1 DEF Edited
  <2>. QED BY <2>1, <2>2, <2>3 DEF Row
<1>2. CASE q.op = "assign"
  <2>1. Edited(q) = [assignee |-> q.target, status |-> "IN_PROGRESS"]
    BY <1>2 DEF Edited, StatusChange
  <2>. QED BY <1>2, <2>1 DEF Row, Assignee, TaskStatus, Request
<1>3. CASE q.op = "unassign"
  <2>1. Edited(q) = Blank
    BY <1>3 DEF Edited, StatusChange
  <2>. QED BY <1>3, <2>1, Rows
<1>. QED BY <1>1, <1>2, <1>3

\* The writes of a request that has passed its checks keep the invariant.
LEMMA WriteInv == ASSUME Inv, NEW r \in Reqs, Write(r) PROVE Inv'
<1>1. /\ req[r] # Idle /\ req[r] \in Request
      /\ req' = [req EXCEPT ![r] = Idle] /\ UNCHANGED <<role, active, gone>>
  BY DEF Write, Update, Create, Delete, SelfAssign, At, Inv, TypeOK
<1>2. Admitted(Idle)
  BY DEF Admitted
<1>3. task \in Row \cup NoRow /\ (task \notin NoRow => task.assignee \notin gone)
  BY DEF Inv, TypeOK, AssigneeExists, Exists
<1>4. Nobody \notin gone
  BY TaskAssumption DEF Inv, TypeOK
<1>5. SUFFICES task' \in Row \cup NoRow /\ (task' \notin NoRow => task'.assignee \notin gone)
  BY <1>1, <1>2, StepInv
<1>6. CASE Update(r)
  <2> DEFINE q == req[r]
  <2>1. /\ q.op \in DOMAIN StatusChange \cup {"assign", "unassign"}
        /\ task' = IF RowMatched /\ (Edited(q).assignee # q.found.assignee => ForeignKey(Edited(q).assignee))
                   THEN ChangedColumns(task, q.found, Edited(q)) ELSE task
    BY <1>6 DEF Update, At
  <2>2. Edited(q) \in Row
    BY <1>1, <2>1, EditedRow
  <2>3. CASE task' = task
    BY <1>3, <2>3
  <2>4. CASE /\ task \in Row /\ task \notin NoRow
             /\ Edited(q).assignee # q.found.assignee => ForeignKey(Edited(q).assignee)
             /\ task' = ChangedColumns(task, q.found, Edited(q))
    <3> HIDE DEF q
    <3>1. task' \in Row
      BY <2>2, <2>4 DEF ChangedColumns, Row
    <3>2. task'.assignee = task.assignee \/ ForeignKey(task'.assignee)
      BY <2>4 DEF ChangedColumns
    <3>. QED BY <1>3, <2>4, <3>1, <3>2 DEF ForeignKey
  <2>. QED BY <1>3, <2>1, <2>3, <2>4 DEF RowMatched
<1>7. CASE Create(r)
  <2>1. PICK t \in Assignee :
          task' = IF task = Absent /\ ForeignKey(t)
                  THEN [assignee |-> t, status |-> IF t = Nobody THEN "TODO" ELSE "IN_PROGRESS"]
                  ELSE task
    BY <1>1, <1>7 DEF Create, Request
  <2>. QED BY <1>3, <2>1 DEF ForeignKey, Row, TaskStatus
<1>8. CASE Delete(r)
  BY <1>8 DEF Delete, NoRow
<1>9. CASE SelfAssign(r)
  <2>1. req[r].actor \in Assignee
    BY <1>1 DEF Request, Assignee
  <2>. QED BY <1>3, <1>9, <2>1 DEF SelfAssign, ForeignKey, Row, TaskStatus
<1>. QED BY <1>6, <1>7, <1>8, <1>9 DEF Write

\* What happens around the task keeps it; in particular a purge releases the
\* tasks of the account it removes.
LEMMA SurroundingsInv == ASSUME Inv, NEW r \in Reqs, Surroundings(r) PROVE Inv'
<1>1. UNCHANGED req
  BY DEF Surroundings, MemberChanges, PurgeAccount, Archive
<1>2. ManagersChecked'
  BY <1>1 DEF Inv, ManagersChecked
<1>3. CASE \E u \in Users : \E w \in RoleOrNone : MemberChanges(r, u, w)
  BY <1>2, <1>3 DEF MemberChanges, Inv, TypeOK, AssigneeExists, Exists
<1>4. CASE Archive(r)
  BY <1>2, <1>4 DEF Archive, Inv, TypeOK, AssigneeExists, Exists
<1>5. ASSUME NEW u \in Users, PurgeAccount(r, u) PROVE Inv'
  <2>1. gone' = gone \cup {u} /\ UNCHANGED active /\ task' = ReleasedRow(u)
    BY <1>5 DEF PurgeAccount
  <2>2. role' \in [Users -> RoleOrNone]
    BY <1>5 DEF PurgeAccount, Inv, TypeOK, RoleOrNone
  <2>3. task' \in Row \cup NoRow /\ (task' \notin NoRow => task'.assignee \notin gone')
    <3>1. CASE task' = task /\ (task \notin NoRow => task.assignee # u)
      BY <2>1, <3>1 DEF Inv, TypeOK, AssigneeExists, Exists
    <3>2. CASE task \notin NoRow /\ task' = [task EXCEPT !.assignee = Nobody]
      <4>1. task' \in Row /\ task'.assignee = Nobody
        BY <3>2 DEF Inv, TypeOK, Row, Assignee
      <4>. QED BY <2>1, <4>1, TaskAssumption DEF Inv, TypeOK
    <3>. QED BY <2>1, <3>1, <3>2 DEF ReleasedRow
  <2>4. TypeOK'
    BY <1>1, <2>1, <2>2, <2>3 DEF Inv, TypeOK
  <2>. QED BY <1>2, <2>3, <2>4 DEF Inv, AssigneeExists, Exists
<1>. QED BY <1>3, <1>4, <1>5 DEF Surroundings

\* Every step keeps the invariant.
LEMMA NextInv == Inv /\ [Next]_vars => Inv'
<1> SUFFICES ASSUME Inv, [Next]_vars PROVE Inv'
  OBVIOUS
<1>1. CASE UNCHANGED vars
  BY <1>1 DEF vars, Inv, TypeOK, AssigneeExists, Exists, ManagersChecked
<1>2. ASSUME NEW r \in Reqs, StartRequest(r) PROVE Inv'
  <2>1. PICK op \in Operation, u \in Users, t \in Assignee : VerifyRole(r, op, u, t)
    BY <1>2 DEF StartRequest, Assignee, Operation, ManagersOnly
  <2>. QED BY <2>1, VerifyRoleInv
<1>3. ASSUME NEW r \in Reqs, VerifyActive(r) PROVE Inv'
  <2>1. active \in BOOLEAN /\ req[r] # Idle
    BY <1>3 DEF VerifyActive, At, Inv, TypeOK
  <2>. QED BY <1>3, <2>1, Rows, ProceedInv DEF VerifyActive
<1>4. ASSUME NEW r \in Reqs, LoadTask(r) PROVE Inv'
  <2>1. req[r] # Idle
    BY <1>4 DEF LoadTask, At
  <2>2. CASE task \in NoRow
    BY <1>4, <2>1, <2>2, Rows, ProceedInv DEF LoadTask
  <2>3. CASE task \notin NoRow
    <3> DEFINE ok == Allowed(req[r], task)
    <3>1. PICK pc \in {"target", "loaded"} : Proceed(r, ok, task, pc)
      BY <1>4, <2>3 DEF LoadTask
    <3>2. Proceed(r, ok = TRUE, task, pc)
      BY <3>1 DEF Proceed
    <3>3. task \in Row
      BY <2>3 DEF Inv, TypeOK
    <3>. QED BY <2>1, <3>2, <3>3, ProceedInv
  <2>. QED BY <2>2, <2>3
<1>5. ASSUME NEW r \in Reqs, LoadTarget(r) PROVE Inv'
  <2> DEFINE ok == req[r].target # Nobody => Assignable(req[r].target)
  <2>1. req[r] # Idle /\ Proceed(r, ok, req[r].found, "loaded")
    BY <1>5 DEF LoadTarget, At
  <2>2. ok \in BOOLEAN /\ req[r].found \in Row
    BY <2>1 DEF Inv, TypeOK, Request
  <2>. QED BY <2>1, <2>2, ProceedInv
<1>. QED BY <1>1, <1>2, <1>3, <1>4, <1>5, WriteInv, SurroundingsInv DEF Next

\* The invariant holds throughout.
THEOREM Invariant == Spec => []Inv
  BY InitInv, NextInv, PTL DEF Spec

\* For any number of requests, users and purges: the assignee of a task is an
\* account that exists.
THEOREM AssigneesExist == Spec => []AssigneeExists
<1>1. Inv => AssigneeExists
  BY DEF Inv
<1>. QED BY <1>1, Invariant, PTL

\* For any number of requests: what loaded a task before it was deleted does
\* not bring it back.
THEOREM DeletionIsFinal == Spec => DeletedStaysDeleted
<1>1. [Next]_vars => [task = Deleted => task' = Deleted]_vars
  <2> SUFFICES ASSUME Next, task = Deleted PROVE task' = Deleted
    BY DEF vars
  <2>1. PICK r \in Reqs :
          \/ StartRequest(r) \/ VerifyActive(r) \/ LoadTask(r) \/ LoadTarget(r)
          \/ Write(r) \/ Surroundings(r)
    BY DEF Next
  <2>2. task \in NoRow /\ task # Absent
    BY Rows DEF NoRow
  <2>3. CASE StartRequest(r) \/ VerifyActive(r) \/ LoadTask(r) \/ LoadTarget(r)
    BY <2>3 DEF StartRequest, VerifyRole, VerifyActive, LoadTask, LoadTarget, Proceed
  <2>4. CASE Write(r)
    BY <2>2, <2>4 DEF Write, Update, Create, Delete, SelfAssign, RowMatched
  <2>5. CASE Surroundings(r)
    BY <2>2, <2>5 DEF Surroundings, MemberChanges, Archive, PurgeAccount, ReleasedRow
  <2>. QED BY <2>1, <2>3, <2>4, <2>5
<1>. QED BY <1>1, PTL DEF Spec, DeletedStaysDeleted

\* For any number of requests: only an owner or an admin takes a task from the
\* one who holds it.  A request that changes the status writes that column
\* alone, and a self-assignment checks the row it writes.
THEOREM ReassignmentByManagers == Spec => OnlyManagersReassign
<1>1. Inv /\ [Next]_vars =>
        [Exists /\ task' # Deleted /\ task.assignee # Nobody /\ task'.assignee # task.assignee =>
           \/ task.assignee \in gone'
           \/ \E r \in Reqs : /\ Commits(r, {"assign", "unassign"})
                              /\ req[r].seen \in Senior]_vars
  <2> SUFFICES ASSUME Inv, Next, Exists, task' # Deleted, task.assignee # Nobody,
                      task'.assignee # task.assignee
               PROVE  \/ task.assignee \in gone'
                      \/ \E r \in Reqs : /\ Commits(r, {"assign", "unassign"})
                                         /\ req[r].seen \in Senior
    BY DEF vars
  <2>1. PICK r \in Reqs :
          \/ StartRequest(r) \/ VerifyActive(r) \/ LoadTask(r) \/ LoadTarget(r)
          \/ Write(r) \/ Surroundings(r)
    BY DEF Next
  <2>2. ~(StartRequest(r) \/ VerifyActive(r) \/ LoadTask(r) \/ LoadTarget(r))
    BY DEF StartRequest, VerifyRole, VerifyActive, LoadTask, LoadTarget, Proceed
  <2>3. CASE Surroundings(r)
    BY <2>3 DEF Surroundings, MemberChanges, Archive, PurgeAccount, ReleasedRow
  <2>4. CASE Update(r)
    <3>1. /\ At(r, DOMAIN StatusChange \cup {"assign", "unassign"}, "loaded")
          /\ req'[r] = Idle
          /\ task' = ChangedColumns(task, req[r].found, Edited(req[r]))
      BY <2>4 DEF Update, Inv, TypeOK
    <3>2. Edited(req[r]).assignee # req[r].found.assignee
      BY <3>1 DEF ChangedColumns
    <3>3. req[r].op \in {"assign", "unassign"}
      BY <3>1, <3>2, EditedRow DEF At, Inv, TypeOK
    <3>. QED BY <3>1, <3>3 DEF At, Commits, Inv, ManagersChecked
  <2>5. CASE Create(r) \/ Delete(r) \/ SelfAssign(r)
    BY <2>5 DEF Create, Delete, SelfAssign, Unclaimed, Exists, NoRow
  <2>. QED BY <2>1, <2>2, <2>3, <2>4, <2>5 DEF Write
<1>. QED BY <1>1, Invariant, PTL DEF Spec, OnlyManagersReassign

-----------------------------------------------------------------------------
(* Requests that come one at a time.  As long as they do, the task is what *)
(* a request has read when it writes: only its own steps have run since.   *)

\* The task is what q read, in a state q's handler lets through.
Fresh(q) ==
  /\ q.op = "assign" => q.target # Nobody
  /\ q.op # "create" /\ q.pc \in {"target", "loaded"} =>
       /\ task = q.found
       /\ q.op \in DOMAIN StatusChange => task.status = StatusChange[q.op].from
       /\ q.op \in {"assign", "unassign"} => task.status \notin {"REVIEW", "COMPLETED"}

AllFresh == \A r \in Reqs : req[r] # Idle => Fresh(req[r])
OneInFlight == \A q, r \in Reqs : req[q] # Idle /\ req[r] # Idle => q = r
Consistent == gone = {} => StartedWhenAssigned

SerialInv == serial => AllFresh /\ OneInFlight /\ Consistent

\* In a step that keeps the history serial nobody is overtaken.
NobodyOvertaken == \A r \in Reqs : req[r] # Idle => req'[r] # req[r]

LEMMA SerialInit == MCInit => SerialInv
BY DEF MCInit, Init, SerialInv, AllFresh, OneInFlight, Consistent, StartedWhenAssigned, Exists, NoRow

\* Only the request that takes the step is in flight.
LEMMA OneMoves ==
  ASSUME Inv, NobodyOvertaken, NEW r \in Reqs, NEW q, req' = [req EXCEPT ![r] = q]
  PROVE  /\ req'[r] = q
         /\ \A s \in Reqs : s # r => req[s] = Idle /\ req'[s] = Idle
BY DEF Inv, TypeOK, NobodyOvertaken

\* A request that reads goes on to what is fresh if it was alone before.
LEMMA ReadKeepsSerial ==
  ASSUME Inv, SerialInv, serial, NobodyOvertaken, UNCHANGED <<task, gone>>,
         NEW r \in Reqs, NEW q, q # Idle => Fresh(q), req' = [req EXCEPT ![r] = q]
  PROVE  SerialInv'
<1>1. /\ req'[r] = q
      /\ \A s \in Reqs : s # r => req'[s] = Idle
  BY OneMoves
<1>2. ASSUME NEW s \in Reqs, req'[s] # Idle PROVE Fresh(req[s])'
  <2>1. s = r /\ Fresh(q)
    BY <1>1, <1>2
  <2> QED
    BY <1>1, <2>1 DEF Fresh
<1>3. OneInFlight'
  BY <1>1 DEF OneInFlight
<1>4. Consistent'
  BY DEF SerialInv, Consistent, StartedWhenAssigned, Exists
<1> QED
  BY <1>2, <1>3, <1>4 DEF SerialInv, AllFresh

\* Fresh checks, one for each read.
LEMMA ChecksKeepSerial ==
  ASSUME Inv, SerialInv, serial, NobodyOvertaken, NEW r \in Reqs,
         StartRequest(r) \/ VerifyActive(r) \/ LoadTask(r) \/ LoadTarget(r)
  PROVE  SerialInv'
<1>1. ASSUME NEW ok, NEW f, NEW pc, req[r] # Idle, Proceed(r, ok, f, pc),
             ok => Fresh([req[r] EXCEPT !.found = f, !.pc = pc])
      PROVE  SerialInv'
  <2> DEFINE q == IF ok THEN [req[r] EXCEPT !.found = f, !.pc = pc] ELSE Idle
  <2>1. req' = [req EXCEPT ![r] = q] /\ UNCHANGED <<task, gone>>
    BY <1>1 DEF Proceed
  <2>2. q # Idle => Fresh(q)
    BY <1>1
  <2> HIDE DEF q
  <2> QED
    BY <2>1, <2>2, ReadKeepsSerial
<1>2. ASSUME NEW op \in Operation, NEW u \in Users, NEW t, VerifyRole(r, op, u, t),
             op = "assign" => t # Nobody
      PROVE  SerialInv'
  <2>0. PICK s \in AllowedRoles(op) :
          req' = [req EXCEPT ![r] = [op |-> op, actor |-> u, target |-> t, seen |-> s,
                                     found |-> Blank, pc |-> "role"]]
    BY <1>2 DEF VerifyRole
  <2> DEFINE q == [op |-> op, actor |-> u, target |-> t, seen |-> s,
                   found |-> Blank, pc |-> "role"]
  <2>1. req' = [req EXCEPT ![r] = q] /\ UNCHANGED <<task, gone>>
    BY <1>2, <2>0 DEF VerifyRole
  <2>2. Fresh(q)
    BY <1>2 DEF Fresh
  <2> HIDE DEF q
  <2> QED
    BY <2>1, <2>2, ReadKeepsSerial
<1>3. CASE StartRequest(r)
  <2>1. PICK u \in Users :
          \/ \E op \in Operation \ {"create", "assign"} : VerifyRole(r, op, u, Nobody)
          \/ \E t \in Users : VerifyRole(r, "assign", u, t)
          \/ \E t \in Assignee : task = Absent /\ VerifyRole(r, "create", u, t)
    BY <1>3 DEF StartRequest
  <2>2. {"create", "assign"} \subseteq Operation /\ \A t \in Users : t # Nobody
    BY TaskAssumption DEF Operation, ManagersOnly
  <2> QED
    BY <1>2, <2>1, <2>2
<1>4. ASSUME req[r] # Idle PROVE req[r] \in Request /\ Fresh(req[r])
  BY <1>4 DEF Inv, TypeOK, SerialInv, AllFresh
<1>5. CASE VerifyActive(r)
  <2>1. req[r] # Idle /\ Proceed(r, active, Blank, "authorised")
    BY <1>5 DEF VerifyActive, At
  <2>2. Fresh([req[r] EXCEPT !.found = Blank, !.pc = "authorised"])
    BY <1>4, <2>1 DEF Fresh, Request
  <2> QED
    BY <1>1, <2>1, <2>2
<1>6. CASE LoadTask(r)
  <2>1. req[r] # Idle /\ req[r].op \in Operation \ {"create", "selfAssign"}
    BY <1>6 DEF LoadTask, At
  <2>2. CASE task \in NoRow
    <3>1. Proceed(r, FALSE, Blank, "loaded")
      BY <1>6, <2>2 DEF LoadTask
    <3> QED
      BY <1>1, <2>1, <3>1
  <2>3. CASE task \notin NoRow
    <3> DEFINE ok == Allowed(req[r], task)
    <3>1. PICK pc \in {"target", "loaded"} : Proceed(r, ok, task, pc)
      BY <1>6, <2>3 DEF LoadTask
    <3>2. ok => Fresh([req[r] EXCEPT !.found = task, !.pc = pc])
      BY <1>4, <2>1, <3>1 DEF Allowed, Fresh, Request
    <3> HIDE DEF ok
    <3> QED
      BY <1>1, <2>1, <3>1, <3>2
  <2> QED
    BY <2>2, <2>3
<1>7. CASE LoadTarget(r)
  <2>1. /\ req[r] # Idle /\ (req[r].op = "create" \/ req[r].pc = "target")
        /\ Proceed(r, req[r].target # Nobody => Assignable(req[r].target), req[r].found, "loaded")
    BY <1>7 DEF LoadTarget, At
  <2>2. Fresh([req[r] EXCEPT !.found = req[r].found, !.pc = "loaded"])
    BY <1>4, <2>1 DEF Fresh, Request
  <2> QED
    BY <1>1, <2>1, <2>2
<1> QED
  BY <1>3, <1>5, <1>6, <1>7

\* A write that nothing has overtaken replaces the row it read.
LEMMA WritesWhatWasRead ==
  ASSUME Inv, NEW r \in Reqs, Fresh(req[r]), Update(r), task' # task
  PROVE  /\ task \in Row /\ task = req[r].found /\ req[r] \in Request
         /\ task' = Edited(req[r]) /\ task' \in Row
         /\ At(r, DOMAIN StatusChange \cup {"assign", "unassign"}, "loaded")
<1>1. /\ At(r, DOMAIN StatusChange \cup {"assign", "unassign"}, "loaded")
      /\ task \in Row /\ req[r] \in Request
      /\ task' = ChangedColumns(task, req[r].found, Edited(req[r]))
  BY DEF Update, At, RowMatched, Inv, TypeOK
<1>2. task = req[r].found
  BY <1>1 DEF Fresh, At, StatusChange
<1>3. Edited(req[r]) \in Row
  BY <1>1, EditedRow DEF At
<1>4. ChangedColumns(task, task, Edited(req[r])) = Edited(req[r])
  BY <1>1, <1>3 DEF ChangedColumns, Row
<1> QED
  BY <1>1, <1>2, <1>3, <1>4

Forward == {<<"TODO", "IN_PROGRESS">>, <<"IN_PROGRESS", "REVIEW">>, <<"REVIEW", "COMPLETED">>}

\* Each kind of write, as it changes the task.
WorkflowStep(t, u) ==
  \/ \E op \in DOMAIN StatusChange :
       t.status = StatusChange[op].from /\ u = [t EXCEPT !.status = StatusChange[op].to]
  \/ t.status \in {"TODO", "IN_PROGRESS"} /\ u.status = "IN_PROGRESS" /\ u.assignee # Nobody
  \/ t.status \in {"TODO", "IN_PROGRESS"} /\ u = Blank

\* A write moves the status by a place, leaves a task in review or completed to
\* its assignee, and takes the task out of TODO exactly if it assigns it.
LEMMA StepShape ==
  ASSUME NEW t \in Row, NEW u \in Row, WorkflowStep(t, u)
  PROVE  /\ \/ t.status = u.status
            \/ <<t.status, u.status>> \in Forward \/ <<u.status, t.status>> \in Forward
         /\ t.status \in {"REVIEW", "COMPLETED"} => u.assignee = t.assignee
         /\ (t.assignee = Nobody <=> t.status = "TODO") => (u.assignee = Nobody <=> u.status = "TODO")
<1>1. CASE \E op \in DOMAIN StatusChange :
             t.status = StatusChange[op].from /\ u = [t EXCEPT !.status = StatusChange[op].to]
  <2>1. PICK op \in DOMAIN StatusChange :
          t.status = StatusChange[op].from /\ u = [t EXCEPT !.status = StatusChange[op].to]
    BY <1>1
  <2>2. /\ StatusChange[op].from # "TODO" /\ StatusChange[op].to # "TODO"
        /\ \/ <<StatusChange[op].from, StatusChange[op].to>> \in Forward
           \/ <<StatusChange[op].to, StatusChange[op].from>> \in Forward
    BY DEF StatusChange, Forward
  <2>3. u.status = StatusChange[op].to /\ u.assignee = t.assignee
    BY <2>1 DEF Row
  <2> HIDE DEF Forward
  <2> QED
    BY <2>1, <2>2, <2>3
<1>2. CASE t.status \in {"TODO", "IN_PROGRESS"} /\ u.status = "IN_PROGRESS" /\ u.assignee # Nobody
  BY <1>2 DEF Forward
<1>3. CASE t.status \in {"TODO", "IN_PROGRESS"} /\ u = Blank
  BY <1>3 DEF Forward, Blank
<1> QED
  BY <1>1, <1>2, <1>3 DEF WorkflowStep

LEMMA SerialWrite ==
  ASSUME Inv, SerialInv, serial, NEW r \in Reqs, Write(r), task' # task
  PROVE  \/ task = Absent /\ task' \in Row /\ (task'.assignee = Nobody <=> task'.status = "TODO")
         \/ task' = Deleted
         \/ task \in Row /\ task' \in Row /\ WorkflowStep(task, task')
<1>1. req[r] # Idle /\ req[r] \in Request /\ Fresh(req[r])
  BY DEF Write, Update, Create, Delete, SelfAssign, At, Inv, TypeOK, SerialInv, AllFresh
<1>2. CASE Update(r)
  <2>1. /\ task \in Row /\ task = req[r].found /\ task' = Edited(req[r]) /\ task' \in Row
        /\ req[r].op \in DOMAIN StatusChange \cup {"assign", "unassign"} /\ req[r].pc = "loaded"
    BY <1>1, <1>2, WritesWhatWasRead DEF At
  <2>2. CASE req[r].op \in DOMAIN StatusChange
    BY <1>1, <2>1, <2>2 DEF Edited, Fresh, WorkflowStep, StatusChange
  <2>3. CASE req[r].op \in {"assign", "unassign"}
    <3>1. task.status \in {"TODO", "IN_PROGRESS"}
      BY <1>1, <2>1, <2>3 DEF Fresh, Row, TaskStatus
    <3>2. task' = IF req[r].op = "assign" THEN [assignee |-> req[r].target, status |-> "IN_PROGRESS"]
                  ELSE Blank
      BY <2>1, <2>3 DEF Edited, StatusChange
    <3> QED
      BY <1>1, <2>1, <2>3, <3>1, <3>2 DEF Fresh, WorkflowStep
  <2> QED
    BY <2>1, <2>2, <2>3
<1>3. CASE Create(r)
  <2>1. /\ task = Absent /\ req[r].target \in Assignee
        /\ task' = [assignee |-> req[r].target,
                    status |-> IF req[r].target = Nobody THEN "TODO" ELSE "IN_PROGRESS"]
    BY <1>1, <1>3 DEF Create, Request
  <2> QED
    BY <2>1 DEF Row, TaskStatus
<1>4. CASE Delete(r)
  BY <1>4 DEF Delete
<1>5. CASE SelfAssign(r)
  <2>1. /\ task \in Row /\ task.status = "TODO" /\ req[r].actor \in Users
        /\ task' = [assignee |-> req[r].actor, status |-> "IN_PROGRESS"]
    BY <1>1, <1>5 DEF SelfAssign, RowMatched, Unclaimed, Inv, TypeOK, Request
  <2> QED
    BY <2>1, TaskAssumption DEF WorkflowStep, Row, Assignee, TaskStatus
<1> QED
  BY <1>2, <1>3, <1>4, <1>5 DEF Write

LEMMA SerialNext == Inv /\ SerialInv /\ [MCNext]_<<vars, serial>> => SerialInv'
<1> SUFFICES ASSUME Inv, SerialInv, [MCNext]_<<vars, serial>>, serial' PROVE SerialInv'
  BY DEF SerialInv
<1>1. CASE UNCHANGED <<vars, serial>>
  BY <1>1 DEF vars, SerialInv, AllFresh, OneInFlight, Consistent, StartedWhenAssigned, Exists, Fresh
<1>2. CASE MCNext
  <2>1. serial /\ NobodyOvertaken /\ Next
    BY <1>2 DEF MCNext, NobodyOvertaken
  <2>2. PICK r \in Reqs :
          \/ StartRequest(r) \/ VerifyActive(r) \/ LoadTask(r) \/ LoadTarget(r)
          \/ Write(r) \/ Surroundings(r)
    BY <2>1 DEF Next
  <2>3. CASE Write(r)
    <3>1. req' = [req EXCEPT ![r] = Idle] /\ gone' = gone
      BY <2>3 DEF Write, Update, Create, Delete, SelfAssign
    <3>2. \A s \in Reqs : req'[s] = Idle
      BY <2>1, <3>1, OneMoves
    <3>3. Consistent'
      <4>1. CASE task' = task
        BY <2>1, <3>1, <4>1 DEF SerialInv, Consistent, StartedWhenAssigned, Exists
      <4>2. CASE task' = Deleted
        BY <4>2 DEF Consistent, StartedWhenAssigned, Exists, NoRow
      <4>3. CASE task \in Row /\ task' \in Row /\ WorkflowStep(task, task')
        <5>1. task \notin NoRow
          BY <4>3, Rows
        <5>2. (task.assignee = Nobody <=> task.status = "TODO")
                => (task'.assignee = Nobody <=> task'.status = "TODO")
          BY <4>3, StepShape
        <5> QED
          BY <2>1, <3>1, <5>1, <5>2 DEF SerialInv, Consistent, StartedWhenAssigned, Exists
      <4> QED
        BY <2>1, <2>3, <4>1, <4>2, <4>3, SerialWrite DEF Consistent, StartedWhenAssigned
    <3> QED
      BY <3>2, <3>3 DEF SerialInv, AllFresh, OneInFlight
  <2>4. CASE Surroundings(r)
    <3>1. \A s \in Reqs : req'[s] = Idle
      BY <2>1, <2>4 DEF NobodyOvertaken, Surroundings, MemberChanges, PurgeAccount, Archive
    <3>2. (gone' = gone /\ task' = task) \/ gone' # {}
      BY <2>4 DEF Surroundings, MemberChanges, PurgeAccount, Archive
    <3>3. Consistent'
      BY <2>1, <3>2 DEF SerialInv, Consistent, StartedWhenAssigned, Exists
    <3> QED
      BY <3>1, <3>3 DEF SerialInv, AllFresh, OneInFlight
  <2> QED
    BY <2>1, <2>2, <2>3, <2>4, ChecksKeepSerial
<1> QED
  BY <1>1, <1>2

\* The history variable restricts nothing.
LEMMA HistoryOnly == MCSpec => Spec
<1>1. MCInit => Init
  BY DEF MCInit
<1>2. [MCNext]_<<vars, serial>> => [Next]_vars
  BY DEF MCNext, vars
<1> QED
  BY <1>1, <1>2, PTL DEF MCSpec, Spec

\* While requests come one at a time each writes to the task it has read.
THEOREM SerialRequests == MCSpec => [](Inv /\ SerialInv)
<1>1. MCSpec => []Inv
  BY HistoryOnly, Invariant, PTL
<1> QED
  BY <1>1, SerialInit, SerialNext, PTL DEF MCSpec

\* As long as requests do not overlap and no account is purged, a task waits
\* in TODO exactly as long as nobody has it.
THEOREM TodoIsUnassigned == MCSpec => []SerialStartedWhenAssigned
<1>1. SerialInv => SerialStartedWhenAssigned
  BY DEF SerialInv, Consistent, SerialStartedWhenAssigned
<1> QED
  BY <1>1, SerialRequests, PTL

\* A serial step that leaves the accounts alone writes to the task, or not at all.
LEMMA SerialStep ==
  ASSUME Inv, SerialInv, [MCNext]_<<vars, serial>>, serial, gone' = {}, Changes, task' # task
  PROVE  task \in Row /\ task' \in Row /\ WorkflowStep(task, task')
<1>1. task \in Row /\ task # Absent
  BY DEF Changes, Exists, NoRow, Inv, TypeOK
<1>2. PICK r \in Reqs :
        \/ StartRequest(r) \/ VerifyActive(r) \/ LoadTask(r) \/ LoadTarget(r)
        \/ Write(r) \/ Surroundings(r)
  BY DEF MCNext, Next, vars
<1>3. Write(r)
  BY <1>2 DEF StartRequest, VerifyRole, VerifyActive, LoadTask, LoadTarget, Proceed,
     Surroundings, MemberChanges, PurgeAccount, Archive
<1> QED
  BY <1>1, <1>3, SerialWrite DEF Changes

\* As long as requests do not overlap and no account is purged, a task's status
\* moves by one place.
THEOREM NoPlaceSkipped == MCSpec => SerialStatusFollowsWorkflow
<1>1. Inv /\ SerialInv /\ [MCNext]_<<vars, serial>> => [serial /\ gone' = {} => OnePlace]_vars
  <2> SUFFICES ASSUME Inv, SerialInv, [MCNext]_<<vars, serial>>, serial, gone' = {}
               PROVE  OnePlace
    OBVIOUS
  <2>1. CASE Changes /\ task.status # task'.status
    BY <2>1, SerialStep, StepShape DEF OnePlace, Forward
  <2> QED
    BY <2>1 DEF OnePlace
<1> QED
  BY <1>1, SerialRequests, PTL DEF MCSpec, SerialStatusFollowsWorkflow

\* As long as requests do not overlap and no account is purged, a task in
\* review or completed keeps its assignee.
THEOREM ReviewKeepsAssignee == MCSpec => SerialAssigneeFixedInReview
<1>1. Inv /\ SerialInv /\ [MCNext]_<<vars, serial>> => [serial /\ gone' = {} => AssigneeKept]_vars
  <2> SUFFICES ASSUME Inv, SerialInv, [MCNext]_<<vars, serial>>, serial, gone' = {}
               PROVE  AssigneeKept
    OBVIOUS
  <2>1. CASE Changes /\ task' # task
    BY <2>1, SerialStep, StepShape DEF AssigneeKept
  <2> QED
    BY <2>1 DEF AssigneeKept
<1> QED
  BY <1>1, SerialRequests, PTL DEF MCSpec, SerialAssigneeFixedInReview
=============================================================================
