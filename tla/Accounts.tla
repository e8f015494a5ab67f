------------------------------ MODULE Accounts ------------------------------
(***************************************************************************)
(* The end of an account and its way back: delete_user_account, the login  *)
(* of an account that is to be deleted, verify_user_restore, and the daily *)
(* job that purges accounts whose time is over (services/user_service.py,  *)
(* services/cleanup_service.py, repository/cleanup_repo.py).               *)
(*                                                                         *)
(* A request reads, may wait, and commits.  The deletion locks the user's  *)
(* row when its first query flushes deletes_at, and holds it to its commit.*)
(* The job's statements each choose their rows when they start: a DELETE   *)
(* that waits for a row deletes it whatever the other transaction wrote.   *)
(***************************************************************************)
EXTENDS Naturals, FiniteSets

CONSTANTS Users, Tasks,
          Sessions,    \* ids of refresh tokens that are not used
          Restores,    \* ids of restore tokens
          Reqs,        \* requests in flight at once
          Batch,       \* batch_size
          MaxBatches,  \* max_batches
          MaxOld,      \* bound on the expired refresh tokens
          None, Idle

ASSUME AccountAssumption ==
  /\ Batch \in Nat \ {0} /\ MaxBatches \in Nat \ {0} /\ MaxOld \in Nat
  /\ None \notin Users

VARIABLES
  acct,     \* "live"; "leaving" and "due", before and after deletes_at; "gone"
  sess,     \* each user's refresh tokens that can be rotated
  task,     \* each task's assignee
  restore,  \* whose account each restore token restores, or None
  banned,   \* tokens:banned:<restore token>
  old,      \* the number of expired refresh tokens still in the table
  job,      \* the daily job
  req,      \* the requests in flight
  late,     \* ghost: sessions of requests that overlapped a deletion
  lapsing,  \* ghost: restore tokens whose ban is over before they are
  spent     \* ghost: restore tokens whose restore has been committed

vars == <<acct, sess, task, restore, banned, old, job, req, late, lapsing, spent>>

Request ==
  [op : {"login"}, user : Users, grace : BOOLEAN, raced : BOOLEAN]
  \cup [op : {"rotate"}, user : Users, sess : Sessions, raced : BOOLEAN]
  \cup [op : {"delete"}, user : Users, locked : BOOLEAN, rows : SUBSET Sessions]
  \cup [op : {"restore"}, user : Users, at : {"checked", "loaded", "banned"},
        token : Restores, grace : BOOLEAN, stale : BOOLEAN]

Job == [at : {"release", "delete", "commit", "tokens"}, batch : 1..MaxBatches,
        tasks : SUBSET Tasks, users : SUBSET Users, due : SUBSET Users]

TypeOK ==
  /\ acct \in [Users -> {"live", "leaving", "due", "gone"}]
  /\ sess \in [Users -> SUBSET Sessions] /\ late \in SUBSET Sessions
  /\ task \in [Tasks -> Users \cup {None}]
  /\ restore \in [Restores -> Users \cup {None}]
  /\ banned \in SUBSET Restores
  /\ lapsing \in SUBSET Restores /\ spent \in SUBSET Restores
  /\ old \in 0..MaxOld
  /\ job \in Job \cup {Idle} /\ req \in [Reqs -> Request \cup {Idle}]

Init ==
  /\ acct = [u \in Users |-> "live"] /\ sess = [u \in Users |-> {}]
  /\ task = [t \in Tasks |-> None]
  /\ restore = [x \in Restores |-> None] /\ banned = {}
  /\ lapsing = {} /\ spent = {}
  /\ old = 0 /\ job = Idle /\ late = {}
  /\ req = [r \in Reqs |-> Idle]

Due == {u \in Users : acct[u] = "due"}
InGrace(u) == acct[u] \in {"leaving", "due"}
Exists(u) == acct[u] # "gone"

Is(r, op) == req[r] # Idle /\ req[r].op = op
At(r, pc) == Is(r, "restore") /\ req[r].at = pc
Start(r, q) == req[r] = Idle /\ req' = [req EXCEPT ![r] = q]
Finish(r) == req' = [req EXCEPT ![r] = Idle]
Locked(u) == \E r \in Reqs : Is(r, "delete") /\ req[r].user = u /\ req[r].locked

NewSession(i) ==
  /\ \A u \in Users : i \notin sess[u]
  /\ \A r \in Reqs : Is(r, "delete") => i \notin req[r].rows
  /\ \A r \in Reqs : Is(r, "rotate") => i # req[r].sess

\* A session counts as late if a deletion is or was in flight with its request.
Record(r, i) ==
  late' = IF req[r].raced \/ Locked(req[r].user) THEN late \cup {i} ELSE late \ {i}

UnchangedJob == UNCHANGED <<task, old, job>>

-----------------------------------------------------------------------------
(* Sessions                                                                *)

\* What a login that reads deletes_at makes of it.
\* Mutant: deletes_at is not looked at.
NeverRestore(u) == FALSE
MustRestore(u) == InGrace(u)

ReadLogin(r, u) ==
  /\ Exists(u)
  /\ Start(r, [op |-> "login", user |-> u, grace |-> MustRestore(u), raced |-> FALSE])
  /\ UnchangedJob /\ UNCHANGED <<acct, sess, restore, banned, late, lapsing, spent>>

\* _get_tokens_on_login: a restore token, or a session.
GiveRestoreToken(r, x) ==
  /\ Is(r, "login") /\ req[r].grace /\ restore[x] = None
  /\ restore' = [restore EXCEPT ![x] = req[r].user]
  /\ Finish(r)
  /\ UnchangedJob /\ UNCHANGED <<acct, sess, banned, late, lapsing, spent>>

OpenSession(r, i) ==
  /\ Is(r, "login") /\ ~ req[r].grace /\ Exists(req[r].user) /\ NewSession(i)
  /\ sess' = [sess EXCEPT ![req[r].user] = @ \cup {i}]
  /\ Record(r, i) /\ Finish(r)
  /\ UnchangedJob /\ UNCHANGED <<acct, restore, banned, lapsing, spent>>

\* rotate_refresh_token asks whether the user exists, not whether he leaves.
\* A session that is late hands that down.
LoadToken(r, u, i) ==
  /\ i \in sess[u]
  /\ Start(r, [op |-> "rotate", user |-> u, sess |-> i, raced |-> i \in late])
  /\ UnchangedJob /\ UNCHANGED <<acct, sess, restore, banned, late, lapsing, spent>>

Rotate(r, i) ==
  /\ Is(r, "rotate") /\ Exists(req[r].user) /\ NewSession(i)
  /\ sess' = [sess EXCEPT ![req[r].user] = (@ \ {req[r].sess}) \cup {i}]
  /\ Record(r, i) /\ Finish(r)
  /\ UnchangedJob /\ UNCHANGED <<acct, restore, banned, lapsing, spent>>

-----------------------------------------------------------------------------
(* delete_user_account.  Nothing asks whether the account leaves already.  *)

LoadAccount(r, u) ==
  /\ Exists(u)
  /\ Start(r, [op |-> "delete", user |-> u, locked |-> FALSE, rows |-> {}])
  /\ UnchangedJob /\ UNCHANGED <<acct, sess, restore, banned, late, lapsing, spent>>

\* logout_everywhere: its first query flushes deletes_at, its UPDATE finds the
\* sessions.  (The bans of their families are SessionTokens'.)
\* Mutant: one session is found.
OneSession(u) == IF sess[u] = {} THEN {} ELSE {CHOOSE i \in sess[u] : TRUE}
SessionsOf(u) == sess[u]

FindSessions(r) ==
  /\ Is(r, "delete") /\ ~ req[r].locked /\ Exists(req[r].user) /\ ~ Locked(req[r].user)
  /\ req' = [req EXCEPT ![r].locked = TRUE, ![r].rows = SessionsOf(req[r].user)]
  /\ UnchangedJob /\ UNCHANGED <<acct, sess, restore, banned, late, lapsing, spent>>

CommitDeletion(r) ==
  /\ Is(r, "delete") /\ req[r].locked
  /\ LET u == req[r].user IN
       /\ acct' = [acct EXCEPT ![u] = "leaving"]
       /\ sess' = [sess EXCEPT ![u] = @ \ req[r].rows]
       /\ req' = [q \in Reqs |->
                    IF q = r THEN Idle
                    ELSE IF (Is(q, "login") \/ Is(q, "rotate")) /\ req[q].user = u
                    THEN [req[q] EXCEPT !.raced = TRUE] ELSE req[q]]
  /\ UnchangedJob /\ UNCHANGED <<restore, banned, late, lapsing, spent>>

-----------------------------------------------------------------------------
(* verify_user_restore                                                     *)

CheckRestore(r, x) ==
  /\ restore[x] # None /\ x \notin banned
  /\ Start(r, [op |-> "restore", user |-> restore[x], at |-> "checked", token |-> x,
               grace |-> FALSE, stale |-> x \in spent])
  /\ UnchangedJob /\ UNCHANGED <<acct, sess, restore, banned, late, lapsing, spent>>

LoadLeaving(r) ==
  /\ At(r, "checked") /\ Exists(req[r].user)
  /\ req' = [req EXCEPT ![r].at = "loaded", ![r].grace = InGrace(req[r].user)]
  /\ UnchangedJob /\ UNCHANGED <<acct, sess, restore, banned, late, lapsing, spent>>

\* Mutant: the token is not banned.
NotSpent(x) == banned
Spent(x) == banned \cup {x}

BanRestore(r) ==
  /\ At(r, "loaded")
  /\ banned' = Spent(req[r].token)
  /\ req' = [req EXCEPT ![r].at = "banned"]
  /\ UnchangedJob /\ UNCHANGED <<acct, sess, restore, late, lapsing, spent>>

\* deletes_at is written only if the row that was read had one.
CommitRestore(r) ==
  /\ At(r, "banned") /\ Exists(req[r].user) /\ ~ Locked(req[r].user)
  /\ acct' = IF req[r].grace THEN [acct EXCEPT ![req[r].user] = "live"] ELSE acct
  /\ spent' = spent \cup {req[r].token}
  /\ Finish(r)
  /\ UnchangedJob /\ UNCHANGED <<sess, restore, banned, late, lapsing>>

-----------------------------------------------------------------------------
(* The daily job                                                           *)

\* A subquery with a LIMIT and no order.
Limited(S) == {A \in SUBSET S : Cardinality(A) = IF Cardinality(S) < Batch
                                                 THEN Cardinality(S) ELSE Batch}
Unchanged == UNCHANGED <<restore, banned, req, lapsing, spent>>

StartJob ==
  /\ job = Idle
  /\ job' = [at |-> "release", batch |-> 1, tasks |-> {}, users |-> {}, due |-> {}]
  /\ Unchanged /\ UNCHANGED <<acct, sess, task, old, late>>

\* The tasks whose assignee is emptied: their rows are locked till the commit.
\* Mutant: none.
NoTasks(A) == {}
TasksOf(A) == {t \in Tasks : task[t] \in A}

ReleaseTasks ==
  /\ job # Idle /\ job.at = "release"
  /\ \E A \in Limited(Due) : job' = [job EXCEPT !.at = "delete", !.tasks = TasksOf(A)]
  /\ Unchanged /\ UNCHANGED <<acct, sess, task, old, late>>

\* The accounts the DELETE finds.
\* Mutant: all that have a deletes_at.
Leaving == {u \in Users : InGrace(u)}
Purgeable == Due

FindAccounts ==
  /\ job # Idle /\ job.at = "delete"
  /\ \E B \in Limited(Purgeable) :
       job' = [job EXCEPT !.at = "commit", !.users = B, !.due = Due]
  /\ Unchanged /\ UNCHANGED <<acct, sess, task, old, late>>

\* _drain_batches: a batch that is not full is the last one.
\* Mutant: one batch more than max_batches.
LastTooLate(n) == n < Batch \/ job.batch > MaxBatches
Last(n) == n < Batch \/ job.batch = MaxBatches

\* tasks.assignee_id refers to users and says nothing of their deletion.
Referenced == \E t \in Tasks \ job.tasks : task[t] \in job.users
Ready == job # Idle /\ job.at = "commit" /\ \A u \in job.users : ~ Locked(u)

Purge ==
  /\ Ready /\ ~ Referenced
  /\ acct' = [u \in Users |-> IF u \in job.users THEN "gone" ELSE acct[u]]
  /\ sess' = [u \in Users |-> IF u \in job.users THEN {} ELSE sess[u]]
  /\ task' = [t \in Tasks |-> IF t \in job.tasks THEN None ELSE task[t]]
  /\ old' \in IF job.users = {} THEN {old} ELSE 0..old
  /\ LET last == Last(Cardinality(job.users)) IN
       job' = [at |-> IF last THEN "tokens" ELSE "release",
               batch |-> IF last THEN 1 ELSE job.batch + 1,
               tasks |-> {}, users |-> {}, due |-> {}]
  /\ Unchanged /\ UNCHANGED late

\* The IntegrityError ends the whole job: no token is deleted that day.
PurgeFails ==
  /\ Ready /\ Referenced
  /\ job' = Idle
  /\ Unchanged /\ UNCHANGED <<acct, sess, task, old, late>>

\* delete_expired_token_records.  (The old invitations come after: Invitations.)
DropTokens ==
  /\ job # Idle /\ job.at = "tokens"
  /\ LET n == IF old < Batch THEN old ELSE Batch IN
       /\ old' = old - n
       /\ job' = IF Last(n) THEN Idle ELSE [job EXCEPT !.batch = @ + 1]
  /\ Unchanged /\ UNCHANGED <<acct, sess, task, late>>

JobDies ==
  /\ job # Idle /\ job' = Idle
  /\ Unchanged /\ UNCHANGED <<acct, sess, task, old, late>>

-----------------------------------------------------------------------------
(* What else happens                                                       *)

\* A task is assigned to somebody who has not gone, unless the job holds it.
Assign(t, u) ==
  /\ Exists(u) /\ task[t] # u /\ (job # Idle => t \notin job.tasks)
  /\ task' = [task EXCEPT ![t] = u]
  /\ Unchanged /\ UNCHANGED <<acct, sess, old, job, late>>

\* Fourteen days pass.
Deadline(u) ==
  /\ acct[u] = "leaving"
  /\ acct' = [acct EXCEPT ![u] = "due"]
  /\ Unchanged /\ UnchangedJob /\ UNCHANGED <<sess, late>>

\* No restore takes as long as its token lives.
NotPresented(x) == \A r \in Reqs : Is(r, "restore") => req[r].token # x

\* The token lives 600 seconds from the second it was issued in, its ban int()
\* of a little less than 600: 599.  A token that served in its first second is
\* without a ban in its last.
BanEnds(x) ==
  /\ x \in banned \ lapsing /\ NotPresented(x)
  /\ banned' = banned \ {x} /\ lapsing' = lapsing \cup {x}
  /\ UnchangedJob /\ UNCHANGED <<acct, sess, restore, req, late, spent>>

\* Ten minutes.  A ban of the token that is left forbids nothing more.
RestoreExpires(x) ==
  /\ restore[x] # None /\ NotPresented(x)
  /\ restore' = [restore EXCEPT ![x] = None]
  /\ banned' = banned \ {x} /\ lapsing' = lapsing \ {x} /\ spent' = spent \ {x}
  /\ UnchangedJob /\ UNCHANGED <<acct, sess, req, late>>

\* A refresh token, used or not, reaches its end.
TokenExpires ==
  /\ old < MaxOld /\ old' = old + 1
  /\ Unchanged /\ UNCHANGED <<acct, sess, task, job, late>>

\* A request is refused or dies.
Abort(r) ==
  /\ req[r] # Idle /\ Finish(r)
  /\ UnchangedJob /\ UNCHANGED <<acct, sess, restore, banned, late, lapsing, spent>>

-----------------------------------------------------------------------------
Arrive(r) ==
  \/ \E u \in Users : ReadLogin(r, u) \/ LoadAccount(r, u)
  \/ \E u \in Users, i \in Sessions : LoadToken(r, u, i)
  \/ \E x \in Restores : CheckRestore(r, x)

GoOn(r) ==
  \/ \E x \in Restores : GiveRestoreToken(r, x)
  \/ \E i \in Sessions : OpenSession(r, i) \/ Rotate(r, i)
  \/ FindSessions(r) \/ CommitDeletion(r)
  \/ LoadLeaving(r) \/ BanRestore(r) \/ CommitRestore(r) \/ Abort(r)

RunJob == StartJob \/ ReleaseTasks \/ FindAccounts \/ Purge \/ PurgeFails \/ DropTokens

Disturbance == JobDies \/ TokenExpires \/ \E t \in Tasks, u \in Users : Assign(t, u)

Next ==
  \/ \E r \in Reqs : Arrive(r) \/ GoOn(r)
  \/ RunJob \/ Disturbance
  \/ \E u \in Users : Deadline(u)
  \/ \E x \in Restores : BanEnds(x) \/ RestoreExpires(x)

\* Requests end; the scheduler starts the job every day; the lock of a row is
\* granted in the order it was asked for.
Fairness ==
  /\ \A r \in Reqs : WF_vars(GoOn(r))
  /\ WF_vars(RunJob) /\ SF_vars(Purge \/ PurgeFails)

Spec == Init /\ [][Next]_vars /\ Fairness

-----------------------------------------------------------------------------
\* While an account is to be deleted, nobody is in it, unless by a login or a
\* rotation that overlapped the deletion, or by rotations of such a session:
\* delete_user_account ends the sessions, user_login_process opens none.
GraceSessionsAreLate == \A u \in Users : InGrace(u) => sess[u] \subseteq late

\* Who presents a restore token that has restored the account finds it banned
\* (tests/auth_test.py:261), unless the ban has ended before the token: then it
\* is the last second of the token's life.
ServedTokenIsRefused ==
  [][\A r \in Reqs : CommitRestore(r) /\ req[r].stale => req[r].token \in lapsing]_vars

\* No account is purged before its time, one that was restored least of all,
\* unless it was due when the DELETE that purged it looked.
PurgedWhenDue ==
  [][\A u \in Users : Exists(u) /\ acct'[u] = "gone" => u \in job.due]_vars

\* From some day on, the due accounts fit a batch, none becomes due between the
\* two statements of the job, no task is assigned, and neither the job nor a
\* refresh token dies.
DueMidway == job # Idle /\ job.at = "delete" /\ \E u \in Users : Deadline(u)
Calm ==
  /\ <>[](Cardinality(Due) <= Batch)
  /\ <>[][RunJob \/ ~ (Disturbance \/ DueMidway)]_vars

\* Then every account that is due is purged or restored, ...
DueIsSettled == Calm => \A u \in Users : (acct[u] = "due") ~> (acct[u] # "due")

\* ... and every expired token is deleted, which comes after in the same job.
ExpiredTokensGo == Calm => <>[](old = 0)
=============================================================================
