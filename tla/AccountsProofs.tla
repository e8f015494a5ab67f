--------------------------- MODULE AccountsProofs ---------------------------
(***************************************************************************)
(* What the end of an account keeps for any number of users, tasks,        *)
(* sessions and requests, and for any size and number of batches: nobody   *)
(* stays in an account that is to be deleted unless his request overlapped *)
(* the deletion, a restore token that has served is refused while its ban  *)
(* lasts, and an account is purged only when it was due.                   *)
(***************************************************************************)
EXTENDS Accounts, TLAPS

\* A login or rotation that overlapped no deletion found an account that was
\* not to be deleted, and it is none now: the deletion would have marked it.
NotLeaving ==
  \A r \in Reqs :
    \/ Is(r, "login") /\ ~ req[r].grace /\ ~ req[r].raced
    \/ Is(r, "rotate") /\ ~ req[r].raced
    => ~ InGrace(req[r].user)

\* A session the deletion's UPDATE has not found opened behind it.
FoundOrLate ==
  \A r \in Reqs : Is(r, "delete") /\ req[r].locked =>
    sess[req[r].user] \subseteq late \cup req[r].rows

\* A restore token is banned before its restore commits, and its ban lasts as
\* long as itself or is known to have ended.
BannedBeforeSpent ==
  /\ spent \subseteq banned \cup lapsing
  /\ \A r \in Reqs : Is(r, "restore") =>
       /\ req[r].stale => req[r].token \in lapsing
       /\ req[r].at = "banned" => req[r].token \in banned

\* The job takes the accounts that were due when it looked.
TakesDue == job # Idle => job.users \subseteq job.due

Inv ==
  TypeOK /\ NotLeaving /\ FoundOrLate /\ GraceSessionsAreLate /\ BannedBeforeSpent /\ TakesDue

LEMMA InitInv == Init => Inv
  BY AccountAssumption DEF Init, Inv, TypeOK, NotLeaving, FoundOrLate, GraceSessionsAreLate,
     BannedBeforeSpent, TakesDue, Is, InGrace

-----------------------------------------------------------------------------
(* Types                                                                   *)

Login == [op : {"login"}, user : Users, grace : BOOLEAN, raced : BOOLEAN]
Rotation == [op : {"rotate"}, user : Users, sess : Sessions, raced : BOOLEAN]
Deletion == [op : {"delete"}, user : Users, locked : BOOLEAN, rows : SUBSET Sessions]
Restoration == [op : {"restore"}, user : Users, at : {"checked", "loaded", "banned"},
                token : Restores, grace : BOOLEAN, stale : BOOLEAN]

LEMMA RequestKinds ==
  /\ Request = Login \cup Rotation \cup Deletion \cup Restoration
  /\ \A q \in Request : /\ q.op = "login" => q \in Login
                        /\ q.op = "rotate" => q \in Rotation
                        /\ q.op = "delete" => q \in Deletion
                        /\ q.op = "restore" => q \in Restoration
                        /\ q.user \in Users
  BY DEF Request, Login, Rotation, Deletion, Restoration

LEMMA RequestOf ==
  ASSUME TypeOK, NEW r \in Reqs
  PROVE  /\ Is(r, "login") => req[r] \in Login
         /\ Is(r, "rotate") => req[r] \in Rotation
         /\ Is(r, "delete") => req[r] \in Deletion
         /\ Is(r, "restore") => req[r] \in Restoration
         /\ req[r] # Idle => req[r].user \in Users
  BY RequestKinds DEF TypeOK, Is

\* What becomes of a request in a step of its own.
LEMMA RequestSteps ==
  ASSUME TypeOK, NEW r \in Reqs, Arrive(r) \/ GoOn(r), ~ CommitDeletion(r)
  PROVE  \E q \in Request \cup {Idle} : req' = [req EXCEPT ![r] = q]
<1>1. CASE Arrive(r)
  <2>1. ASSUME NEW u \in Users, ReadLogin(r, u) \/ LoadAccount(r, u)
        PROVE  \E q \in Request \cup {Idle} : req' = [req EXCEPT ![r] = q]
    <3>1. CASE ReadLogin(r, u)
      <4> DEFINE q == [op |-> "login", user |-> u, grace |-> MustRestore(u), raced |-> FALSE]
      <4>1. q \in Request
        BY RequestKinds DEF Login, MustRestore, InGrace
      <4>. QED BY <3>1, <4>1 DEF ReadLogin, Start
    <3>2. CASE LoadAccount(r, u)
      <4> DEFINE q == [op |-> "delete", user |-> u, locked |-> FALSE, rows |-> {}]
      <4>1. q \in Request
        BY RequestKinds DEF Deletion
      <4>. QED BY <3>2, <4>1 DEF LoadAccount, Start
    <3>. QED BY <2>1, <3>1, <3>2
  <2>2. ASSUME NEW u \in Users, NEW i \in Sessions, LoadToken(r, u, i)
        PROVE  \E q \in Request \cup {Idle} : req' = [req EXCEPT ![r] = q]
    <3> DEFINE q == [op |-> "rotate", user |-> u, sess |-> i, raced |-> i \in late]
    <3>1. q \in Request
      BY RequestKinds DEF Rotation
    <3>. QED BY <2>2, <3>1 DEF LoadToken, Start
  <2>3. ASSUME NEW x \in Restores, CheckRestore(r, x)
        PROVE  \E q \in Request \cup {Idle} : req' = [req EXCEPT ![r] = q]
    <3> DEFINE q == [op |-> "restore", user |-> restore[x], at |-> "checked", token |-> x,
                     grace |-> FALSE, stale |-> x \in spent]
    <3>1. restore[x] \in Users
      BY <2>3 DEF CheckRestore, TypeOK
    <3>2. q \in Request
      BY <3>1, RequestKinds DEF Restoration
    <3>. QED BY <2>3, <3>2 DEF CheckRestore, Start
  <2>. QED BY <1>1, <2>1, <2>2, <2>3 DEF Arrive
<1>2. CASE GoOn(r)
  <2>1. CASE Finish(r)
    BY <2>1 DEF Finish
  <2>2. CASE FindSessions(r)
    <3> DEFINE q == [req[r] EXCEPT !.locked = TRUE, !.rows = SessionsOf(req[r].user)]
    <3>1. req[r] \in Deletion
      BY <2>2, RequestOf DEF FindSessions
    <3>2. SessionsOf(req[r].user) \in SUBSET Sessions
      BY <3>1 DEF SessionsOf, TypeOK, Deletion
    <3>3. q \in Request
      BY <3>1, <3>2, RequestKinds DEF Deletion
    <3>4. req' = [req EXCEPT ![r] = q]
      BY <2>2 DEF FindSessions
    <3>. QED BY <3>3, <3>4
  <2>3. CASE LoadLeaving(r)
    <3>1. req[r] \in Restoration
      BY <2>3, RequestOf DEF LoadLeaving, At
    <3>2. ASSUME NEW g \in BOOLEAN PROVE [req[r] EXCEPT !.at = "loaded", !.grace = g] \in Request
      BY <3>1, RequestKinds DEF Restoration
    <3>3. InGrace(req[r].user) \in BOOLEAN
      BY DEF InGrace
    <3>4. PICK g \in BOOLEAN : req' = [req EXCEPT ![r] = [req[r] EXCEPT !.at = "loaded", !.grace = g]]
      BY <2>3, <3>3 DEF LoadLeaving
    <3>. QED BY <3>2, <3>4
  <2>4. CASE BanRestore(r)
    <3> DEFINE q == [req[r] EXCEPT !.at = "banned"]
    <3>1. req[r] \in Restoration
      BY <2>4, RequestOf DEF BanRestore, At
    <3>2. q \in Request
      BY <3>1, RequestKinds DEF Restoration
    <3>3. req' = [req EXCEPT ![r] = q]
      BY <2>4 DEF BanRestore
    <3>. QED BY <3>2, <3>3
  <2>. QED
    BY <1>2, <2>1, <2>2, <2>3, <2>4
    DEF GoOn, GiveRestoreToken, OpenSession, Rotate, CommitRestore, Abort
<1>. QED BY <1>1, <1>2

\* A deletion's commit marks the logins and rotations in flight, and no more.
Marked(q, u) ==
  IF q # Idle /\ q.op \in {"login", "rotate"} /\ q.user = u THEN [q EXCEPT !.raced = TRUE] ELSE q

LEMMA MarkedRequest ==
  ASSUME NEW q \in Request \cup {Idle}, NEW u
  PROVE  /\ Marked(q, u) \in Request \cup {Idle}
         /\ Marked(q, u) # Idle => /\ q # Idle
                                   /\ Marked(q, u).op = q.op /\ Marked(q, u).user = q.user
                                   /\ Marked(q, u).op = "delete" \/ Marked(q, u).op = "restore"
                                        => Marked(q, u) = q
                                   /\ q.op = "login" => Marked(q, u).grace = q.grace
                                   /\ q.op \in {"login", "rotate"} /\ ~ Marked(q, u).raced =>
                                        q.user # u /\ Marked(q, u) = q
<1>1. CASE q # Idle /\ q.op = "login" /\ q.user = u
  <2>1. Marked(q, u) = [q EXCEPT !.raced = TRUE] /\ q \in Login
    BY <1>1, RequestKinds DEF Marked
  <2>. QED BY <1>1, <2>1, RequestKinds DEF Login
<1>2. CASE q # Idle /\ q.op = "rotate" /\ q.user = u
  <2>1. Marked(q, u) = [q EXCEPT !.raced = TRUE] /\ q \in Rotation
    BY <1>2, RequestKinds DEF Marked
  <2>. QED BY <1>2, <2>1, RequestKinds DEF Rotation
<1>3. CASE ~ (q # Idle /\ q.op \in {"login", "rotate"} /\ q.user = u)
  <2>1. Marked(q, u) = q
    BY <1>3 DEF Marked
  <2>. QED BY <1>3, <2>1
<1>. QED BY <1>1, <1>2, <1>3

LEMMA DeletionMarks ==
  ASSUME TypeOK, NEW r \in Reqs, CommitDeletion(r)
  PROVE  /\ req[r] \in Deletion
         /\ req' = [q \in Reqs |-> IF q = r THEN Idle ELSE Marked(req[q], req[r].user)]
         /\ req' \in [Reqs -> Request \cup {Idle}]
<1>1. req[r] \in Deletion
  BY RequestOf DEF CommitDeletion
<1>2. req' = [q \in Reqs |-> IF q = r THEN Idle ELSE Marked(req[q], req[r].user)]
  BY DEF CommitDeletion, Marked, Is
<1>3. \A q \in Reqs : Marked(req[q], req[r].user) \in Request \cup {Idle}
  BY MarkedRequest DEF TypeOK
<1>. QED BY <1>1, <1>2, <1>3

\* The job.
LEMMA JobSteps ==
  ASSUME TypeOK, RunJob \/ JobDies
  PROVE  job' \in Job \cup {Idle}
<1> DEFINE From(b) == [at |-> "release", batch |-> b, tasks |-> {}, users |-> {}, due |-> {}]
           Drop(b) == [at |-> "tokens", batch |-> b, tasks |-> {}, users |-> {}, due |-> {}]
<1>1. \A b \in 1..MaxBatches : From(b) \in Job /\ Drop(b) \in Job
  BY DEF Job
<1>2. 1 \in 1..MaxBatches
  BY AccountAssumption
<1>3. job # Idle => job \in Job /\ job.batch \in 1..MaxBatches
  BY DEF TypeOK, Job
<1>4. job # Idle /\ job.batch # MaxBatches => job.batch + 1 \in 1..MaxBatches
  BY <1>3, AccountAssumption
<1>5. CASE StartJob
  BY <1>1, <1>2, <1>5 DEF StartJob
<1>6. CASE ReleaseTasks
  <2>1. PICK A : job' = [job EXCEPT !.at = "delete", !.tasks = TasksOf(A)]
    BY <1>6 DEF ReleaseTasks
  <2> DEFINE ts == TasksOf(A)
  <2>2. ts \in SUBSET Tasks /\ job \in Job /\ job' = [job EXCEPT !.at = "delete", !.tasks = ts]
    BY <1>3, <1>6, <2>1 DEF TasksOf, ReleaseTasks
  <2> HIDE DEF ts
  <2>. QED BY <2>2 DEF Job
<1>7. CASE FindAccounts
  <2>1. PICK B \in Limited(Purgeable) :
          job' = [job EXCEPT !.at = "commit", !.users = B, !.due = Due]
    BY <1>7 DEF FindAccounts
  <2> DEFINE due == Due
  <2>2. /\ B \in SUBSET Users /\ due \in SUBSET Users /\ job \in Job
        /\ job' = [job EXCEPT !.at = "commit", !.users = B, !.due = due]
    BY <1>3, <1>7, <2>1 DEF Limited, Purgeable, Due, FindAccounts
  <2> HIDE DEF due
  <2>. QED BY <2>2 DEF Job
<1>8. CASE Purge
  <2> DEFINE last == Last(Cardinality(job.users))
  <2>1. last => job' = Drop(1)
    BY <1>8 DEF Purge
  <2>2. ~ last => job' = From(job.batch + 1)
    BY <1>8 DEF Purge
  <2>3. ~ last => job # Idle /\ job.batch # MaxBatches
    BY <1>8 DEF Purge, Ready, Last
  <2> HIDE DEF last, From, Drop
  <2>. QED BY <1>1, <1>2, <1>4, <2>1, <2>2, <2>3
<1>9. CASE PurgeFails \/ JobDies
  BY <1>9 DEF PurgeFails, JobDies
<1>10. CASE DropTokens
  <2>1. CASE job' = Idle
    BY <2>1
  <2>2. CASE job' # Idle
    <3>1. job # Idle /\ job.batch # MaxBatches /\ job' = [job EXCEPT !.batch = job.batch + 1]
      BY <1>10, <2>2 DEF DropTokens, Last
    <3>. QED BY <1>3, <1>4, <3>1 DEF Job
  <2>. QED BY <2>1, <2>2
<1>. QED BY <1>5, <1>6, <1>7, <1>8, <1>9, <1>10 DEF RunJob

\* What a request leaves in the tables and keys is of their types.
LEMMA RequestTypes == ASSUME TypeOK, NEW r \in Reqs, Arrive(r) \/ GoOn(r) PROVE TypeOK'
<1> DEFINE Tables == /\ acct \in [Users -> {"live", "leaving", "due", "gone"}]
                     /\ sess \in [Users -> SUBSET Sessions] /\ late \in SUBSET Sessions
                     /\ restore \in [Restores -> Users \cup {None}]
                     /\ banned \in SUBSET Restores
                     /\ lapsing \in SUBSET Restores /\ spent \in SUBSET Restores
<1>1. UNCHANGED <<task, old, job>>
  BY DEF Arrive, ReadLogin, LoadAccount, LoadToken, CheckRestore, GoOn, GiveRestoreToken,
     OpenSession, Rotate, FindSessions, CommitDeletion, LoadLeaving, BanRestore, CommitRestore,
     Abort, UnchangedJob
<1>2. req' \in [Reqs -> Request \cup {Idle}]
  BY RequestSteps, DeletionMarks DEF TypeOK
<1>3. Tables'
  <2>1. CASE UNCHANGED <<acct, sess, restore, banned, late, lapsing, spent>>
    BY <2>1 DEF TypeOK
  <2>2. ASSUME NEW x \in Restores, GiveRestoreToken(r, x) PROVE Tables'
    <3>1. req[r].user \in Users
      BY <2>2, RequestOf DEF GiveRestoreToken, Is
    <3>. QED BY <2>2, <3>1 DEF GiveRestoreToken, TypeOK
  <2>3. ASSUME NEW i \in Sessions, OpenSession(r, i) \/ Rotate(r, i) PROVE Tables'
    <3>1. late' \in SUBSET Sessions
      BY <2>3 DEF OpenSession, Rotate, Record, TypeOK
    <3>2. sess' \in [Users -> SUBSET Sessions]
      BY <2>3 DEF OpenSession, Rotate, TypeOK
    <3>. QED BY <2>3, <3>1, <3>2 DEF OpenSession, Rotate, TypeOK
  <2>4. CASE CommitDeletion(r)
    BY <2>4 DEF CommitDeletion, TypeOK
  <2>5. CASE BanRestore(r)
    <3>1. req[r].token \in Restores
      BY <2>5, RequestOf DEF BanRestore, At, Restoration
    <3>. QED BY <2>5, <3>1 DEF BanRestore, Spent, TypeOK
  <2>6. CASE CommitRestore(r)
    <3>1. req[r].token \in Restores
      BY <2>6, RequestOf DEF CommitRestore, At, Restoration
    <3>2. acct' \in [Users -> {"live", "leaving", "due", "gone"}]
      BY <2>6 DEF CommitRestore, TypeOK
    <3>. QED BY <2>6, <3>1, <3>2 DEF CommitRestore, TypeOK
  <2>. QED
    BY <2>1, <2>2, <2>3, <2>4, <2>5, <2>6
    DEF Arrive, ReadLogin, LoadAccount, LoadToken, CheckRestore, GoOn, FindSessions, LoadLeaving,
        Abort
<1>. QED BY <1>1, <1>2, <1>3 DEF TypeOK

LEMMA TypeStep == ASSUME TypeOK, [Next]_vars PROVE TypeOK'
<1>1. ASSUME RunJob \/ JobDies PROVE TypeOK'
  <2>1. job' \in Job \cup {Idle}
    BY <1>1, JobSteps
  <2>2. CASE UNCHANGED <<acct, sess, task, old, late>> /\ Unchanged
    BY <2>1, <2>2 DEF Unchanged, TypeOK
  <2>3. CASE Purge
    <3>1. acct' \in [Users -> {"live", "leaving", "due", "gone"}]
      BY <2>3 DEF Purge, TypeOK
    <3>2. sess' \in [Users -> SUBSET Sessions]
      BY <2>3 DEF Purge, TypeOK
    <3>3. task' \in [Tasks -> Users \cup {None}]
      BY <2>3 DEF Purge, TypeOK
    <3>4. old' \in 0..MaxOld
      BY <2>3, AccountAssumption DEF Purge, TypeOK
    <3>. QED BY <2>1, <2>3, <3>1, <3>2, <3>3, <3>4 DEF Purge, Unchanged, TypeOK
  <2>4. CASE DropTokens
    <3>1. old' \in 0..MaxOld
      BY <2>4, AccountAssumption DEF DropTokens, TypeOK
    <3>. QED BY <2>1, <2>4, <3>1 DEF DropTokens, Unchanged, TypeOK
  <2>. QED
    BY <1>1, <2>2, <2>3, <2>4 DEF RunJob, StartJob, ReleaseTasks, FindAccounts, PurgeFails, JobDies
<1>2. ASSUME NEW t \in Tasks, NEW u \in Users, Assign(t, u) PROVE TypeOK'
  BY <1>2 DEF Assign, Unchanged, TypeOK
<1>3. CASE TokenExpires
  BY <1>3, AccountAssumption DEF TokenExpires, Unchanged, TypeOK
<1>4. ASSUME NEW u \in Users, Deadline(u) PROVE TypeOK'
  BY <1>4 DEF Deadline, Unchanged, UnchangedJob, TypeOK
<1>5. ASSUME NEW x \in Restores, BanEnds(x) \/ RestoreExpires(x) PROVE TypeOK'
  BY <1>5 DEF BanEnds, RestoreExpires, UnchangedJob, TypeOK
<1>6. CASE UNCHANGED vars
  BY <1>6 DEF vars, TypeOK
<1>. QED BY <1>1, <1>2, <1>3, <1>4, <1>5, <1>6, RequestTypes DEF Next, Disturbance

-----------------------------------------------------------------------------
(* Sessions and deletion                                                   *)

LateInv == NotLeaving /\ FoundOrLate /\ GraceSessionsAreLate

\* A step that ends requests and sessions, and deletes no account.
LEMMA LessKeepsLate ==
  ASSUME LateInv, \A u \in Users : sess'[u] \subseteq sess[u] /\ (InGrace(u)' => InGrace(u)),
         TypeOK, \A s \in Reqs : req'[s] \in {req[s], Idle}, late' = late
  PROVE  LateInv'
<1>1. \A s \in Reqs : req'[s] # Idle => req'[s] = req[s] /\ req[s].user \in Users
  BY RequestOf
<1>2. NotLeaving'
  BY <1>1 DEF LateInv, NotLeaving, Is
<1>3. FoundOrLate'
  BY <1>1 DEF LateInv, FoundOrLate, Is
<1>4. GraceSessionsAreLate'
  BY DEF LateInv, GraceSessionsAreLate
<1>. QED BY <1>2, <1>3, <1>4 DEF LateInv

\* What a request may rely on.
Safe(q) ==
  /\ \/ q.op = "login" /\ ~ q.grace /\ ~ q.raced
     \/ q.op = "rotate" /\ ~ q.raced
     => ~ InGrace(q.user)
  /\ q.op = "delete" /\ q.locked => sess[q.user] \subseteq late \cup q.rows

\* A step that leaves accounts and sessions alone.
LEMMA ReadKeepsLate ==
  ASSUME LateInv, TypeOK, UNCHANGED <<acct, sess, late>>, NEW r \in Reqs, NEW q,
         req' = [req EXCEPT ![r] = q], q # Idle => Safe(q)
  PROVE  LateInv'
<1>1. req'[r] = q /\ \A s \in Reqs : s # r => req'[s] = req[s]
  BY DEF TypeOK
<1>2. \A u : InGrace(u)' = InGrace(u)
  BY DEF InGrace
<1>3. NotLeaving'
  BY <1>1, <1>2 DEF LateInv, NotLeaving, Is, Safe
<1>4. FoundOrLate'
  BY <1>1 DEF LateInv, FoundOrLate, Is, Safe
<1>5. GraceSessionsAreLate'
  BY <1>2 DEF LateInv, GraceSessionsAreLate
<1>. QED BY <1>3, <1>4, <1>5 DEF LateInv

LEMMA ReadsKeepLate ==
  ASSUME LateInv, TypeOK, NEW r \in Reqs,
         Arrive(r) \/ FindSessions(r) \/ LoadLeaving(r) \/ BanRestore(r)
  PROVE  LateInv'
<1>1. ASSUME NEW u \in Users, ReadLogin(r, u) PROVE LateInv'
  <2> DEFINE q == [op |-> "login", user |-> u, grace |-> MustRestore(u), raced |-> FALSE]
  <2>1. Safe(q)
    BY DEF Safe, MustRestore
  <2>2. req' = [req EXCEPT ![r] = q] /\ UNCHANGED <<acct, sess, late>>
    BY <1>1 DEF ReadLogin, Start
  <2> HIDE DEF q
  <2>. QED BY <2>1, <2>2, ReadKeepsLate
<1>2. ASSUME NEW u \in Users, LoadAccount(r, u) PROVE LateInv'
  <2> DEFINE q == [op |-> "delete", user |-> u, locked |-> FALSE, rows |-> {}]
  <2>1. Safe(q)
    BY DEF Safe
  <2>2. req' = [req EXCEPT ![r] = q] /\ UNCHANGED <<acct, sess, late>>
    BY <1>2 DEF LoadAccount, Start
  <2> HIDE DEF q
  <2>. QED BY <2>1, <2>2, ReadKeepsLate
<1>3. ASSUME NEW u \in Users, NEW i \in Sessions, LoadToken(r, u, i) PROVE LateInv'
  <2> DEFINE q == [op |-> "rotate", user |-> u, sess |-> i, raced |-> i \in late]
  <2>1. InGrace(u) => i \in late
    BY <1>3 DEF LoadToken, LateInv, GraceSessionsAreLate
  <2>2. Safe(q)
    BY <2>1 DEF Safe
  <2>3. req' = [req EXCEPT ![r] = q] /\ UNCHANGED <<acct, sess, late>>
    BY <1>3 DEF LoadToken, Start
  <2> HIDE DEF q
  <2>. QED BY <2>2, <2>3, ReadKeepsLate
<1>4. ASSUME NEW x \in Restores, CheckRestore(r, x) PROVE LateInv'
  <2> DEFINE q == [op |-> "restore", user |-> restore[x], at |-> "checked", token |-> x,
                   grace |-> FALSE, stale |-> x \in spent]
  <2>1. Safe(q)
    BY DEF Safe
  <2>2. req' = [req EXCEPT ![r] = q] /\ UNCHANGED <<acct, sess, late>>
    BY <1>4 DEF CheckRestore, Start
  <2> HIDE DEF q
  <2>. QED BY <2>1, <2>2, ReadKeepsLate
<1>5. CASE FindSessions(r)
  <2> DEFINE q == [req[r] EXCEPT !.locked = TRUE, !.rows = sess[req[r].user]]
  <2>1. req[r] \in Deletion
    BY <1>5, RequestOf DEF FindSessions
  <2>2. q.op = "delete" /\ q.rows = sess[q.user]
    BY <2>1 DEF Deletion
  <2>3. req' = [req EXCEPT ![r] = q] /\ UNCHANGED <<acct, sess, late>>
    BY <1>5 DEF FindSessions, SessionsOf
  <2> HIDE DEF q
  <2>4. Safe(q)
    BY <2>2 DEF Safe
  <2>. QED BY <2>3, <2>4, ReadKeepsLate
<1>6. CASE LoadLeaving(r) \/ BanRestore(r)
  <2>1. req[r] \in Restoration
    BY <1>6, RequestOf DEF LoadLeaving, BanRestore, At
  <2>2. \A q : q.op = "restore" => Safe(q)
    BY DEF Safe
  <2>3. CASE LoadLeaving(r)
    <3> DEFINE q == [req[r] EXCEPT !.at = "loaded", !.grace = InGrace(req[r].user)]
    <3>1. q.op = "restore"
      BY <2>1 DEF Restoration
    <3>2. req' = [req EXCEPT ![r] = q] /\ UNCHANGED <<acct, sess, late>>
      BY <2>3 DEF LoadLeaving
    <3> HIDE DEF q
    <3>. QED BY <2>2, <3>1, <3>2, ReadKeepsLate
  <2>4. CASE BanRestore(r)
    <3> DEFINE q == [req[r] EXCEPT !.at = "banned"]
    <3>1. q.op = "restore"
      BY <2>1 DEF Restoration
    <3>2. req' = [req EXCEPT ![r] = q] /\ UNCHANGED <<acct, sess, late>>
      BY <2>4 DEF BanRestore
    <3> HIDE DEF q
    <3>. QED BY <2>2, <3>1, <3>2, ReadKeepsLate
  <2>. QED BY <1>6, <2>3, <2>4
<1>. QED BY <1>1, <1>2, <1>3, <1>4, <1>5, <1>6 DEF Arrive

\* A session is opened for an account that is not to be deleted, or is late.
LEMMA OpenKeepsLate ==
  ASSUME LateInv, TypeOK, NEW r \in Reqs, NEW i \in Sessions, OpenSession(r, i) \/ Rotate(r, i)
  PROVE  LateInv'
<1> DEFINE u == req[r].user
<1>1. /\ req[r] # Idle /\ u \in Users
      /\ InGrace(u) => req[r].raced
  BY RequestOf DEF OpenSession, Rotate, Is, LateInv, NotLeaving
<1>2. /\ sess'[u] \subseteq sess[u] \cup {i}
      /\ \A v \in Users : v # u => sess'[v] = sess[v]
      /\ \A v \in Users : i \notin sess[v]
      /\ \A s \in Reqs : Is(s, "delete") => i \notin req[s].rows
      /\ req[r].raced \/ Locked(u) => late' = late \cup {i}
      /\ late \ {i} \subseteq late'
      /\ req' = [req EXCEPT ![r] = Idle] /\ acct' = acct
  BY <1>1 DEF OpenSession, Rotate, NewSession, Record, Finish, TypeOK
<1>3. req'[r] = Idle /\ \A s \in Reqs : s # r => req'[s] = req[s]
  BY <1>2 DEF TypeOK
<1> HIDE DEF u
<1>4. \A v : InGrace(v)' = InGrace(v)
  BY <1>2 DEF InGrace
<1>5. NotLeaving'
  BY <1>3, <1>4 DEF LateInv, NotLeaving, Is
<1>6. GraceSessionsAreLate'
  BY <1>1, <1>2, <1>4 DEF LateInv, GraceSessionsAreLate
<1>7. FoundOrLate'
  <2> SUFFICES ASSUME NEW s \in Reqs, Is(s, "delete"), req[s].locked, req'[s] = req[s]
               PROVE  sess'[req[s].user] \subseteq late' \cup req[s].rows
    BY <1>3 DEF FoundOrLate, Is
  <2>1. sess[req[s].user] \subseteq late \cup req[s].rows /\ req[s].user \in Users
    BY RequestOf DEF LateInv, FoundOrLate, Is
  <2>2. CASE req[s].user = u
    <3>1. late' = late \cup {i}
      BY <1>2, <2>2 DEF Locked
    <3>. QED BY <1>2, <2>1, <2>2, <3>1
  <2>3. CASE req[s].user # u
    BY <1>2, <2>1, <2>3
  <2>. QED BY <2>2, <2>3
<1>. QED BY <1>5, <1>6, <1>7 DEF LateInv

\* The commit of a deletion ends what it found; the rest is late.
LEMMA DeletionKeepsLate ==
  ASSUME LateInv, TypeOK, NEW r \in Reqs, CommitDeletion(r)
  PROVE  LateInv'
<1> DEFINE u == req[r].user
<1>1. req[r] \in Deletion /\ req[r].locked /\ Is(r, "delete") /\ u \in Users
  BY DeletionMarks, RequestOf DEF CommitDeletion, Is
<1>2. /\ sess'[u] = sess[u] \ req[r].rows
      /\ \A v \in Users : v # u => sess'[v] = sess[v] /\ acct'[v] = acct[v]
      /\ late' = late
  BY <1>1 DEF CommitDeletion, TypeOK
<1>3. \A s \in Reqs : req'[s] = IF s = r THEN Idle ELSE Marked(req[s], u)
  BY DeletionMarks
<1>4. sess[u] \subseteq late \cup req[r].rows
  BY <1>1 DEF LateInv, FoundOrLate
<1> HIDE DEF u
<1>5. ASSUME NEW s \in Reqs, req'[s] # Idle
      PROVE  /\ req[s] # Idle /\ req'[s].op = req[s].op /\ req'[s].user = req[s].user
             /\ req[s].user \in Users
             /\ req'[s].op = "delete" => req'[s] = req[s]
             /\ req'[s].op = "login" => req'[s].grace = req[s].grace
             /\ req'[s].op \in {"login", "rotate"} /\ ~ req'[s].raced =>
                  req[s].user # u /\ req'[s] = req[s]
  BY <1>3, <1>5, MarkedRequest, RequestOf DEF TypeOK
<1>6. \A v \in Users : v # u => InGrace(v)' = InGrace(v)
  BY <1>2 DEF InGrace
<1>7. NotLeaving'
  BY <1>5, <1>6 DEF LateInv, NotLeaving, Is
<1>8. FoundOrLate'
  BY <1>1, <1>2, <1>5 DEF LateInv, FoundOrLate, Is
<1>9. GraceSessionsAreLate'
  BY <1>2, <1>4, <1>6 DEF LateInv, GraceSessionsAreLate
<1>. QED BY <1>7, <1>8, <1>9 DEF LateInv

LEMMA LateStep == ASSUME LateInv, TypeOK, [Next]_vars PROVE LateInv'
<1>1. ASSUME NEW r \in Reqs, GoOn(r) PROVE LateInv'
  <2>1. CASE (\E x \in Restores : GiveRestoreToken(r, x)) \/ Abort(r)
    BY <2>1, LessKeepsLate DEF GiveRestoreToken, Abort, Finish, TypeOK, InGrace
  <2>2. CASE CommitRestore(r)
    <3>1. \A u \in Users : InGrace(u)' => InGrace(u)
      BY <2>2 DEF CommitRestore, InGrace, TypeOK
    <3>. QED BY <2>2, <3>1, LessKeepsLate DEF CommitRestore, Finish, TypeOK
  <2>. QED
    BY <1>1, <2>1, <2>2, ReadsKeepLate, OpenKeepsLate, DeletionKeepsLate DEF GoOn
<1>2. CASE UNCHANGED <<acct, sess, late, req>>
  BY <1>2, LessKeepsLate DEF InGrace
<1>3. CASE Purge
  BY <1>3, LessKeepsLate DEF Purge, Unchanged, InGrace, TypeOK
<1>4. ASSUME NEW u \in Users, Deadline(u) PROVE LateInv'
  BY <1>4, LessKeepsLate DEF Deadline, Unchanged, InGrace, TypeOK
<1>. QED
  BY <1>1, <1>2, <1>3, <1>4, ReadsKeepLate
  DEF Next, RunJob, StartJob, ReleaseTasks, FindAccounts, PurgeFails, DropTokens, Disturbance,
      JobDies, TokenExpires, Assign, BanEnds, RestoreExpires, Unchanged, vars

-----------------------------------------------------------------------------
(* Restore tokens, and the job                                             *)

\* A step that leaves bans and restores alone.
LEMMA OthersKeepBans ==
  ASSUME BannedBeforeSpent, TypeOK, UNCHANGED <<banned, lapsing, spent>>,
         \A s \in Reqs : Is(s, "restore")' =>
           \/ Is(s, "restore") /\ req'[s] = req[s]
           \/ (req'[s].stale => req'[s].token \in lapsing) /\ req'[s].at # "banned"
  PROVE  BannedBeforeSpent'
  BY DEF BannedBeforeSpent

LEMMA BanStep == ASSUME BannedBeforeSpent, TypeOK, [Next]_vars PROVE BannedBeforeSpent'
<1>1. ASSUME NEW r \in Reqs, NEW q, req' = [req EXCEPT ![r] = q], UNCHANGED <<banned, lapsing, spent>>,
             q # Idle /\ q.op = "restore" =>
               (q.stale => q.token \in lapsing) /\ q.at # "banned"
      PROVE  BannedBeforeSpent'
  BY <1>1, OthersKeepBans DEF TypeOK, Is
<1>2. ASSUME NEW r \in Reqs, CommitDeletion(r) PROVE BannedBeforeSpent'
  <2>1. \A s \in Reqs : Is(s, "restore")' => req'[s] = req[s]
    BY <1>2, DeletionMarks, MarkedRequest DEF Is, TypeOK
  <2>. QED BY <1>2, <2>1, OthersKeepBans DEF CommitDeletion, Is
<1>3. ASSUME NEW r \in Reqs, Arrive(r) PROVE BannedBeforeSpent'
  <2>1. ASSUME NEW u \in Users, ReadLogin(r, u) PROVE BannedBeforeSpent'
    BY <1>1, <2>1 DEF ReadLogin, Start
  <2>2. ASSUME NEW u \in Users, LoadAccount(r, u) PROVE BannedBeforeSpent'
    BY <1>1, <2>2 DEF LoadAccount, Start
  <2>3. ASSUME NEW u \in Users, NEW i \in Sessions, LoadToken(r, u, i) PROVE BannedBeforeSpent'
    BY <1>1, <2>3 DEF LoadToken, Start
  <2>4. ASSUME NEW x \in Restores, CheckRestore(r, x) PROVE BannedBeforeSpent'
    BY <1>1, <2>4 DEF CheckRestore, Start, BannedBeforeSpent
  <2>. QED BY <1>3, <2>1, <2>2, <2>3, <2>4 DEF Arrive
<1>4. ASSUME NEW r \in Reqs, FindSessions(r) PROVE BannedBeforeSpent'
  <2> DEFINE q == [req[r] EXCEPT !.locked = TRUE, !.rows = SessionsOf(req[r].user)]
  <2>1. req[r] \in Deletion
    BY <1>4, RequestOf DEF FindSessions
  <2>2. q.op = "delete"
    BY <2>1 DEF Deletion
  <2>3. req' = [req EXCEPT ![r] = q] /\ UNCHANGED <<banned, lapsing, spent>>
    BY <1>4 DEF FindSessions
  <2> HIDE DEF q
  <2>. QED BY <1>1, <2>2, <2>3
<1>5. ASSUME NEW r \in Reqs, LoadLeaving(r) PROVE BannedBeforeSpent'
  <2> DEFINE q == [req[r] EXCEPT !.at = "loaded", !.grace = InGrace(req[r].user)]
  <2>1. req[r] \in Restoration /\ (req[r].stale => req[r].token \in lapsing)
    BY <1>5, RequestOf DEF LoadLeaving, At, BannedBeforeSpent
  <2>2. (q.stale => q.token \in lapsing) /\ q.at = "loaded"
    BY <2>1 DEF Restoration
  <2>3. req' = [req EXCEPT ![r] = q] /\ UNCHANGED <<banned, lapsing, spent>>
    BY <1>5 DEF LoadLeaving
  <2> HIDE DEF q
  <2>. QED BY <1>1, <2>2, <2>3
<1>6. ASSUME NEW r \in Reqs, BanRestore(r) PROVE BannedBeforeSpent'
  <2> DEFINE q == [req[r] EXCEPT !.at = "banned"]
  <2>1. req[r] \in Restoration /\ (req[r].stale => req[r].token \in lapsing)
    BY <1>6, RequestOf DEF BanRestore, At, BannedBeforeSpent
  <2>2. (q.stale => q.token \in lapsing) /\ q.token = req[r].token
    BY <2>1 DEF Restoration
  <2>3. req' = [req EXCEPT ![r] = q] /\ banned' = banned \cup {req[r].token}
        /\ spent' = spent /\ lapsing' = lapsing
    BY <1>6 DEF BanRestore, Spent
  <2> HIDE DEF q
  <2>4. req'[r] = q /\ \A s \in Reqs : s # r => req'[s] = req[s]
    BY <2>3 DEF TypeOK
  <2>. QED BY <2>2, <2>3, <2>4 DEF BannedBeforeSpent, Is
<1>7. ASSUME NEW r \in Reqs, CommitRestore(r) PROVE BannedBeforeSpent'
  <2>1. req[r].token \in banned
    BY <1>7 DEF CommitRestore, At, BannedBeforeSpent
  <2>2. spent' = spent \cup {req[r].token} /\ banned' = banned
        /\ lapsing' = lapsing /\ req' = [req EXCEPT ![r] = Idle]
    BY <1>7 DEF CommitRestore, Finish
  <2>3. \A s \in Reqs : req'[s] # Idle => req'[s] = req[s]
    BY <2>2 DEF TypeOK
  <2>. QED BY <2>1, <2>2, <2>3 DEF BannedBeforeSpent, Is
<1>8. ASSUME NEW r \in Reqs, GoOn(r) PROVE BannedBeforeSpent'
  <2>1. CASE Finish(r) /\ UNCHANGED <<banned, lapsing, spent>>
    BY <1>1, <2>1 DEF Finish
  <2>. QED
    BY <1>2, <1>4, <1>5, <1>6, <1>7, <1>8, <2>1 DEF GoOn, GiveRestoreToken, OpenSession, Rotate, Abort
<1>9. ASSUME NEW x \in Restores, BanEnds(x) \/ RestoreExpires(x) PROVE BannedBeforeSpent'
  BY <1>9 DEF BanEnds, RestoreExpires, NotPresented, BannedBeforeSpent, Is
<1>10. CASE UNCHANGED <<req, banned, lapsing, spent>>
  BY <1>10 DEF BannedBeforeSpent, Is
<1>. QED
  BY <1>3, <1>8, <1>9, <1>10
  DEF Next, RunJob, StartJob, ReleaseTasks, FindAccounts, Purge, PurgeFails, DropTokens,
      Disturbance, JobDies, TokenExpires, Assign, Deadline, Unchanged, vars

LEMMA JobStep == ASSUME TakesDue, TypeOK, [Next]_vars PROVE TakesDue'
<1>1. job # Idle => job \in Job
  BY DEF TypeOK
<1>2. CASE UNCHANGED job
  BY <1>2 DEF TakesDue
<1>3. CASE RunJob \/ JobDies
  <2>1. CASE StartJob \/ Purge
    BY <2>1 DEF StartJob, Purge, TakesDue
  <2>2. CASE ReleaseTasks
    <3>1. PICK A : job' = [job EXCEPT !.at = "delete", !.tasks = TasksOf(A)]
      BY <2>2 DEF ReleaseTasks
    <3>2. job'.users = job.users /\ job'.due = job.due
      BY <1>1, <2>2, <3>1 DEF ReleaseTasks, Job
    <3>. QED BY <2>2, <3>2 DEF ReleaseTasks, TakesDue
  <2>3. CASE FindAccounts
    <3>1. PICK B \in Limited(Purgeable) :
            job' = [job EXCEPT !.at = "commit", !.users = B, !.due = Due]
      BY <2>3 DEF FindAccounts
    <3>2. B \subseteq Due
      BY DEF Limited, Purgeable
    <3>3. job'.users = B /\ job'.due = Due
      BY <1>1, <2>3, <3>1 DEF FindAccounts, Job
    <3>. QED BY <3>2, <3>3 DEF TakesDue
  <2>4. CASE PurgeFails \/ JobDies
    BY <2>4 DEF PurgeFails, JobDies, TakesDue
  <2>5. CASE DropTokens
    BY <1>1, <2>5 DEF DropTokens, TakesDue, Job
  <2>. QED BY <1>3, <2>1, <2>2, <2>3, <2>4, <2>5 DEF RunJob
<1>. QED
  BY <1>2, <1>3
  DEF Next, Arrive, ReadLogin, LoadAccount, LoadToken, CheckRestore, GoOn, GiveRestoreToken,
      OpenSession, Rotate, FindSessions, CommitDeletion, LoadLeaving, BanRestore, CommitRestore,
      Abort, Disturbance, TokenExpires, Assign, Deadline, BanEnds, RestoreExpires, UnchangedJob,
      vars

-----------------------------------------------------------------------------

\* Every step keeps the invariant.
LEMMA NextInv == Inv /\ [Next]_vars => Inv'
  BY TypeStep, LateStep, BanStep, JobStep DEF Inv, LateInv

THEOREM Invariant == Spec => []Inv
  BY InitInv, NextInv, PTL DEF Spec

\* Every variable keeps its type.
THEOREM TypeCorrect == Spec => []TypeOK
<1>1. Inv => TypeOK
  BY DEF Inv
<1>. QED BY <1>1, Invariant, PTL

\* Whoever is in an account that is to be deleted came in with a request that
\* overlapped the deletion, or by rotations of such a session.
THEOREM NobodyStays == Spec => []GraceSessionsAreLate
<1>1. Inv => GraceSessionsAreLate
  BY DEF Inv
<1>. QED BY <1>1, Invariant, PTL

\* A restore of a token that had served when it was presented commits only
\* where the token has outlived its ban.
THEOREM ServedIsRefused == Spec => ServedTokenIsRefused
<1>1. Inv => [\A r \in Reqs : CommitRestore(r) /\ req[r].stale => req[r].token \in lapsing]_vars
  BY DEF Inv, BannedBeforeSpent, CommitRestore, At
<1>. QED BY <1>1, Invariant, PTL DEF ServedTokenIsRefused

\* Only an account that was due when the job looked is purged.
THEOREM PurgedInTime == Spec => PurgedWhenDue
<1>1. Inv /\ [Next]_vars => [\A u \in Users : Exists(u) /\ acct'[u] = "gone" => u \in job.due]_vars
  <2> SUFFICES ASSUME Inv, Next, NEW u \in Users, Exists(u), acct'[u] = "gone"
               PROVE  u \in job.due
    BY DEF vars, Exists
  <2>1. CASE Purge
    BY <2>1 DEF Purge, Ready, Exists, Inv, TypeOK, TakesDue
  <2>2. ASSUME ~ Purge PROVE FALSE
    <3>1. acct \in [Users -> {"live", "leaving", "due", "gone"}] /\ acct[u] # "gone"
      BY DEF Inv, TypeOK, Exists
    <3>2. ASSUME NEW r \in Reqs, CommitDeletion(r) \/ CommitRestore(r) PROVE FALSE
      BY <3>1, <3>2 DEF CommitDeletion, CommitRestore
    <3>3. ASSUME NEW v \in Users, Deadline(v) PROVE FALSE
      BY <3>1, <3>3 DEF Deadline
    <3>4. acct' # acct
      BY <3>1
    <3>. QED
      BY <2>2, <3>2, <3>3, <3>4
      DEF Next, Arrive, ReadLogin, LoadAccount, LoadToken, CheckRestore, GoOn, GiveRestoreToken,
          OpenSession, Rotate, FindSessions, LoadLeaving, BanRestore, Abort, RunJob, StartJob,
          ReleaseTasks, FindAccounts, PurgeFails, DropTokens, Disturbance, JobDies, TokenExpires,
          Assign, BanEnds, RestoreExpires
  <2>. QED BY <2>1, <2>2
<1>. QED BY <1>1, Invariant, PTL DEF Spec, PurgedWhenDue

====
