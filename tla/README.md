# A TLA+ model of the project management API

The program under `src/` is a FastAPI service: users register and log in, create
projects, invite each other, hand out roles and work on tasks. One asyncio
process serves the requests; PostgreSQL keeps the data, Redis keeps cached
permissions, versions of cached lists, bans of tokens and retry data; a
scheduler runs cleanup jobs. Nothing in it takes a lock of its own. What keeps it correct
is a small set of database constraints, statements with a `WHERE` clause that
re-checks, the order of commit and cache invalidation, and checks that run some
awaits before the write they guard. The modules here say which of these hold up
under every interleaving and which hold only while requests do not overlap.

Lines are those of the files under `src/`; `project_services.py` and the other
services are in `src/services/`.

## 1. Inventory

| Component | State | Operations | Interacts with |
|---|---|---|---|
| Roles and permission checks (`permission_check.py`) | none; reads `user_project_relation`, `projects.status`, Redis | `verify_user_role`, `verify_user_hierarchy` | called first by the managing handlers of projects, invitations and tasks |
| Projects and membership (`project_services.py`, `projects_repo.py`) | `projects`, `user_project_relation` | create, archive, change status, delete by name, change role, remove, leave, transfer, lists | invalidates the caches after its commits; cascades to invitations and tasks |
| Invitations (`invitation_service.py`, `invitation_repo.py`) | `project_invitations` | send, accept, reject, revoke | accept inserts a membership; the expiry and purge jobs write the same rows |
| Permission and status cache (`redis_services.py`) | `user_role:<u>:<p>`, `project_status:<p>` | `get_or_set_cache`, `invalidate_cache` | read by `verify_user_role` |
| Members list cache | `project_members_ver:<p>`, the pages | `get_members_list`, `bump_version` | bumped after membership changes |
| Tasks (`task_service.py`, `tasks_repo.py`) | `tasks` | create, delete, assign, unassign, take, send to review, complete, the way back, lists | roles of actor and assignee; the account purge empties assignees |
| Sessions (`user_service.py`, `user_repo.py`) | `refresh_tokens`, `refresh-rotation:<t>`, `tokens:banned:<family>` | login, rotate, logout, end a session, end all, change password | bans are read by the check of access tokens |
| Access tokens and their blacklist (`security.py`, `redis_services.py`) | `tokens:banned:<token or family>` | issue, ban, check | every authenticated request; sessions ban their family |
| One-time codes (`user_service.py`) | `otp:<key>` in Redis | send, compare, delete, confirm | registration, password reset |
| Identities (`user_service.py`) | `user_identities` | OAuth login, link, unlink | login |
| Account deletion and jobs (`user_service.py`, `cleanup_service.py`, `cleanup_repo.py`, `jobs/`) | `users.deletes_at` and everything above | delete, restore, expire invitations, purge accounts, invitations and tokens in batches | all of the above |
| Rate limiting (`redis_services.py`, middleware) | a sorted set per client | check and record | every request |
| HTTP layer, e-mail, configuration | none | each route calls one service method | |

What is hard here:

* **Check then write.** A handler SELECTs, checks, awaits, and writes by primary
  key at READ COMMITTED (`BaseRepository.update`); another request may commit
  in between. SQLAlchemy sends only the columns that differ from the row that
  was read, so two requests can each write half of a row.
* **What the database refuses.** Unique partial indexes, foreign keys, cascades and
  the row count of an UPDATE are the only protection left at the commit.
* **Cache after commit.** The commit, the DEL (or INCR) and a concurrent reader's GET,
  SELECT and SET come in any order; a Redis error is logged and swallowed; the
  process may die after the commit.
* **Statements that wait.** An UPDATE of several rows, or one fed by a subquery, looks at
  its rows when it starts and writes them when their locks are free.
* **Jobs.** Batches with a LIMIT run next to requests on the same rows.
* **Time.** Jitter, retry window, version key and bans have lifetimes that race with
  the operations they protect.

What makes the components correct, in a sentence each: a project has exactly one
owner and nobody acts on someone he does not outrank; an invitation is answered
once and makes exactly its target a member; a cache disagrees with the database
only for a known reason and a bounded time; a session has one token that can be
rotated, and ends when it is told to; a task's assignee exists and may work on it, and
its status and assignee agree; an access token is refused once it, or its session, was ended; an
account that is deleted has no sessions, comes back whole or is purged, and only when due; a client is
let through no more often than his limit allows, and let in again when he has waited.

## 2. Modules

| Module | Models |
|---|---|
| `Roles` | the roles, `verify_user_hierarchy` as `HierarchyAllows`, and the order README.md:25 promises |
| `Membership` | abstract: what a project promises about its members, one atomic step per event |
| `ProjectMembership` | one project: its status and the roles of its members, eight operations as requests, the purge of an account; implements `Membership` |
| `Invitations` | the invitations to one project, the requests on them, the expiry job, the purge |
| `PermissionCache` | the cached roles and status of one project, call by call |
| `MembersCache` | the versioned pages of one members list |
| `CacheLifetime` | one cached key in time: TTL, jitter, slow readers |
| `SessionTokens` | the refresh tokens of one user |
| `AccessTokens` | access tokens and their bans on a clock, and the checks of `get_user_credentials` |
| `Accounts` | the end of an account: deletion, grace period, restore, the daily job statement by statement |
| `RateLimiter` | the sliding windows a request passes one after another |
| `TaskWorkflow` | one task: assignee and status |
| `Identities` | accounts, passwords and provider accounts to log in with, and the codes that confirm a password |
| `MC...` | an instance for TLC: symmetry, and where it is needed the history variable below |
| `...Proofs` | theorems about the module of that name; `CacheProofs` is about the three modules of the caches, `RequestGuardsProofs` about `RateLimiter` and `AccessTokens` |

### How code becomes actions

A request is a record in a slot `req[r]` with a program counter; between two of its
steps anything may happen. One await that reads is one step: it stores in the record what it
read and checks it, and a check that raises empties the slot. The write and its commit are one
step, because the rows written stay locked until the commit and no other request
sees them before. The exception is a statement that may wait for a lock after it
has chosen its rows: `ExpireScan`/`ExpireUpdate`, `ScanFamily`/`KillFamily` and
`ScanUser`/`CommitEnd` are the two halves of one UPDATE. Redis calls are steps
of their own.

* `ProjectMembership`. `VerifyRole` and `VerifyActive` are `verify_user_role`; `LoadTarget`,
  `CountMembers`, `LoadHeir` and `LoadProject` the handlers' second reads with their checks;
  `Remove`, `ChangeRole`, `Leave`, `Transfer`, `WriteStatus`, `HardDelete` and `Accept` the
  commits. `OwnerIndex`, `RowMatched` and `Insertable` say what the database refuses: then
  the whole request is rolled back. `role[u]` is the role column of u's row, `NoRole`
  without a row. Roles are read from the database, as with `ENABLE_CACHING` off. The refinement
  mapping to `Membership` takes `status` and `role` as they are, and for `joining` the requests that
  have passed the checks of an acceptance (`Joining`).
* `Invitations`. `CheckNotMember`/`Send`, `CheckAvailable`/`Accept` and
  `CheckAvailable`/`RejectOrRevoke` are the requests, `PendingIndex` is
  `ix_unique_project_invite`, `Updatable` the `WHERE` of `update_if_pending`.
  `Lapse` is the passing of `expires_at`. `MemberGoes` and `ProjectGoes` stand for the rest of
  the project service. Who may invite is left to `ProjectMembership`.
* `PermissionCache`. `Get`, `Load`, `Set` are the three calls of `get_or_set_cache`,
  `GetFails` and `SetFails` its two except clauses; each commit hands the keys its handler
  invalidates to `write[w]`, and `Invalidate` or `NeverInvalidates` takes them.
  `PurgeMember` is the cascade of a removed account, which invalidates nothing. `lost`, `late`, `cascaded`
  and `held` are ghosts: they record history and no action's guard reads them.
* `MembersCache`. The members are the number of commits that changed them; a page is the pair of
  such numbers its two queries saw. `GetVersionFails` is the RedisError that `get_version` answers with version 0,
  whatever the version is. `missed` and `old` are ghosts, and so is `since`, the commits a reader may count on: all
  from before he read the version, or none where a cause named (`Excuse`, a failed GET) held then.
* `CacheLifetime`. An entry is the time it has left and how long its value has been outdated.
* `SessionTokens`. `Rotate` is the transaction of `rotate_refresh_token`, `SaveRetry` the Redis
  call after it, `CheckRetry`, `ScanFamily`, `KillFamily` what a used token leads to, and `RetryUnread` the
  RedisError that `check_refresh_for_retries` answers as if there were no key. `Abort`
  lets any request die or be refused at any step: what it has told Redis stays. `parent` and
  `grace` are ghosts.
* `TaskWorkflow`. `VerifyRole`, `VerifyActive`, `LoadTask`, `LoadTarget`, and the writes `Update`,
  `Create`, `Delete`, `SelfAssign`. `ChangedColumns` is the UPDATE of differing columns;
  `Unclaimed` the `WHERE` of `task_self_assign_update`. The actor's role comes from the cache, so `RolesHeld` lets it
  be any he may have been given, present or not; the status of the project is read from the database. `MemberChanges`,
  `Archive` and `PurgeAccount` are what goes on around the task. The purge is one step: its UPDATE locks the task's row
  until the DELETE commits, and an assignment that slips in between rolls both back.
* `Identities`. `CheckAsker`/`SendCode` ask for a code; `MatchCode`, `DropCode` and
  `VerifyRegistration`, `VerifyForgotten` or `ConfirmAdding` are the GET with its comparison, the DEL and the
  commit of a confirmation. `FindSubject`/`FindEmail`/`Attach` is a first login through a provider,
  `CheckUnlinked`/`Attach` is `link_provider`, `CheckOthers`/`DeleteIdentity` `unlink_identity`.
  `Insertable` is the two unique constraints, `UserExists` the foreign key. `asked` and `spent` are
  ghosts, but for their part in giving out new ids. A password is the id of the code it was sent with. `PurgeAccount` ends
  the user's own requests: they go by ids that are never used again.
* `AccessTokens`. `Commit`/`Issue` is a login or a rotation; `BanToken` and `BanFamily` compute the
  lifetime of a ban, `SetBan` is the SETEX; `CheckToken`, `Decode`, `Refuse` and `Admit` are
  `get_user_credentials` call by call, `DecodeEarly` the middleware that decodes before it. A token's end
  and a ban's lifetime are whole seconds, the clock has `Second` ticks in each. `out` is a ghost.
* `Accounts`. `ReadLogin` with `GiveRestoreToken` or `OpenSession`, `LoadToken`/`Rotate`,
  `LoadAccount`/`FindSessions`/`CommitDeletion` and `CheckRestore`/`LoadLeaving`/`BanRestore`/`CommitRestore`
  are the requests; `ReleaseTasks`, `FindAccounts` and `Purge` or `PurgeFails` are the statements of one
  batch, `DropTokens` a batch of expired tokens. `Locked` is the lock the deletion takes on the user's row
  when its first query flushes `deletes_at`. `Limited` is a LIMIT without an ORDER BY: any rows will do, and
  the two statements need not agree. `Deadline` is the passing of fourteen days. `RestoreExpires` is the end of a restore
  token, `BanEnds` that of a ban which int() has made shorter than its token: it lasts 599 seconds, and a token that
  served in the second of its issue lives on after it. `late`, `lapsing` and `spent` are ghosts.
* `RateLimiter`. `Arrive` and `Stamp` take the timestamp, `Reject` and `Pass` are the pipeline
  (ZADD, ZREMRANGEBYSCORE, ZCARD, EXPIRE), which Redis runs as one, up to `Lag` later. `asked` and
  `passed` are ghosts.

### Serial properties

Many of the handlers' checks are meant for a world in which nothing happens between the check and
the write. `MCProjectMembership`, `MCSessionTokens`, `MCTaskWorkflow` and `MCIdentities` add a history variable
`serial`, true as long as no step has come between the steps of a request. Their specification
`MCSpec` has exactly the behaviours of `Spec`; a property named `Serial...` holds wherever
`serial` does. These properties say that the checks themselves are right and complete. They say nothing of requests that
overlap, and do not catch the races that the hazards name beside them. Where one fails
without `serial`, section 5 says so.

## 3. Runs

Twelve runs, one for each component and two for `Accounts`.

| Run | Instance | Shows |
|---|---|---|
| `membership` | 3 users, one of them purged, 2 requests, all 8 operations, ADMIN and EDITOR granted | under every interleaving: at most one owner, and every step is one that `Membership` allows; serially: there is an owner, the hierarchy, the conditions for leaving and deleting |
| `invitations` | 2 users, 2 invitations, 2 requests, 2 roles, batches of 2 | one pending invitation per user; an acceptance is exactly a membership; one answer; a lapsed invitation does not stay pending |
| `permission_cache` | 2 users, 1 reader, 1 writer | a stale key is always due, lost, late or left by a cascade; no role is granted its user never had |
| `members_cache` | 2 readers, 2 writers, 3 changes, 4 versions | a page that is found shows every commit from before its version was read, but for a named cause |
| `cache_lifetime` | TTL 20, delay 3, 2 readers | an outdated value is served for less than TTL + TTL/10 + the slowest read |
| `sessions` | 4 tokens, 2 sessions, 2 requests | a rotated token is spent; a session forks only where one of its tokens was rotated twice; a retry in its window that can be read is served, or finds its answer still being saved; and serially: one active token, logouts end and ban, reuse ends the family |
| `tasks` | 3 users, one of them purged, 2 requests, all 9 operations | the assignee exists; a deleted task stays deleted; only owners and admins take a task away; and serially: status and assignee agree and move as documented |
| `identities` | 2 e-mail addresses, 1 provider account, 2 codes, 2 requests | a login opens one account, and never a purged one; a password was asked for under its own address; and serially: nobody is locked out, a confirmation spends its own code, once |
| `access_tokens` | 1 token, 1 family, 2 requests, 2 ticks a second, 8 ticks | who presents a token when it or its session has been ended is let in only in the last second of its life, or for as long as its issue came late |
| `accounts` | 1 user, 1 task, 3 sessions, 1 restore token, 2 requests and the job | a deleted account has no session but those that overlapped its deletion; a restore token that has served is refused until its ban ends; nobody is purged who was not due when the DELETE looked |
| `cleanup` | 2 users, 1 task, 1 request, 3 expired tokens, 2 batches of 1 | the job settles every due account and deletes every expired token once it is left alone |
| `rate_limiter` | limits of 1 in 2 and of 2 in 4 units, one after the other, 2 requests at a time, 6 units | no window lets more pass than its limit, but for what slow pipelines hide; a refusal has a cause that is no older than a window |

**Bounds.** Every handler touches at most two members (actor and target), so three users give
each of them a bystander; every race known in this code is between two requests, or a request and
a job. Two invitations are what it takes for two pending ones or for a new one next to an old
one. Four tokens make a chain of four, or a fork with a second session beside it. `MaxChanges` and
`MaxVersion` bound counters: three changes and versions 0 to 3 let the version key expire and reach
a version that was in use before. In `identities` two addresses tell an owner from
a stranger, one provider account is what two of them contend for, and two codes are a code and its replacement. The TTL of 20 makes the jitter `TTL \div 10` two units, so that it differs from one
and from nothing. In `access_tokens` a family outlives one token but no
two tokens share anything else; the clock runs for the whole life of a token and a second beyond, in half seconds,
so that the fraction that is dropped is not nothing. In `accounts` three sessions are one that is rotated, its successor and
one that comes late. In `cleanup` one row per batch and two users leave a second batch something to do, three tokens are
more than one run of the job deletes, and there are no sessions, which the job does not look at. In `rate_limiter` the second window is longer than the first and longer than it takes
a refused request to try again; 6 units are more than both. In `membership` VIEWER is not granted: the hierarchy treats it as EDITOR. The batch of two in `invitations` takes both
invitations; that a batch of a larger backlog leaves some behind is bounded by the job's next run,
see below.

**Symmetry** is used in the runs without liveness properties, over slots, ids and the users that no
constant tells apart.

**Deadlock** is checked except in `membership`, `invitations` and `sessions`, where the system really may stop: a
deleted project has nothing left to do, a bounded supply of tokens is used up.

**Fairness** is assumed in two modules. In `Invitations` weak fairness of `ExpireScan` and `ExpireUpdate`:
the scheduler starts that job every 30 minutes (`jobs/scheduler.py`), and a batch with rows to expire
stays possible until it runs. In `Accounts` weak fairness of each request's next step (a request ends, if only by
`Abort`) and of the daily job, and strong fairness of the statement that purges: PostgreSQL grants a row lock in
the order it was asked for, so that deletions of the same account one after another cannot keep the job
waiting for ever. The job alone does not clear a backlog: `Calm` is the premise that from some day on the due accounts
fit one batch, none becomes due between its two statements, no task is assigned, and neither the job
nor a refresh token reaches its end. Without "no task is assigned" the job can fail on the foreign key for ever.
No fairness is assumed of clients, readers, writers or Redis.

## 4. Proofs

Every safety property that a run checks, invariant or action property, is also a theorem, for every value of
the constants that satisfies the `ASSUME` of the module. These assumptions say that model values
(`None`, `Idle`, `NoRow`, ...) differ from the data they stand beside, that ids of two kinds differ,
that a founder is a user and the operations and roles asked for are among those that exist, and that lifetimes, delays and
batches are natural numbers, with two facts of the code's constants: no unit of time or batch is 0, and a family is banned for at least the life of a token.

| Theorem | States | Invariant it needs |
|---|---|---|
| `HierarchyIsRank` (`ProjectMembershipProofs`) | `verify_user_hierarchy` admits exactly the actions on lower ranks | case analysis |
| `TypeCorrect`, `OneOwner`, `MembersNeedProject`, `NothingResurrects` | types, `AtMostOneOwner`, `NoProjectNoMembers`, `NoResurrection` | `Typed`: `TypeOK` with what a request that passed its checks asks for (`Asked`): a role change past its hierarchy check and an acceptance never ask for OWNER |
| `Implementation` | `ImplementsMembership` | the same, and that `Membership` means the same by a role and a status (`SameWords`) |
| `OwnerRemains`, `HierarchyKept`, `DeletedInOrder` | `SerialProjectHasOwner`, `SerialHierarchy`, `SerialDeletedInOrder` | `SerialInv`: roles and target are still what was read (`Fresh`), the owner who leaves is still alone, the project that is deleted still archived |
| `TypeCorrect`, `OnePending`, `AcceptanceIsOne`, `AnswersAreFinal` (`InvitationsProofs`) | types, `OnePendingPerTarget`, `AcceptanceIsMembership`, `AnsweredOnce` | what the expiry job picked was due, and is still, or went with the project (`PickedIsDue`) |
| `StaleKeysExplained`, `GrantsWereHeld` (`CacheProofs`) | `StaleHasCause`, `GrantWasHeld` | every role in the database, in Redis or in a call's hands was held; each commit hands on the keys it changes or leaves them to a cascade (`CommitsInvalidate`) |
| `CommitsAreSeen` | `ReadersSeeCommits` | nobody uses a version still to come (`FutureUnused`), a reader and the page of the current version have current data (`ReaderFresh`, `PageFresh`), and whoever may write a page a reader may find holds what that reader was promised (`PromiseKept`) |
| `Staleness` | `StaleBounded` | age and remaining life add up to at most the bound (`EntryAge`); a reader's value is no older than he has held it (`ReaderAge`) |
| `RotationSpends`, `ForksExplained` (`SessionTokensProofs`) | `RotatedIsSpent`, `ForkHasTwoChildren` | successors belong to their family (`Lineage`); a family no token of which was rotated twice has one end (`OneLeaf`) |
| `RetriesAreServed` | `RetryServed` | a token in its retry window has its answer saved or its rotation in flight (`RetrySaved`) |
| `OneActive`, `LogoutEndsAll`, `ReuseEndsFamily` | `SerialOneActive`, `SerialLogoutEndsAll`, `SerialReuseEndsFamily` | `MCInv`: the rows and families a request has found are those there are (`Current`) |
| `AssigneesExist`, `DeletionIsFinal`, `ReassignmentByManagers` (`TaskWorkflowProofs`) | `AssigneeExists`, `DeletedStaysDeleted`, `OnlyManagersReassign` | a request that may reassign was let in as an owner or admin (`ManagersChecked`) |
| `TodoIsUnassigned`, `NoPlaceSkipped`, `ReviewKeepsAssignee` | `SerialStartedWhenAssigned`, `SerialStatusFollowsWorkflow`, `SerialAssigneeFixedInReview` | `SerialInv`: the task is still the one that was read, in a status its handler lets through (`Fresh`) |
| `TypeCorrect`, `OneAccount`, `OwnPassword` (`IdentitiesProofs`) | types, `LoginOpensOneAccount`, `PasswordIsOwn` | a code waits, is confirmed and becomes a password under the key it was sent for; who changes his password has an account (`Asked`) |
| `LoginRemains`, `CodeSpentOnce` | `SerialHasLogin`, `SerialCodeSpentOnce` | `SerialInv`: no waiting code has taken effect; the identity to be unlinked is not the last, and the code that was compared is gone or about to be deleted (`Current`) |
| `TypeCorrect`, `NobodyStays`, `ServedIsRefused`, `PurgedInTime` (`AccountsProofs`) | types, `GraceSessionsAreLate`, `ServedTokenIsRefused`, `PurgedWhenDue` | a login that overlapped no deletion is of an account that stays (`NotLeaving`); the sessions a deletion has not found opened behind it (`FoundOrLate`); a restore token that has served is banned, or its ban has run out (`BannedBeforeSpent`); the job takes what was due (`TakesDue`) |
| `LimitAlwaysHolds`, `RefusalsHaveCause` (`RequestGuardsProofs`) | `LimitHolds`, `RefusedForCause` | `LimiterInvariant`: no timestamp lies in the future nor a pending one too far in the past (`PastOnly`, `Punctual`), and what has passed and may still count is in the sorted set, which is not dead (`Counted`) |
| `RevocationHolds` | `RevokedStaysOut` | `TokensBounded`: a token ends at most `Slowness` after `Life` seconds from its commit (`Dated`), a ban of it lasts to its last second (`BanLasts`), one of its family for all but a second of a life (`FamilyBanLasts`), and a request keeps what it has checked (`InFlight`) |

Each proof module has the same shape: what `Init` establishes, lemmas on what a kind of step writes, one lemma
per kind of step, `NextInv`, and the temporal theorems from these by `PTL`. Each `Inv` has the type invariant as its first
conjunct. `CacheProofs` and `RequestGuardsProofs` each hold the proofs of components that stand side by side and share no
state; such components name their parts apart (`LifetimeInit`, `MembersSpec`, `LimiterNext`).

`Implementation` goes step by step: every step of `ProjectMembership` leaves the three abstract variables alone,
or is the abstract event of the same sense. Reads and refused requests are stutters, the last check of an acceptance and its failure
change `joining` alone, a commit is `Join`, `Regrade`, `Drop`, `HandOver`, `SetStatus` or `Dissolve`. The invariant is needed
where the abstract guard speaks of something the commit does not look at: `Regrade` never makes an owner
because the request was checked for it, `HandOver` keeps one owner because the unique index refuses a second.

**The serial theorems** extend the `MC` module, where the history variable is, and are about `MCSpec`. The argument is the
same in all four: while `serial` holds, at most one request is in flight when anybody takes a step that matters
(`OneMoves`, from the definition of `serial`), so the only steps since its reads are its own. What the reads said is therefore still
true, and is carried in the invariant as a statement about the present state (`Fresh` or `Current`); at the commit it turns the check of the
handler into a fact about the state the commit changes. Steps that `serial` does not count, the expiry of a code or a ban, and a crash, which
leaves half of a request's effects behind, have to keep that statement too. In `ProjectMembership` and `TaskWorkflow`
ownership and the agreement of status and assignee are stated for as long as no account is purged (`gone = {}`), since a purge breaks them by
itself.

Only model-checked: `LapsedResolved`, `DueIsSettled` and `ExpiredTokensGo`. They say that something must happen, and
depend on fairness; liveness and ENABLED are beyond the prover. What needs induction over data would be, too, but nothing here does:
no module has a RECURSIVE operator, and no property speaks of a chain of unbounded length but through its invariant (`Lineage`, `OneLeaf`).

## 5. Where code and documents disagree

None of these is a run of its own: the property named, or the cause it allows for, marks the boundary, and
dropping that cause (or `serial`) gives the counterexample.

* The hierarchy is checked against roles read earlier (project_services.py:243; `SerialHierarchy`): an admin can demote
  the member who has just become owner. README.md:25 speaks of strict permission checks on all actions.
* A reader that loaded before the commit stores after the DEL (redis_services.py:133; `late` in `PermissionCache`);
  README.md:237 says it can never.
* Deleting a project leaves the cached roles of its members (project_services.py:327), and so does the purge of an account,
  which knows nothing of Redis (cleanup_repo.py:67; both are `cascaded` in `PermissionCache`); README.md:237 says
  permission changes take effect instantly.
* Two rotations of one token both succeed (user_service.py:235; `SerialOneActive`), in spite of the reuse detection of README.md:258.
* An access token is refused instantly after a logout, says README.md:15. In its last second it is not: int() leaves no
  time to live (redis_services.py:69; `Second` in `RevokedStaysOut`). A logout bans the one access token it was given, so the
  others of the same session live on for up to fifteen minutes; and `logout_everywhere` bans families, so that a token issued late by a
  login or rotation outlives that ban by as long (`Slowness`).
* The routes that log out and delete the account decode the token without a look at the blacklist (auth_routes.py).
* A login or a rotation that overlaps a deletion leaves a session in the account, which rotates on until the purge
  (user_service.py:187; `late` in `Accounts`).
* A restore token can be used by two restores at once: it is banned after the check (user_service.py:349;
  `ServedTokenIsRefused` speaks of a restore that has been committed). One used in the second of its issue can be used
  again in its last second: int() makes its ban of 600 seconds one of 599 (user_service.py:357, redis_services.py:69;
  `lapsing` in `Accounts`). tests/auth_test.py:261 tries the second use at once only.
* The two statements of a purge may pick different accounts, and one that is restored while the DELETE waits for its row is
  deleted (cleanup_repo.py:67; `PurgedWhenDue` speaks of the time the DELETE looked).
* `tasks.assignee_id` has no ON DELETE: one task assigned in between fails the DELETE and ends the day's job, tokens and
  invitations included (cleanup_service.py:26; `Calm`).
* A task whose assignee was purged keeps its status (cleanup_repo.py:64), and one assigned to somebody who has just
  left or been demoted keeps him (task_service.py:287). A task can be changed just after its project was archived (permission_check.py:54).
* A login and a linking begun in two tabs share `oauth_action` in the browser's session (auth_routes.py:237).
* An owner leaves, and his project goes, although an invitation was accepted after he was counted
  alone (project_services.py:257 and :259; `LeftAlone`).
* A project set back to ACTIVE between check and delete is deleted (project_services.py:323 and :324; `DeletedFromArchive`).
* A member may have a pending invitation: it was sent while an earlier one was being accepted
  (invitation_service.py:99 and :104).
* After the version key has expired its count reaches versions whose pages may be alive
  (redis_services.py:158; `old` in `MembersCache`), against benchmarks/README.md:47. A purge, and an
  owner who leaves, bump no version at all (cleanup_repo.py:68; `missed`), against README.md:234. A reader whom Redis
  does not tell the version reads the pages of version 0, however old (redis_services.py:170; `GetVersionFails`).
* A value is outdated for up to the jitter, a tenth, longer than the TTL (redis_services.py:132), which
  benchmarks/README.md:19 gives as the bound. `StaleBounded` is the bound the code has.
* A rotation between the scan of a logout from everywhere and its commit leaves a session alive
  (user_service.py:322; README.md:14; `AllEnded`).
* A retry that comes before the answer is saved is taken for a theft (user_service.py:250; README.md:259; `RetryServed`), and
  so is one whose answer Redis fails to give: the error is logged and taken for no answer (redis_services.py:97;
  `RetryUnread`).
* Two concurrent changes of a task skip a status (task_service.py:153; README.md:30; `SerialStatusFollowsWorkflow`), and a
  task sent to review while it was being assigned changes hands (task_service.py:286 and :293; `AssigneeKept`).
* `admin_task_status_change` does not look at the assignee (task_service.py:192), so a task whose
  assignee was purged can move on, against the message of task_service.py:150.
* Two `unlink_identity` requests, each for one of the last two providers, leave an account nothing to
  log in with (user_service.py:521; the lockout prevention of README.md:12; `HasLogin`).
* A code that has replaced the one just compared is deleted unread, and a code compared twice before it is
  deleted takes effect twice (user_service.py:79 and :81; `OwnCodeDropped`, `EffectOnce`).

## 6. Not modelled

* `update_project`, `update_task`: names and descriptions, which no property reads.
* Lists, pagination and their filters: pure reads, but for the cached members list.
* The HTTP layer: input shapes and cookies. A route calls one service method with what its caller chose; the
  actions that begin a request enumerate these. The browser's part of the OAuth flows ends where `Identities` begins.
* E-mail, configuration, migrations, templates, benchmarks: input, output or generated.
* Hashes and signatures of tokens: a token is an id. That a request is denied when Redis cannot be asked is `Abort`.
* Several projects, tasks or members lists at once: no request touches two; a job does, but each has its own keys and rows.

## 7. Plan

Every component that keeps state is modelled, and every safety property of the runs is proved. What is left, in this order:

1. `ProjectMembership` without a race shown to implement a stricter `Membership`, whose actions have the hierarchy
   and the last check of each handler in their guards: one refinement in place of the three `Serial...` properties it has now.
2. `CachedMembership`: `ProjectMembership` with its roles read through `PermissionCache`, to
   bound what a stale role lets a request do.
3. The safety half of the liveness properties, as far as it says more than they do: how long the job can keep a due account waiting.
