-------------------------- MODULE PermissionCache --------------------------
(***************************************************************************)
(* What Redis remembers of the roles and the status of one project: the    *)
(* cache-aside reads of verify_user_role and the invalidations that follow *)
(* the commit of every operation that changes a role or the status.        *)
(*                                                                         *)
(* A read is up to three calls, GET, SELECT, SET; a write is a commit and  *)
(* then a DEL; anything may run between two calls.  Redis may fail (the    *)
(* code logs the error and goes on), the process may die after a commit,   *)
(* and an entry may vanish at any time, because it expired or was evicted. *)
(* Who may change what is the business of ProjectMembership.               *)
(***************************************************************************)
EXTENDS Roles

CONSTANTS Users,       \* accounts; a user stands for his key user_role:<u>:<p>
          Founder,     \* the user who created the project
          GrantRoles,  \* the roles invitations and role changes grant
          Reads,       \* calls of verify_user_role in flight at once
          Writes,      \* commits whose invalidation is still to come
          StatusKey,   \* the key project_status:<p>
          Absent, Idle

ASSUME CacheAssumption ==
  /\ Founder \in Users /\ StatusKey \notin Users
  /\ GrantRoles \subseteq UserRole \ {"OWNER"}
  /\ Absent \notin UserRole \cup {"ACTIVE", "ARCHIVED", NoRole}

VARIABLES
  exists, status, role,  \* the project's row and its members' rows
  accounts,              \* the users rows
  cache,                 \* Redis
  read, write,           \* the calls in flight, and what they still have to do
  lost, late,            \* ghosts: keys whose DEL never came; whose SET came
                         \* with a value a commit had replaced since its SELECT
  cascaded,              \* ghost: keys whose row went with a project or account,
                         \* by the database's cascade, and that nobody deletes
  held                   \* ghost: the roles each user has had

db    == <<exists, status, role, accounts>>
ghost == <<lost, late, cascaded, held>>
vars  == <<exists, status, role, accounts, cache, read, write, lost, late, cascaded, held>>

Keys  == Users \cup {StatusKey}
Value == UserRole \cup {"ACTIVE", "ARCHIVED"}

\* The key verify_user_role reads u's role under.
\* Mutant: the user's id is left out.
KeyOfProject(u) == Founder
RoleKey(u) == u

\* The value a key should have, and what the db_loader of a call finds.
InDb(k) == IF k = StatusKey THEN (IF exists THEN status ELSE NoRole) ELSE role[k]
Loaded(q) == IF q.key = StatusKey THEN InDb(StatusKey) ELSE role[q.user]

Reading == [user : Users, key : Keys, at : {"get", "load", "set", "done"},
            val : Value \cup {NoRole}]

TypeOK ==
  /\ exists \in BOOLEAN /\ status \in {"ACTIVE", "ARCHIVED"}
  /\ role \in [Users -> RoleOrNone] /\ accounts \in SUBSET Users
  /\ cache \in [Keys -> Value \cup {Absent}]
  /\ read \in [Reads -> Reading \cup {Idle}]
  /\ write \in [Writes -> SUBSET Keys]
  /\ lost \in SUBSET Keys /\ late \in SUBSET Keys /\ cascaded \in SUBSET Keys
  /\ held \in [Users -> SUBSET UserRole]

Init ==
  /\ exists = TRUE /\ status = "ACTIVE"
  /\ role = [u \in Users |-> IF u = Founder THEN "OWNER" ELSE NoRole]
  /\ accounts = Users
  /\ cache = [k \in Keys |-> Absent]
  /\ read = [r \in Reads |-> Idle]
  /\ write = [w \in Writes |-> {}]
  /\ lost = {} /\ late = {} /\ cascaded = {}
  /\ held = [u \in Users |-> {role[u]} \ {NoRole}]

-----------------------------------------------------------------------------
(* verify_user_role: get_or_set_cache for the role, then for the status    *)

Verify(r, u) ==
  /\ read[r] = Idle
  /\ read' = [read EXCEPT ![r] = [user |-> u, key |-> RoleKey(u), at |-> "get", val |-> NoRole]]
  /\ UNCHANGED <<db, cache, write, ghost>>

At(r, pc) == read[r] # Idle /\ read[r].at = pc

Get(r) ==
  /\ At(r, "get")
  /\ LET hit == cache[read[r].key] IN
       read' = [read EXCEPT ![r] = IF hit = Absent THEN [@ EXCEPT !.at = "load"]
                                   ELSE [@ EXCEPT !.at = "done", !.val = hit]]
  /\ UNCHANGED <<db, cache, write, ghost>>

\* A read error falls back to the database and leaves the cache alone.
GetFails(r) ==
  /\ At(r, "get")
  /\ read' = [read EXCEPT ![r].at = "done", ![r].val = Loaded(read[r])]
  /\ UNCHANGED <<db, cache, write, ghost>>

\* A row that is not there is not remembered.
Cacheable(v) == v # NoRole

Load(r) ==
  /\ At(r, "load")
  /\ LET v == Loaded(read[r]) IN
       read' = [read EXCEPT ![r].at = IF Cacheable(v) THEN "set" ELSE "done", ![r].val = v]
  /\ UNCHANGED <<db, cache, write, ghost>>

Set(r) ==
  /\ At(r, "set")
  /\ LET k == read[r].key IN
       /\ cache' = [cache EXCEPT ![k] = read[r].val]
       /\ late' = IF read[r].val = InDb(k) THEN late \ {k} ELSE late \cup {k}
       /\ lost' = lost \ {k} /\ cascaded' = cascaded \ {k}
  /\ read' = [read EXCEPT ![r].at = "done"]
  /\ UNCHANGED <<db, write, held>>

SetFails(r) ==
  /\ At(r, "set")
  /\ read' = [read EXCEPT ![r].at = "done"]
  /\ UNCHANGED <<db, cache, write, ghost>>

\* An allowed role: on to the status.
CheckStatus(r) ==
  /\ At(r, "done") /\ read[r].key # StatusKey /\ read[r].val # NoRole
  /\ read' = [read EXCEPT ![r].key = StatusKey, ![r].at = "get", ![r].val = NoRole]
  /\ UNCHANGED <<db, cache, write, ghost>>

\* No role, or none of the allowed ones; check_active is not set; or the
\* status is there too.
Return(r) ==
  /\ At(r, "done")
  /\ read' = [read EXCEPT ![r] = Idle]
  /\ UNCHANGED <<db, cache, write, ghost>>

-----------------------------------------------------------------------------
(* The commits, each with the keys its handler invalidates afterwards      *)

\* Members' rows that go by ON DELETE CASCADE leave what Redis has of them.
Cascades(rows, keys) ==
  cascaded' = cascaded \cup {u \in rows \ keys : role[u] # NoRole /\ cache[u] # Absent}

Commit(w, keys) ==
  /\ write[w] = {} /\ write' = [write EXCEPT ![w] = keys]
  /\ held' = [u \in Users |-> held[u] \cup ({role'[u]} \ {NoRole})]
  /\ UNCHANGED <<accounts, cache, read, lost, late>>

SetStatus(w, s) ==
  /\ exists
  /\ status' = s
  /\ UNCHANGED <<exists, role, cascaded>>
  /\ Commit(w, {StatusKey})

\* Any member's row: one that was an editor's when the handler checked it may
\* be the owner's when it is written.
RemoveOrLeave(w, t) ==
  /\ role[t] # NoRole
  /\ role' = [role EXCEPT ![t] = NoRole]
  /\ UNCHANGED <<exists, status, cascaded>>
  /\ Commit(w, {t})

ChangeRole(w, t, new) ==
  /\ role[t] # NoRole
  /\ role' = [role EXCEPT ![t] = new]
  /\ UNCHANGED <<exists, status, cascaded>>
  /\ Commit(w, {t})

\* Mutant: only the new owner's key.
KeyOfHeir(u, t) == {t}
TransferKeys(u, t) == {u, t}

Transfer(w, u, t) ==
  /\ role[u] = "OWNER" /\ role[t] \notin {NoRole, "OWNER"}
  /\ role' = [role EXCEPT ![u] = "ADMIN", ![t] = "OWNER"]
  /\ UNCHANGED <<exists, status, cascaded>>
  /\ Commit(w, TransferKeys(u, t))

\* The row of the project goes, and its members' rows with it.
Delete(w, keys) ==
  /\ exists
  /\ exists' = FALSE
  /\ role' = [u \in Users |-> NoRole]
  /\ UNCHANGED status
  /\ Cascades(Users, keys)
  /\ Commit(w, keys)

OwnerLeaves(w, u) == role[u] = "OWNER" /\ Delete(w, {u, StatusKey})
HardDelete(w) == status = "ARCHIVED" /\ Delete(w, {StatusKey})

\* accept_invitation: a newcomer's key holds nothing, so none is invalidated.
Accept(w, t, new) ==
  /\ exists /\ role[t] = NoRole /\ t \in accounts
  /\ role' = [role EXCEPT ![t] = new]
  /\ UNCHANGED <<exists, status, cascaded>>
  /\ Commit(w, {})

\* invalidate_cache: one DEL for all the keys.
Invalidate(w) ==
  /\ write[w] # {}
  /\ cache' = [k \in Keys |-> IF k \in write[w] THEN Absent ELSE cache[k]]
  /\ lost' = lost \ write[w] /\ late' = late \ write[w] /\ cascaded' = cascaded \ write[w]
  /\ write' = [write EXCEPT ![w] = {}]
  /\ UNCHANGED <<db, read, held>>

\* The RedisError that invalidate_cache logs, or the death of the process.
NeverInvalidates(w) ==
  /\ write[w] # {}
  /\ lost' = lost \cup write[w]
  /\ write' = [write EXCEPT ![w] = {}]
  /\ UNCHANGED <<db, cache, read, late, cascaded, held>>

\* clean_deleted_user_accounts: the membership of a removed account goes with
\* it; the job knows neither the projects nor Redis.
PurgeMember(u) ==
  /\ u \in accounts
  /\ accounts' = accounts \ {u}
  /\ role' = [role EXCEPT ![u] = NoRole]
  /\ Cascades({u}, {})
  /\ UNCHANGED <<exists, status, cache, read, write, lost, late, held>>

\* Redis drops an entry: its time is over, or memory is short.
Drop(k) ==
  /\ cache[k] # Absent
  /\ cache' = [cache EXCEPT ![k] = Absent]
  /\ lost' = lost \ {k} /\ late' = late \ {k} /\ cascaded' = cascaded \ {k}
  /\ UNCHANGED <<db, read, write, held>>

-----------------------------------------------------------------------------
ReadStep(r) ==
  \/ \E u \in Users : Verify(r, u)
  \/ Get(r) \/ GetFails(r) \/ Load(r) \/ Set(r) \/ SetFails(r)
  \/ CheckStatus(r) \/ Return(r)

WriteStep(w) ==
  \/ \E s \in {"ACTIVE", "ARCHIVED"} : SetStatus(w, s)
  \/ \E t \in Users : RemoveOrLeave(w, t)
  \/ \E t \in Users, new \in GrantRoles : ChangeRole(w, t, new) \/ Accept(w, t, new)
  \/ \E u, t \in Users : Transfer(w, u, t)
  \/ \E u \in Users : OwnerLeaves(w, u)
  \/ HardDelete(w) \/ Invalidate(w) \/ NeverInvalidates(w)

Next ==
  \/ \E r \in Reads : ReadStep(r)
  \/ \E w \in Writes : WriteStep(w)
  \/ \E u \in Users : PurgeMember(u)
  \/ \E k \in Keys : Drop(k)

Spec == Init /\ [][Next]_vars

-----------------------------------------------------------------------------
Pending(k) == \E w \in Writes : k \in write[w]
Stale(k) == cache[k] \notin {Absent, InDb(k)}

\* A key that disagrees with the database is about to be deleted, or its
\* deletion was lost, or a slow reader put the value back after it, or the row
\* went by a cascade of a project's or an account's deletion, which are the two
\* changes the code does not follow: every other handler invalidates the key of
\* each row it changes.
StaleHasCause ==
  \A k \in Keys : Stale(k) => Pending(k) \/ k \in lost \/ k \in late \/ k \in cascaded

\* A call gets past the role check only with a role its user has really had,
\* at some time, in this project: not another user's, and not one never
\* committed.
GrantWasHeld ==
  \A r \in Reads :
    At(r, "done") /\ read[r].key # StatusKey /\ read[r].val # NoRole
    => read[r].val \in held[read[r].user]
=============================================================================
