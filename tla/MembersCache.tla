---------------------------- MODULE MembersCache ----------------------------
(***************************************************************************)
(* The cached pages of one project's members list.  A page's key holds the *)
(* version the reader read from project_members_ver; every change of the   *)
(* members increments that version after its commit, so that the pages of  *)
(* older versions are not read again (get_members_list, bump_version).     *)
(*                                                                         *)
(* The members are abstracted to the number of commits that changed them,  *)
(* and a page to the two such numbers its two queries saw.                 *)
(***************************************************************************)
EXTENDS Naturals

CONSTANTS Readers,     \* calls of get_members_list in flight at once
          Changers,    \* commits whose bump is still to come
          MaxChanges,  \* bound: so many commits happen
          MaxVersion,  \* bound: so far the version counts
          NoPage, NoFetch

ASSUME MembersAssumption ==
  /\ MaxChanges \in Nat /\ MaxVersion \in Nat
  /\ NoPage \notin [count : Nat, items : Nat]

VARIABLES
  members,  \* the members, as the number of commits so far
  ver,      \* project_members_ver: 0 while the key does not exist
  page,     \* the cached page of each version
  fetch,    \* the calls in flight
  owed,     \* the commits whose bump is still to come
  missed,   \* ghost: what changed the members since the last bump without one
  old       \* ghost: versions with a page or a reader from before the version
            \* key was lost and its count began again

membersVars == <<members, ver, page, fetch, owed, missed, old>>

Version == 0..MaxVersion
Page    == [count : Nat, items : Nat]
\* `since`, a ghost, is the number of commits the reader may expect to see.
Fetching == [ver : Version, at : {"get", "count", "items", "set"},
             count : Nat, items : Nat, since : Nat]

MembersTypeOK ==
  /\ members \in Nat
  /\ ver \in Version
  /\ page \in [Version -> Page \cup {NoPage}]
  /\ fetch \in [Readers -> Fetching \cup {NoFetch}]
  /\ owed \in [Changers -> BOOLEAN]
  /\ missed \in SUBSET {"lost", "purged", "deleted"}
  /\ old \in SUBSET Version

MembersInit ==
  /\ members = 0 /\ ver = 0
  /\ page = [v \in Version |-> NoPage]
  /\ fetch = [r \in Readers |-> NoFetch]
  /\ owed = [w \in Changers |-> FALSE]
  /\ missed = {} /\ old = {}

-----------------------------------------------------------------------------
(* get_members_list                                                        *)

Move(r, q) == fetch' = [fetch EXCEPT ![r] = q] /\ UNCHANGED <<members, ver, owed, missed>>
FetchAt(r, pc) == fetch[r] # NoFetch /\ fetch[r].at = pc

InUse(v) == page[v] # NoPage \/ \E r \in Readers : fetch[r] # NoFetch /\ fetch[r].ver = v

\* A version is as good as new when nothing uses it any more.
Retire == old' = {v \in old : InUse(v)'}

BumpToCome == \E w \in Changers : owed[w]

\* Why a reader may be given a page from before a commit: its bump is to come,
\* was lost or is not made, or the version had been used when its count began
\* again.
Excuse == BumpToCome \/ missed # {} \/ ver \in old

\* The version the page is read and written under.
\* Mutant: bump_version and get_version do not agree on the key.
NoVersion == 0
VersionRead == ver

Begin(r, v, seen) ==
  /\ fetch[r] = NoFetch
  /\ Move(r, [ver |-> v, at |-> "get", count |-> 0, items |-> 0, since |-> seen])
  /\ UNCHANGED <<page, old>>

GetVersion(r) == Begin(r, VersionRead, IF Excuse THEN 0 ELSE members)

\* On a Redis error the version is 0, whatever it is, and nothing is promised.
GetVersionFails(r) == Begin(r, 0, 0)

\* A hit is the answer; a miss goes to the database.
GetPage(r) ==
  /\ FetchAt(r, "get")
  /\ Move(r, IF page[fetch[r].ver] = NoPage THEN [fetch[r] EXCEPT !.at = "count"] ELSE NoFetch)
  /\ UNCHANGED page
  /\ Retire

\* Two queries, each of what is committed when it runs.
Count(r) ==
  /\ FetchAt(r, "count")
  /\ Move(r, [fetch[r] EXCEPT !.at = "items", !.count = members])
  /\ UNCHANGED <<page, old>>

Items(r) ==
  /\ FetchAt(r, "items")
  /\ Move(r, [fetch[r] EXCEPT !.at = "set", !.items = members])
  /\ UNCHANGED <<page, old>>

SetPage(r) ==
  /\ FetchAt(r, "set")
  /\ page' = [page EXCEPT ![fetch[r].ver] = [count |-> fetch[r].count, items |-> fetch[r].items]]
  /\ Move(r, NoFetch)
  /\ UNCHANGED old

SetPageFails(r) ==
  /\ FetchAt(r, "set")
  /\ Move(r, NoFetch)
  /\ UNCHANGED page
  /\ Retire

-----------------------------------------------------------------------------
(* The changes of the members                                              *)

Change == members < MaxChanges /\ members' = members + 1

\* Removal, role change, leaving, transfer, acceptance, deletion by name.
ChangeMembers(w) ==
  /\ ~owed[w] /\ Change
  /\ owed' = [owed EXCEPT ![w] = TRUE]
  /\ UNCHANGED <<ver, page, fetch, missed, old>>

\* clean_deleted_user_accounts: the memberships of a purged account go with it
\* by ON DELETE CASCADE.
Purge ==
  /\ Change
  /\ missed' = missed \cup {"purged"}
  /\ UNCHANGED <<ver, page, fetch, owed, old>>

\* leave_from_project of an owner who is alone deletes the project, and
\* invalidates keys but bumps no version.
LastOwnerLeaves ==
  /\ Change
  /\ missed' = missed \cup {"deleted"}
  /\ UNCHANGED <<ver, page, fetch, owed, old>>

\* bump_version, after the commit.
Bump(w) ==
  /\ owed[w] /\ ver < MaxVersion
  /\ ver' = ver + 1
  /\ missed' = {}
  /\ owed' = [owed EXCEPT ![w] = FALSE]
  /\ UNCHANGED <<members, page, fetch, old>>

\* The RedisError that bump_version logs, or the death of the process.
NeverBumps(w) ==
  /\ owed[w]
  /\ missed' = missed \cup {"lost"}
  /\ owed' = [owed EXCEPT ![w] = FALSE]
  /\ UNCHANGED <<members, ver, page, fetch, old>>

-----------------------------------------------------------------------------
(* Redis                                                                   *)

\* The version key is gone: it lives three days from its first increment, which
\* EXPIRE ... NX never prolongs, or memory is short.  Pages of any version, and
\* readers with one, may be left.
VersionExpires ==
  /\ ver > 0
  /\ ver' = 0
  /\ old' = {v \in Version : InUse(v)}
  /\ UNCHANGED <<members, page, fetch, owed, missed>>

\* A page's time is over, or memory is short.
DropPage(v) ==
  /\ page[v] # NoPage
  /\ page' = [page EXCEPT ![v] = NoPage]
  /\ UNCHANGED <<members, ver, fetch, owed, missed>>
  /\ Retire

-----------------------------------------------------------------------------
FetchStep(r) ==
  GetVersion(r) \/ GetVersionFails(r) \/ GetPage(r) \/ Count(r) \/ Items(r) \/ SetPage(r) \/ SetPageFails(r)

MembersNext ==
  \/ \E r \in Readers : FetchStep(r)
  \/ \E w \in Changers : ChangeMembers(w) \/ Bump(w) \/ NeverBumps(w)
  \/ Purge \/ LastOwnerLeaves \/ VersionExpires
  \/ \E v \in Version : DropPage(v)

MembersSpec == MembersInit /\ [][MembersNext]_membersVars

-----------------------------------------------------------------------------
\* A page that a reader finds shows, in its count and in its items, at least
\* every commit from before his request read the version, unless at that time a
\* bump was to come, had been lost or was not made, the version had been in use
\* before its key expired, or Redis failed to tell it: a slow reader can not put
\* an outdated page where a later one finds it.
ReadersSeeCommits ==
  \A r \in Readers : FetchAt(r, "get") /\ page[fetch[r].ver] # NoPage =>
    /\ page[fetch[r].ver].count >= fetch[r].since
    /\ page[fetch[r].ver].items >= fetch[r].since
=============================================================================
