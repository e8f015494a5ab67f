---------------------------- MODULE CacheProofs ----------------------------
(***************************************************************************)
(* What the caches guarantee.  For any users, readers and writers a stale  *)
(* key of the permission cache has a cause, and a call is never given a    *)
(* role its user did not have; what a slow reader stores under a versioned *)
(* key is not what later readers look up; and for every cache_ttl and      *)
(* every delay there is a bound on how long a value is served after the    *)
(* commit that outdated it.                                                *)
(***************************************************************************)
EXTENDS PermissionCache, MembersCache, CacheLifetime, TLAPS

-----------------------------------------------------------------------------
(* CacheLifetime.  A value in a reader's hands is no older than the time   *)
(* the reader has held it, so an entry's age and the time it has left      *)
(* never add up to more than the bound.                                    *)

\* What the parameters make of each other.
LEMMA JitterType == CacheTtl \div 10 \in Nat /\ MaxLife \in Nat \ {0} /\ CacheTtl <= MaxLife
  BY LifetimeAssumption DEF MaxLife

\* A value in a reader's hands aged only while he held it; an entry has aged
\* the rest of its time.
ReaderAge == \A r \in Calls : hold[r] # NoCall => hold[r].val.age <= hold[r].held
EntryAge == entry # NoEntry => entry.val.age + entry.left <= MaxLife + Slowness

LifetimeInv == LifetimeTypeOK /\ ReaderAge /\ EntryAge

\* The first state satisfies the invariant.
LEMMA LifetimeInitInv == LifetimeInit => LifetimeInv
  BY DEF LifetimeInit, LifetimeInv, LifetimeTypeOK, ReaderAge, EntryAge

\* A value that ages by a tick is a value, at most one unit older.
LEMMA AgedValue ==
  ASSUME NEW v \in TimedValue
  PROVE  Aged(v) \in TimedValue /\ Aged(v).age <= v.age + 1 /\ Aged(v).outdated = v.outdated
  BY DEF Aged, TimedValue

\* Every step keeps the invariant.
LEMMA LifetimeNextInv == LifetimeInv /\ [LifetimeNext]_lifetimeVars => LifetimeInv'
<1> SUFFICES ASSUME LifetimeInv, [LifetimeNext]_lifetimeVars PROVE LifetimeInv'
  OBVIOUS
<1> USE LifetimeAssumption, JitterType DEF LifetimeInv, LifetimeTypeOK, ReaderAge, EntryAge
<1>1. CASE \E r \in Calls : LoadCurrent(r)
  BY <1>1 DEF LoadCurrent, Current, TimedValue
<1>2. CASE \E r \in Calls : SetEntry(r)
  <2>1. PICK r \in Calls : SetEntry(r)
    BY <1>2
  <2>2. PICK j \in 0..(CacheTtl \div 10) :
          entry' = [left |-> CacheTtl + j, val |-> hold[r].val]
    BY <2>1 DEF SetEntry, Jitter
  <2>3. /\ CacheTtl + j \in 1..MaxLife
        /\ hold[r].val \in TimedValue /\ hold[r].val.age <= Slowness
    BY <2>1 DEF SetEntry, MaxLife, TimedValue
  <2>4. entry' \in [left : 1..MaxLife, val : TimedValue] /\ EntryAge'
    BY <2>2, <2>3 DEF TimedValue
  <2>. QED BY <2>1, <2>4 DEF SetEntry
<1>3. CASE \E r \in Calls : SetEntryFails(r)
  BY <1>3 DEF SetEntryFails
<1>4. CASE Outdate
  BY <1>4 DEF Outdate, TimedValue
<1>5. CASE DropEntry
  BY <1>5 DEF DropEntry
<1>6. CASE Tick
  <2>1. entry' \in [left : 1..MaxLife, val : TimedValue] \cup {NoEntry} /\ EntryAge'
    <3>1. CASE entry = NoEntry \/ entry.left = 1
      BY <1>6, <3>1 DEF Tick
    <3>2. CASE entry # NoEntry /\ entry.left # 1
      <4>1. entry.val \in TimedValue /\ entry.left - 1 \in 1..MaxLife
        BY <3>2
      <4>2. entry' = [left |-> entry.left - 1, val |-> Aged(entry.val)]
        BY <1>6, <3>2 DEF Tick
      <4>. QED BY <3>2, <4>1, <4>2, AgedValue DEF TimedValue
    <3>. QED BY <3>1, <3>2
  <2>2. ASSUME NEW r \in Calls, hold[r] # NoCall
        PROVE  /\ [held |-> hold[r].held + 1, val |-> Aged(hold[r].val)]
                    \in [held : 0..Slowness, val : TimedValue]
               /\ Aged(hold[r].val).age <= hold[r].held + 1
    <3>1. hold[r].held \in 0..Slowness /\ hold[r].val \in TimedValue /\ hold[r].held < Slowness
      BY <1>6, <2>2 DEF Tick
    <3>. QED BY <2>2, <3>1, AgedValue DEF TimedValue
  <2>3. hold' \in [Calls -> [held : 0..Slowness, val : TimedValue] \cup {NoCall}] /\ ReaderAge'
    BY <1>6, <2>2 DEF Tick
  <2>. QED BY <2>1, <2>3
<1>7. CASE UNCHANGED lifetimeVars
  BY <1>7 DEF lifetimeVars
<1>. QED BY <1>1, <1>2, <1>3, <1>4, <1>5, <1>6, <1>7 DEF LifetimeNext

\* Whatever cache_ttl and however slow the readers: no value is served longer
\* than the longest life of an entry plus the slowest reader's delay after the
\* commit that outdated it.
THEOREM Staleness == LifetimeSpec => []StaleBounded
<1>1. LifetimeInv => StaleBounded
  BY JitterType, LifetimeAssumption DEF LifetimeInv, LifetimeTypeOK, EntryAge, StaleBounded, TimedValue
<1>. QED BY LifetimeInitInv, LifetimeNextInv, <1>1, PTL DEF LifetimeSpec

-----------------------------------------------------------------------------
(* MembersCache                                                            *)

\* Nobody has used a version yet to come, unless the count began again.
FutureUnused == \A v \in Version : v > ver /\ v \notin old => ~InUse(v)

\* What a reader with the current version has loaded is the present members.
ReaderFresh ==
  \A r \in Readers : fetch[r] # NoFetch /\ fetch[r].ver = ver =>
    \/ Excuse
    \/ /\ fetch[r].at \in {"items", "set"} => fetch[r].count = members
       /\ fetch[r].at = "set" => fetch[r].items = members

\* So is the page of the current version.
PageFresh == page[ver] # NoPage => Excuse \/ (page[ver].count = members /\ page[ver].items = members)

\* What was promised to a reader is in the page of his version and in the hands
\* of all who may write it.
Shows(n, v) ==
  /\ page[v] # NoPage => page[v].count >= n /\ page[v].items >= n
  /\ \A q \in Readers : fetch[q] # NoFetch /\ fetch[q].ver = v =>
       /\ fetch[q].at \in {"items", "set"} => fetch[q].count >= n
       /\ fetch[q].at = "set" => fetch[q].items >= n
PromiseKept ==
  \A r \in Readers : fetch[r] # NoFetch =>
    fetch[r].since <= members /\ Shows(fetch[r].since, fetch[r].ver)

MembersInv == MembersTypeOK /\ FutureUnused /\ ReaderFresh /\ PageFresh /\ PromiseKept

\* The first state satisfies the invariant.
LEMMA MembersInitInv == MembersInit => MembersInv
  BY MembersAssumption
     DEF MembersInit, MembersInv, MembersTypeOK, FutureUnused, ReaderFresh, PageFresh,
         PromiseKept, InUse, Version

\* A reader that moves on with the version he has, with what he has counted or
\* loaded now, keeps it.
LEMMA MoveInv ==
  ASSUME MembersInv, NEW r \in Readers, fetch[r] # NoFetch, NEW q \in Fetching,
         fetch' = [fetch EXCEPT ![r] = q], UNCHANGED <<members, ver, page, owed, missed>>,
         old' = old \/ Retire,
         q.ver = fetch[r].ver, q.since = fetch[r].since,
         q.at \in {"items", "set"} =>
           q.count = members \/ (fetch[r].at \in {"items", "set"} /\ q.count = fetch[r].count),
         q.at = "set" => q.items = members
  PROVE  MembersInv'
<1> USE MembersAssumption DEF MembersInv, MembersTypeOK
<1>1. /\ fetch'[r] = q
      /\ \A s \in Readers : s # r => fetch'[s] = fetch[s]
  OBVIOUS
<1>2. \A v \in Version : InUse(v)' => InUse(v)
  BY <1>1 DEF InUse
<1>3. old' \subseteq old /\ \A v \in Version : InUse(v)' /\ v \in old => v \in old'
  BY DEF Retire
<1>4. MembersTypeOK' /\ FutureUnused' /\ (InUse(ver)' /\ Excuse => Excuse')
  BY <1>2, <1>3 DEF FutureUnused, Excuse, BumpToCome
<1>5. ReaderFresh' /\ PageFresh'
  <2>1. PageFresh'
    BY <1>4 DEF PageFresh, InUse
  <2>2. ReaderFresh'
    BY <1>1, <1>4 DEF ReaderFresh, InUse
  <2>. QED BY <2>1, <2>2
<1>6. PromiseKept'
  <2>1. \A s \in Readers : fetch'[s] # NoFetch =>
          /\ fetch[s] # NoFetch
          /\ fetch'[s].ver = fetch[s].ver /\ fetch'[s].since = fetch[s].since
    BY <1>1
  <2>2. ASSUME NEW s \in Readers, fetch'[s] # NoFetch
        PROVE  Shows(fetch[s].since, fetch[s].ver)'
    <3>1. fetch[s].since <= members /\ Shows(fetch[s].since, fetch[s].ver)
      BY <2>1, <2>2 DEF PromiseKept
    <3>2. fetch[s].since \in Nat /\ q.count \in Nat /\ q.items \in Nat
      BY <2>1, <2>2 DEF Fetching
    <3>. QED BY <1>1, <2>1, <2>2, <3>1, <3>2 DEF Shows
  <2>. QED BY <2>1, <2>2 DEF PromiseKept
<1>. QED BY <1>4, <1>5, <1>6

\* So does one that leaves, whether or not he has written his page.
LEMMA LeaveInv ==
  ASSUME MembersInv, NEW r \in Readers, fetch[r] # NoFetch,
         fetch' = [fetch EXCEPT ![r] = NoFetch], UNCHANGED <<members, ver, owed, missed>>,
         \/ page' = page /\ Retire
         \/ /\ fetch[r].at = "set" /\ old' = old
            /\ page' = [page EXCEPT ![fetch[r].ver] =
                          [count |-> fetch[r].count, items |-> fetch[r].items]]
  PROVE  MembersInv'
<1> USE MembersAssumption DEF MembersInv, MembersTypeOK
<1> DEFINE p == [count |-> fetch[r].count, items |-> fetch[r].items]
<1>1. fetch[r] \in Fetching /\ p \in Page /\ p # NoPage
  BY DEF Fetching, Page
<1>2. /\ fetch'[r] = NoFetch
      /\ \A s \in Readers : fetch'[s] # NoFetch => s # r /\ fetch'[s] = fetch[s]
  OBVIOUS
<1>3. CASE page' = page /\ Retire
  <2>1. old' \subseteq old /\ \A v \in Version : InUse(v)' => InUse(v) /\ (v \in old => v \in old')
    BY <1>2, <1>3 DEF Retire, InUse
  <2>2. MembersTypeOK'
    BY <1>2, <1>3, <2>1
  <2>3. InUse(ver)' => (Excuse => Excuse')
    BY <2>1 DEF Excuse, BumpToCome
  <2>4. FutureUnused'
    BY <2>1 DEF FutureUnused
  <2>5. ReaderFresh' /\ PageFresh'
    BY <1>2, <1>3, <2>3 DEF ReaderFresh, PageFresh, InUse
  <2>6. PromiseKept'
    BY <1>2, <1>3 DEF PromiseKept, Shows
  <2>. QED BY <2>2, <2>4, <2>5, <2>6
<1>4. CASE /\ fetch[r].at = "set" /\ old' = old
           /\ page' = [page EXCEPT ![fetch[r].ver] = p]
  <2>1. /\ fetch[r].ver \in Version /\ page'[fetch[r].ver] = p
        /\ \A v \in Version : v # fetch[r].ver => page'[v] = page[v]
    BY <1>1, <1>4 DEF Fetching
  <2>2. p.count = fetch[r].count /\ p.items = fetch[r].items
    OBVIOUS
  <2> HIDE DEF p
  <2>3. MembersTypeOK' /\ (Excuse => Excuse')
    BY <1>1, <1>2, <1>4 DEF Excuse, BumpToCome
  <2>4. \A v \in Version : InUse(v)' => InUse(v)
    BY <1>2, <2>1 DEF InUse
  <2>5. FutureUnused' /\ ReaderFresh'
    BY <1>2, <1>4, <2>3, <2>4 DEF FutureUnused, ReaderFresh
  <2>6. PageFresh'
    BY <1>4, <2>1, <2>2, <2>3 DEF PageFresh, ReaderFresh
  <2>7. PromiseKept'
    <3> SUFFICES ASSUME NEW s \in Readers, fetch'[s] # NoFetch
                 PROVE  fetch[s].since <= members /\ Shows(fetch[s].since, fetch[s].ver)'
      BY <1>2 DEF PromiseKept
    <3>1. fetch[s] \in Fetching /\ fetch[s].since <= members /\ Shows(fetch[s].since, fetch[s].ver)
      BY <1>2 DEF PromiseKept
    <3>. QED BY <1>2, <1>4, <2>1, <2>2, <3>1 DEF Shows, Fetching
  <2>. QED BY <2>3, <2>5, <2>6, <2>7
<1>. QED BY <1>3, <1>4

\* A reader that begins is promised what the version he has read can keep.
LEMMA BeginInv ==
  ASSUME MembersInv, NEW r \in Readers, NEW v \in Version, NEW n \in Nat, Begin(r, v, n),
         v <= ver, n = 0 \/ (v = ver /\ ~Excuse /\ n = members)
  PROVE  MembersInv'
<1> USE MembersAssumption DEF MembersInv, MembersTypeOK
<1>1. /\ fetch[r] = NoFetch /\ n <= members
      /\ fetch' = [fetch EXCEPT ![r] =
           [ver |-> v, at |-> "get", count |-> 0, items |-> 0, since |-> n]]
      /\ UNCHANGED <<members, ver, page, owed, missed, old>>
  BY DEF Begin, Move
<1> DEFINE q == [ver |-> v, at |-> "get", count |-> 0, items |-> 0, since |-> n]
<1>2. /\ q \in Fetching /\ q.ver = v /\ q.at = "get" /\ q.since = n
      /\ fetch' = [fetch EXCEPT ![r] = q]
  BY <1>1 DEF Fetching
<1> HIDE DEF q
<1>3. /\ fetch'[r] = q
      /\ \A s \in Readers : s # r => fetch'[s] = fetch[s]
      /\ MembersTypeOK' /\ Excuse' = Excuse
  BY <1>1, <1>2 DEF Excuse, BumpToCome
<1>4. FutureUnused' /\ ReaderFresh' /\ PageFresh'
  BY <1>1, <1>2, <1>3 DEF FutureUnused, ReaderFresh, PageFresh, InUse, Version
<1>5. ASSUME NEW m \in Nat, NEW u \in Version, Shows(m, u) PROVE Shows(m, u)'
  BY <1>1, <1>2, <1>3, <1>5 DEF Shows
<1>6. Shows(n, v)
  <2>1. \A s \in Readers : fetch[s] # NoFetch => fetch[s].count \in Nat /\ fetch[s].items \in Nat
    BY DEF Fetching
  <2>2. page[v] # NoPage => page[v].count \in Nat /\ page[v].items \in Nat
    BY DEF Page
  <2>. QED BY <1>1, <2>1, <2>2 DEF Shows, ReaderFresh, PageFresh
<1>7. PromiseKept'
  <2> SUFFICES ASSUME NEW s \in Readers, fetch'[s] # NoFetch
               PROVE  (fetch[s].since <= members /\ Shows(fetch[s].since, fetch[s].ver))'
    BY DEF PromiseKept
  <2>1. CASE s = r
    <3>1. Shows(n, v)'
      BY <1>5, <1>6
    <3>. QED BY <1>1, <1>2, <1>3, <2>1, <3>1
  <2>2. CASE s # r
    <3>1. fetch[s] \in Fetching /\ fetch[s].since <= members /\ Shows(fetch[s].since, fetch[s].ver)
      BY <1>3, <2>2 DEF PromiseKept
    <3>2. fetch[s].since \in Nat /\ fetch[s].ver \in Version /\ fetch'[s] = fetch[s]
      BY <1>3, <2>2, <3>1 DEF Fetching
    <3>3. Shows(fetch[s].since, fetch[s].ver)'
      BY <1>5, <3>1, <3>2
    <3>. QED BY <1>1, <3>1, <3>2, <3>3
  <2>. QED BY <2>1, <2>2
<1>. QED BY <1>3, <1>4, <1>7

\* A reader's own steps keep it.
LEMMA FetchInv == ASSUME MembersInv, NEW r \in Readers, FetchStep(r) PROVE MembersInv'
<1> USE DEF Move, FetchAt
<1>1. CASE GetVersion(r) \/ GetVersionFails(r)
  <2>1. 0 \in Version /\ ver \in Version /\ 0 <= ver /\ members \in Nat
    BY MembersAssumption DEF MembersInv, MembersTypeOK, Version
  <2>2. CASE GetVersion(r)
    <3>1. CASE Excuse
      <4>1. Begin(r, ver, 0) /\ ver <= ver /\ 0 \in Nat
        BY <2>1, <2>2, <3>1 DEF GetVersion, VersionRead, Version
      <4>. QED BY <2>1, <4>1, BeginInv
    <3>2. CASE ~Excuse
      <4>1. Begin(r, ver, members) /\ ver <= ver
        BY <2>1, <2>2, <3>2 DEF GetVersion, VersionRead, Version
      <4>. QED BY <2>1, <3>2, <4>1, BeginInv
    <3>. QED BY <3>1, <3>2
  <2>3. CASE GetVersionFails(r)
    BY <2>1, <2>3, BeginInv DEF GetVersionFails
  <2>. QED BY <1>1, <2>2, <2>3
<1>2. ASSUME fetch[r] # NoFetch PROVE fetch[r] \in Fetching /\ members \in Nat
  BY <1>2 DEF MembersInv, MembersTypeOK
<1>3. CASE GetPage(r)
  <2>1. CASE page[fetch[r].ver] = NoPage
    <3> DEFINE q == [fetch[r] EXCEPT !.at = "count"]
    <3>1. /\ fetch[r] \in Fetching /\ fetch' = [fetch EXCEPT ![r] = q]
          /\ Retire /\ UNCHANGED <<members, ver, page, owed, missed>>
      BY <1>2, <1>3, <2>1 DEF GetPage
    <3>2. q \in Fetching /\ q.ver = fetch[r].ver /\ q.at = "count" /\ q.since = fetch[r].since
      BY <3>1 DEF Fetching
    <3> HIDE DEF q
    <3>. QED BY <1>3, <3>1, <3>2, MoveInv DEF GetPage
  <2>2. CASE page[fetch[r].ver] # NoPage
    BY <1>3, <2>2, LeaveInv DEF GetPage
  <2>. QED BY <2>1, <2>2
<1>4. CASE Count(r)
  <2> DEFINE q == [fetch[r] EXCEPT !.at = "items", !.count = members]
  <2>1. /\ fetch[r] \in Fetching /\ fetch' = [fetch EXCEPT ![r] = q]
        /\ UNCHANGED <<members, ver, page, owed, missed, old>>
    BY <1>2, <1>4 DEF Count
  <2>2. /\ q \in Fetching /\ q.ver = fetch[r].ver /\ q.since = fetch[r].since
        /\ q.at = "items" /\ q.count = members
    BY <1>2, <1>4, <2>1 DEF Count, Fetching
  <2> HIDE DEF q
  <2>. QED BY <1>4, <2>1, <2>2, MoveInv DEF Count
<1>5. CASE Items(r)
  <2> DEFINE q == [fetch[r] EXCEPT !.at = "set", !.items = members]
  <2>1. /\ fetch[r] \in Fetching /\ fetch[r].at = "items" /\ fetch' = [fetch EXCEPT ![r] = q]
        /\ UNCHANGED <<members, ver, page, owed, missed, old>>
    BY <1>2, <1>5 DEF Items
  <2>2. /\ q \in Fetching /\ q.ver = fetch[r].ver /\ q.since = fetch[r].since
        /\ q.at = "set" /\ q.items = members /\ q.count = fetch[r].count
    BY <1>2, <1>5, <2>1 DEF Items, Fetching
  <2> HIDE DEF q
  <2>. QED BY <1>5, <2>1, <2>2, MoveInv DEF Items
<1>6. CASE SetPage(r)
  BY <1>6, LeaveInv DEF SetPage
<1>7. CASE SetPageFails(r)
  BY <1>7, LeaveInv DEF SetPageFails
<1>. QED BY <1>1, <1>3, <1>4, <1>5, <1>6, <1>7 DEF FetchStep

\* So do the changes of the members, and what becomes of their bumps.
LEMMA ChangeInv ==
  ASSUME MembersInv,
         \/ \E w \in Changers : ChangeMembers(w) \/ Bump(w) \/ NeverBumps(w)
         \/ Purge \/ LastOwnerLeaves
  PROVE  MembersInv'
<1> USE MembersAssumption DEF MembersInv, MembersTypeOK
<1>1. /\ fetch' = fetch /\ page' = page /\ old' = old
      /\ \A v \in Version : InUse(v)' = InUse(v)
      /\ members' \in Nat /\ members <= members'
  BY DEF ChangeMembers, Bump, NeverBumps, Purge, LastOwnerLeaves, Change, InUse
<1>2. PromiseKept'
  <2>1. \A r \in Readers : fetch[r] # NoFetch => fetch[r].since \in Nat
    BY DEF Fetching
  <2>. QED BY <1>1, <2>1 DEF PromiseKept, Shows
<1>3. CASE \E w \in Changers : Bump(w)
  <2>1. PICK w \in Changers : Bump(w)
    BY <1>3
  <2>2. /\ ver' = ver + 1 /\ ver' \in Version /\ members' = members
        /\ missed' = {} /\ owed' = [owed EXCEPT ![w] = FALSE]
    BY <2>1 DEF Bump, Version
  <2>3. ver' \in old \/ ~InUse(ver')
    BY <2>2 DEF FutureUnused, Version
  <2>4. MembersTypeOK'
    BY <1>1, <2>2
  <2>5. FutureUnused'
    BY <1>1, <2>2 DEF FutureUnused, Version
  <2>6. ReaderFresh' /\ PageFresh'
    BY <1>1, <2>2, <2>3 DEF ReaderFresh, PageFresh, Excuse, InUse
  <2>. QED BY <1>2, <2>4, <2>5, <2>6
<1>4. ASSUME ver' = ver, Excuse', MembersTypeOK' PROVE MembersInv'
  BY <1>1, <1>2, <1>4 DEF FutureUnused, ReaderFresh, PageFresh
<1>5. CASE \E w \in Changers : ChangeMembers(w)
  BY <1>1, <1>4, <1>5 DEF ChangeMembers, Excuse, BumpToCome
<1>6. CASE \E w \in Changers : NeverBumps(w)
  BY <1>1, <1>4, <1>6 DEF NeverBumps, Excuse
<1>7. CASE Purge \/ LastOwnerLeaves
  BY <1>1, <1>4, <1>7 DEF Purge, LastOwnerLeaves, Excuse
<1>. QED BY <1>3, <1>5, <1>6, <1>7

\* So does Redis when it forgets.
LEMMA ForgetInv ==
  ASSUME MembersInv, VersionExpires \/ \E v \in Version : DropPage(v) PROVE MembersInv'
<1> USE MembersAssumption DEF MembersInv, MembersTypeOK
<1>1. CASE VersionExpires
  <2>1. /\ ver' = 0 /\ old' = {v \in Version : InUse(v)}
        /\ UNCHANGED <<members, page, fetch, owed, missed>>
    BY <1>1 DEF VersionExpires
  <2>2. /\ \A v \in Version : (InUse(v)' <=> InUse(v)) /\ (v \in old' <=> InUse(v))
        /\ ver' \in Version /\ old' \in SUBSET Version
    <3>1. \A v : InUse(v)' <=> InUse(v)
      BY <2>1 DEF InUse
    <3>2. ver' \in Version
      BY <2>1 DEF Version
    <3> HIDE DEF InUse, Version
    <3>. QED BY <2>1, <3>1, <3>2
  <2>3. MembersTypeOK' /\ FutureUnused'
    BY <2>1, <2>2 DEF FutureUnused
  <2>4. ReaderFresh' /\ PageFresh'
    BY <2>1, <2>2 DEF ReaderFresh, PageFresh, Excuse, InUse
  <2>5. PromiseKept'
    BY <2>1 DEF PromiseKept, Shows
  <2>. QED BY <2>3, <2>4, <2>5
<1>2. ASSUME NEW v \in Version, DropPage(v) PROVE MembersInv'
  <2>1. /\ page' = [page EXCEPT ![v] = NoPage] /\ Retire
        /\ UNCHANGED <<members, ver, fetch, owed, missed>>
    BY <1>2 DEF DropPage
  <2>2. /\ \A u \in Version : page'[u] # NoPage => page'[u] = page[u]
        /\ page' \in [Version -> Page \cup {NoPage}]
    BY <2>1
  <2>3. old' \subseteq old /\ \A u \in Version : InUse(u)' => InUse(u) /\ (u \in old => u \in old')
    BY <2>1, <2>2 DEF Retire, InUse
  <2>4. MembersTypeOK' /\ FutureUnused' /\ (InUse(ver)' /\ Excuse => Excuse')
    BY <2>1, <2>2, <2>3 DEF FutureUnused, Excuse, BumpToCome
  <2>5. ReaderFresh' /\ PageFresh'
    BY <2>1, <2>2, <2>4 DEF ReaderFresh, PageFresh, InUse
  <2>6. PromiseKept'
    BY <2>1, <2>2 DEF PromiseKept, Shows, Fetching
  <2>. QED BY <2>4, <2>5, <2>6
<1>. QED BY <1>1, <1>2

\* Every step keeps the invariant.
LEMMA MembersNextInv == MembersInv /\ [MembersNext]_membersVars => MembersInv'
<1> SUFFICES ASSUME MembersInv, [MembersNext]_membersVars PROVE MembersInv'
  OBVIOUS
<1>1. CASE UNCHANGED membersVars
  BY <1>1
     DEF membersVars, MembersInv, MembersTypeOK, FutureUnused, ReaderFresh, PageFresh, PromiseKept,
         Shows, Excuse, BumpToCome, InUse
<1>. QED BY <1>1, FetchInv, ChangeInv, ForgetInv DEF MembersNext

\* For any number of readers and writers, and whatever Redis forgets: a page that
\* a reader finds shows every commit from before he read the version, unless a
\* bump was missing then, the version had been used before, or was not read.
THEOREM CommitsAreSeen == MembersSpec => []ReadersSeeCommits
<1>1. MembersInv => ReadersSeeCommits
  BY DEF MembersInv, PromiseKept, Shows, ReadersSeeCommits, FetchAt
<1>. QED BY MembersInitInv, MembersNextInv, <1>1, PTL DEF MembersSpec

-----------------------------------------------------------------------------
(* PermissionCache                                                         *)

(* The inductive invariant                                                 *)

\* Every role there is, in the database, in Redis or in a call's hands, is one
\* its user has had.
RowsHeld  == \A u \in Users : role[u] \in held[u] \cup {NoRole}
CacheHeld == \A u \in Users : cache[u] \in held[u] \cup {Absent}
HeldCall(q) ==
  /\ q.key \in {q.user, StatusKey}
  /\ q.at = "set" => q.val # NoRole
  /\ q.at \in {"set", "done"} /\ q.key # StatusKey /\ q.val # NoRole => q.val \in held[q.user]
ReadsHeld == \A r \in Reads : read[r] # Idle => HeldCall(read[r])

Inv == TypeOK /\ RowsHeld /\ CacheHeld /\ ReadsHeld /\ StaleHasCause

USE DEF Value, Keys, UserRole, NoRole, RoleOrNone, Senior

\* What a call of verify_user_role does to the readers: it only hands on what
\* the cache and the database hold.
Reader(r) == Get(r) \/ GetFails(r) \/ Load(r) \/ SetFails(r) \/ CheckStatus(r) \/ Return(r)
               \/ \E u \in Users : Verify(r, u)

\* What the commits have in common: the rows change, every key that changes is
\* handed to the invalidation, holds nothing or goes with its project, and nobody
\* else moves.
CommittedBy(w, keys) ==
  /\ exists' \in BOOLEAN /\ status' \in {"ACTIVE", "ARCHIVED"}
  /\ role' \in [Users -> RoleOrNone]
  /\ held' = [u \in Users |-> held[u] \cup ({role'[u]} \ {NoRole})]
  /\ cascaded \subseteq cascaded' /\ cascaded' \in SUBSET Keys
  /\ UNCHANGED <<accounts, cache, read, lost, late>>
  /\ write[w] = {} /\ write' = [write EXCEPT ![w] = keys]
  /\ \A k \in Keys : InDb(k)' # InDb(k) =>
       k \in keys \/ InDb(k) = NoRole \/ k \in cascaded' \/ cache[k] = Absent

Committed == \E w \in Writes, keys \in SUBSET Keys : CommittedBy(w, keys)

-----------------------------------------------------------------------------
\* The first state satisfies the invariant.
LEMMA InitInv == Init => Inv
  BY CacheAssumption
  DEF Init, Inv, TypeOK, RowsHeld, CacheHeld, ReadsHeld, HeldCall, StaleHasCause, Stale

\* Every commit of a handler hands over the keys of what it changes; only a
\* newcomer's key, which should be empty, is left alone, and those of the members
\* of a project that is deleted.
LEMMA CommitsInvalidate ==
  ASSUME TypeOK, NEW w \in Writes,
         \/ \E s \in {"ACTIVE", "ARCHIVED"} : SetStatus(w, s)
         \/ \E t \in Users : RemoveOrLeave(w, t)
         \/ \E t \in Users, new \in GrantRoles : ChangeRole(w, t, new) \/ Accept(w, t, new)
         \/ \E u, t \in Users : Transfer(w, u, t)
         \/ \E u \in Users : OwnerLeaves(w, u)
         \/ HardDelete(w)
  PROVE  Committed
<1> USE CacheAssumption DEF TypeOK, CommittedBy, Commit, InDb
<1>1. ASSUME NEW s \in {"ACTIVE", "ARCHIVED"}, SetStatus(w, s)
      PROVE  CommittedBy(w, {StatusKey})
  BY <1>1 DEF SetStatus
<1>2. ASSUME NEW t \in Users, RemoveOrLeave(w, t)
      PROVE  CommittedBy(w, {t})
  BY <1>2 DEF RemoveOrLeave
<1>3. ASSUME NEW t \in Users, NEW new \in GrantRoles, ChangeRole(w, t, new)
      PROVE  CommittedBy(w, {t})
  BY <1>3 DEF ChangeRole
<1>4. ASSUME NEW t \in Users, NEW new \in GrantRoles, Accept(w, t, new)
      PROVE  CommittedBy(w, {})
  BY <1>4 DEF Accept
<1>5. ASSUME NEW u \in Users, NEW t \in Users, Transfer(w, u, t)
      PROVE  CommittedBy(w, {u, t})
  BY <1>5 DEF Transfer, TransferKeys
<1>6. ASSUME NEW u \in Users, OwnerLeaves(w, u)
      PROVE  CommittedBy(w, {u, StatusKey})
  BY <1>6 DEF OwnerLeaves, Delete, Cascades
<1>7. ASSUME HardDelete(w)
      PROVE  CommittedBy(w, {StatusKey})
  BY <1>7 DEF HardDelete, Delete, Cascades
<1>8. {} \in SUBSET Keys /\ {StatusKey} \in SUBSET Keys
      /\ \A u, t \in Users : {t} \in SUBSET Keys /\ {u, t} \in SUBSET Keys
                             /\ {u, StatusKey} \in SUBSET Keys
  OBVIOUS
<1> HIDE DEF CommittedBy
<1>. QED BY <1>1, <1>2, <1>3, <1>4, <1>5, <1>6, <1>7, <1>8 DEF Committed

\* A commit keeps the invariant: a key it makes stale is one it will delete, or
\* was stale before.
LEMMA CommittedInv == Inv /\ Committed => Inv'
<1> SUFFICES ASSUME Inv, NEW w \in Writes, NEW keys \in SUBSET Keys, CommittedBy(w, keys)
             PROVE  Inv'
  BY DEF Committed
<1>1. TypeOK'
  BY CacheAssumption DEF Inv, TypeOK, CommittedBy
<1>2. RowsHeld' /\ CacheHeld' /\ ReadsHeld'
  BY CacheAssumption DEF Inv, TypeOK, Reading, CommittedBy, RowsHeld, CacheHeld, ReadsHeld, HeldCall
<1>3. StaleHasCause'
  <2> SUFFICES ASSUME NEW k \in Keys, Stale(k)', k \notin cascaded'
               PROVE  (Pending(k) \/ k \in lost \/ k \in late)'
    BY DEF StaleHasCause
  <2>1. /\ write[w] = {} /\ write' = [write EXCEPT ![w] = keys]
        /\ InDb(k)' # InDb(k) => k \in keys \/ InDb(k) = NoRole \/ cache[k] = Absent
    BY DEF CommittedBy
  <2>2. CASE k \in keys
    BY <2>1, <2>2 DEF Inv, TypeOK, Pending
  <2>3. CASE k \notin keys
    <3>1. Stale(k)
      BY <2>1, <2>3, CacheAssumption DEF CommittedBy, Stale, Inv, TypeOK
    <3>2. Pending(k) \/ k \in lost \/ k \in late
      BY <3>1 DEF Inv, StaleHasCause, CommittedBy
    <3>. QED
      BY <2>1, <3>2 DEF Inv, TypeOK, Pending, CommittedBy
  <2>. QED BY <2>2, <2>3
<1>. QED BY <1>1, <1>2, <1>3 DEF Inv

\* A call moves on to a state that respects the invariant.
LEMMA CallInv ==
  ASSUME Inv, NEW r \in Reads, NEW q \in Reading, HeldCall(q), read' = [read EXCEPT ![r] = q],
         UNCHANGED <<exists, status, role, accounts, cache, write, lost, late, cascaded, held>>
  PROVE  Inv'
<1>1. TypeOK'
  BY DEF Inv, TypeOK
<1>2. ReadsHeld'
  BY DEF Inv, TypeOK, ReadsHeld, HeldCall
<1>. QED
  BY <1>1, <1>2 DEF Inv, RowsHeld, CacheHeld, StaleHasCause, Stale, Pending, InDb

\* A call that moves on with a value is still one.
LEMMA Handed ==
  ASSUME NEW c \in Reading, NEW pc \in {"get", "load", "set", "done"}, NEW v \in Value \cup {NoRole}
  PROVE  [c EXCEPT !.at = pc, !.val = v] \in Reading
  BY DEF Reading

\* A call's own steps keep the invariant: they touch neither Redis nor the
\* database, and hand on what these hold.
LEMMA ReaderInv == ASSUME Inv, NEW r \in Reads, Reader(r) PROVE Inv'
<1>1. UNCHANGED <<exists, status, role, accounts, cache, write, lost, late, cascaded, held>>
  BY DEF Reader, Get, GetFails, Load, SetFails, CheckStatus, Return, Verify, db, ghost
<1>2. ASSUME NEW pc, At(r, pc)
      PROVE  read[r] \in Reading /\ read[r].at = pc /\ HeldCall(read[r])
  BY <1>2 DEF At, Inv, TypeOK, ReadsHeld
<1>3. ASSUME At(r, "get") \/ At(r, "load")
      PROVE  /\ Loaded(read[r]) \in Value \cup {NoRole}
             /\ read[r].key # StatusKey /\ Loaded(read[r]) # NoRole
                  => Loaded(read[r]) \in held[read[r].user]
  BY <1>2, <1>3 DEF Loaded, InDb, Inv, TypeOK, RowsHeld, Reading
<1>4. CASE Get(r)
  <2>1. read[r] \in Reading /\ read[r].at = "get" /\ HeldCall(read[r])
    BY <1>2, <1>4 DEF Get
  <2>2. CASE cache[read[r].key] = Absent
    <3> DEFINE q == [read[r] EXCEPT !.at = "load"]
    <3>1. q \in Reading /\ HeldCall(q)
      BY <2>1 DEF Reading, HeldCall
    <3>2. read' = [read EXCEPT ![r] = q]
      BY <1>4, <2>2 DEF Get
    <3>. QED BY <1>1, <3>1, <3>2, CallInv
  <2>3. CASE cache[read[r].key] # Absent
    <3> DEFINE v == cache[read[r].key]
               q == [read[r] EXCEPT !.at = "done", !.val = v]
    <3>1. v \in Value /\ (read[r].key # StatusKey => v \in held[read[r].user])
      BY <2>1, <2>3 DEF Reading, HeldCall, Inv, TypeOK, CacheHeld
    <3>2. q \in Reading
      BY <2>1, <3>1, Handed
    <3>3. HeldCall(q)
      BY <2>1, <3>1 DEF Reading, HeldCall
    <3>4. read' = [read EXCEPT ![r] = q]
      BY <1>4, <2>3 DEF Get
    <3>. QED BY <1>1, <3>2, <3>3, <3>4, CallInv
  <2>. QED BY <2>2, <2>3
<1>5. CASE GetFails(r) \/ Load(r)
  <2>1. PICK pc \in {"set", "done"} :
          /\ read' = [read EXCEPT ![r] = [read[r] EXCEPT !.at = pc, !.val = Loaded(read[r])]]
          /\ pc = "set" => Loaded(read[r]) # NoRole
    BY <1>5 DEF GetFails, Load, Cacheable
  <2> DEFINE q == [read[r] EXCEPT !.at = pc, !.val = Loaded(read[r])]
  <2>2. read[r] \in Reading /\ HeldCall(read[r])
    BY <1>2, <1>5 DEF GetFails, Load
  <2>3. /\ Loaded(read[r]) \in Value \cup {NoRole}
        /\ read[r].key # StatusKey /\ Loaded(read[r]) # NoRole
             => Loaded(read[r]) \in held[read[r].user]
    BY <1>3, <1>5 DEF GetFails, Load
  <2>4. q \in Reading
    BY <2>2, <2>3, Handed
  <2>5. HeldCall(q)
    BY <2>1, <2>2, <2>3 DEF Reading, HeldCall
  <2>. QED BY <1>1, <2>1, <2>4, <2>5, CallInv
<1>6. CASE SetFails(r)
  <2> DEFINE q == [read[r] EXCEPT !.at = "done"]
  <2>1. q \in Reading /\ HeldCall(q)
    BY <1>2, <1>6 DEF SetFails, Reading, HeldCall
  <2>. QED BY <1>1, <1>6, <2>1, CallInv DEF SetFails
<1>7. CASE CheckStatus(r)
  <2> DEFINE q == [read[r] EXCEPT !.key = StatusKey, !.at = "get", !.val = NoRole]
  <2>1. q \in Reading /\ HeldCall(q)
    BY <1>2, <1>7 DEF CheckStatus, Reading, HeldCall
  <2>2. read' = [read EXCEPT ![r] = q]
    BY <1>7 DEF CheckStatus
  <2>. QED BY <1>1, <2>1, <2>2, CallInv
<1>8. CASE \E u \in Users : Verify(r, u)
  <2>1. PICK u \in Users : Verify(r, u)
    BY <1>8
  <2> DEFINE q == [user |-> u, key |-> u, at |-> "get", val |-> NoRole]
  <2>2. q \in Reading /\ HeldCall(q)
    BY DEF Reading, HeldCall
  <2>. QED BY <1>1, <2>1, <2>2, CallInv DEF Verify, RoleKey
<1>9. CASE Return(r)
  <2>1. TypeOK' /\ ReadsHeld'
    BY <1>1, <1>9 DEF Return, Inv, TypeOK, ReadsHeld, HeldCall
  <2>. QED
    BY <1>1, <2>1 DEF Inv, RowsHeld, CacheHeld, StaleHasCause, Stale, Pending, InDb
<1>. QED BY <1>4, <1>5, <1>6, <1>7, <1>8, <1>9 DEF Reader

\* So do the four steps that change Redis or forget an invalidation.
LEMMA RedisInv ==
  ASSUME Inv, \/ \E r \in Reads : Set(r)
              \/ \E w \in Writes : Invalidate(w) \/ NeverInvalidates(w)
              \/ \E k \in Keys : Drop(k)
  PROVE  Inv'
<1> USE CacheAssumption DEF Inv, TypeOK, RowsHeld, CacheHeld, ReadsHeld, HeldCall, StaleHasCause, Stale,
                            Pending, InDb, db, ghost
<1>1. CASE \E r \in Reads : Set(r)
  <2>1. PICK r \in Reads : Set(r)
    BY <1>1
  <2>2. read[r] \in Reading /\ read[r].at = "set" /\ read[r].val # NoRole
    BY <2>1 DEF Set, At
  <2>3. TypeOK' /\ RowsHeld' /\ CacheHeld' /\ ReadsHeld'
    BY <2>1, <2>2 DEF Set, At, Reading
  <2>4. StaleHasCause'
    BY <2>1, <2>2 DEF Set, At, Reading
  <2>. QED BY <2>3, <2>4
<1>2. CASE \E w \in Writes : Invalidate(w)
  BY <1>2 DEF Invalidate
<1>3. CASE \E w \in Writes : NeverInvalidates(w)
  BY <1>3 DEF NeverInvalidates
<1>4. CASE \E k \in Keys : Drop(k)
  BY <1>4 DEF Drop
<1>. QED BY <1>1, <1>2, <1>3, <1>4

\* And a purge: what Redis has of the account is marked.
LEMMA PurgeInv == ASSUME Inv, NEW u \in Users, PurgeMember(u) PROVE Inv'
<1> USE CacheAssumption
<1>1. /\ role' = [role EXCEPT ![u] = NoRole] /\ accounts' = accounts \ {u}
      /\ UNCHANGED <<exists, status, cache, read, write, lost, late, held>>
  BY DEF PurgeMember
<1>2. /\ cascaded' \in SUBSET Keys /\ cascaded \subseteq cascaded'
      /\ role[u] # NoRole /\ cache[u] # Absent => u \in cascaded'
  BY DEF PurgeMember, Cascades, Inv, TypeOK
<1>3. role' \in [Users -> RoleOrNone] /\ \A v \in Users : v # u => role'[v] = role[v]
  BY <1>1 DEF Inv, TypeOK
<1>4. TypeOK'
  BY <1>1, <1>2, <1>3 DEF Inv, TypeOK
<1>5. RowsHeld' /\ CacheHeld' /\ ReadsHeld'
  BY <1>1 DEF Inv, TypeOK, RowsHeld, CacheHeld, ReadsHeld, HeldCall
<1>6. StaleHasCause'
  <2> SUFFICES ASSUME NEW k \in Keys, Stale(k)', k \notin cascaded'
               PROVE  (Pending(k) \/ k \in lost \/ k \in late)'
    BY DEF StaleHasCause
  <2>1. Stale(k)
    BY <1>1, <1>2, <1>3 DEF Stale, InDb, Inv, TypeOK
  <2>2. Pending(k) \/ k \in lost \/ k \in late
    BY <1>2, <2>1 DEF Inv, StaleHasCause
  <2>. QED BY <1>1, <2>2 DEF Pending
<1>. QED BY <1>4, <1>5, <1>6 DEF Inv

\* Every step keeps the invariant.
LEMMA NextInv == Inv /\ [Next]_vars => Inv'
<1> SUFFICES ASSUME Inv, [Next]_vars PROVE Inv'
  OBVIOUS
<1>1. CASE \E r \in Reads : ReadStep(r)
  BY <1>1, ReaderInv, RedisInv DEF ReadStep, Reader
<1>2. CASE \E w \in Writes : WriteStep(w)
  <2>1. PICK w \in Writes : WriteStep(w)
    BY <1>2
  <2>2. CASE Invalidate(w) \/ NeverInvalidates(w)
    BY <2>2, RedisInv
  <2>3. CASE ~(Invalidate(w) \/ NeverInvalidates(w))
    <3>1. Committed
      BY <2>1, <2>3, CommitsInvalidate DEF WriteStep, Inv
    <3>. QED BY <3>1, CommittedInv
  <2>. QED BY <2>2, <2>3
<1>3. CASE \E k \in Keys : Drop(k)
  BY <1>3, RedisInv
<1>4. CASE UNCHANGED vars
  BY <1>4 DEF vars, Inv, TypeOK, RowsHeld, CacheHeld, ReadsHeld, HeldCall, StaleHasCause, Stale,
              Pending, InDb
<1>5. CASE \E u \in Users : PurgeMember(u)
  BY <1>5, PurgeInv
<1>. QED BY <1>1, <1>2, <1>3, <1>4, <1>5 DEF Next

\* The invariant holds throughout.
THEOREM Invariant == Spec => []Inv
  BY InitInv, NextInv, PTL DEF Spec

\* Whatever is in flight, a key that disagrees with the database is about to be
\* deleted, or its deletion was lost, or a slow reader put the value back, or its
\* row went with its project or its account: every handler invalidates the rest.
THEOREM StaleKeysExplained == Spec => []StaleHasCause
<1>1. Inv => StaleHasCause
  BY DEF Inv
<1>. QED BY <1>1, Invariant, PTL

\* A stale cache may give a role that was taken away, never one that its user
\* has not had.
THEOREM GrantsWereHeld == Spec => []GrantWasHeld
<1>1. Inv => GrantWasHeld
  BY DEF Inv, ReadsHeld, HeldCall, GrantWasHeld, At
<1>. QED BY <1>1, Invariant, PTL
=============================================================================
