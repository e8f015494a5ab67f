--------------------------- MODULE CacheLifetime ---------------------------
(***************************************************************************)
(* For how long one key of the cache may disagree with the database: the   *)
(* entry's lifetime in get_or_set_cache, with its jitter, and a reader     *)
(* between its SELECT and its SET.  Commits may or may not be followed by  *)
(* their invalidation (a Redis error, the death of the process).           *)
(***************************************************************************)
EXTENDS Naturals

CONSTANTS CacheTtl,    \* cache_ttl, in units of time
          Slowness,    \* a call takes at most this long from SELECT to SET
          Calls, NoEntry, NoCall

ASSUME LifetimeAssumption ==
  /\ CacheTtl \in Nat \ {0} /\ Slowness \in Nat
  /\ NoEntry \notin [left : Nat, val : [outdated : BOOLEAN, age : Nat]]

VARIABLES
  entry,  \* the key's entry: the time it has left, and for how long its value
          \* has been outdated
  hold    \* the calls that hold a loaded value: for how long, and for how
          \* long it has been outdated

lifetimeVars == <<entry, hold>>

\* random.randint(0, cache_ttl // 10).
\* Mutant: up to the whole of cache_ttl.
WideJitter == 0..CacheTtl
Jitter == 0..(CacheTtl \div 10)

MaxLife == CacheTtl + CacheTtl \div 10

\* A value is current until a commit outdates it, and then ages.
Current == [outdated |-> FALSE, age |-> 0]
TimedValue == [outdated : BOOLEAN, age : Nat]
Aged(v) == IF v.outdated THEN [v EXCEPT !.age = @ + 1] ELSE v

LifetimeTypeOK ==
  /\ entry \in [left : 1..MaxLife, val : TimedValue] \cup {NoEntry}
  /\ hold \in [Calls -> [held : 0..Slowness, val : TimedValue] \cup {NoCall}]

LifetimeInit == entry = NoEntry /\ hold = [r \in Calls |-> NoCall]

\* GET finds nothing and SELECT finds the present value.
LoadCurrent(r) ==
  /\ entry = NoEntry /\ hold[r] = NoCall
  /\ hold' = [hold EXCEPT ![r] = [held |-> 0, val |-> Current]]
  /\ UNCHANGED entry

\* SET with EX, or a Redis error.
SetEntry(r) ==
  /\ hold[r] # NoCall
  /\ \E j \in Jitter : entry' = [left |-> CacheTtl + j, val |-> hold[r].val]
  /\ hold' = [hold EXCEPT ![r] = NoCall]

SetEntryFails(r) ==
  /\ hold[r] # NoCall
  /\ hold' = [hold EXCEPT ![r] = NoCall]
  /\ UNCHANGED entry

\* A commit that changes the value outdates every copy of it.
Outdate ==
  /\ entry' = IF entry = NoEntry THEN NoEntry ELSE [entry EXCEPT !.val.outdated = TRUE]
  /\ hold' = [r \in Calls |-> IF hold[r] = NoCall THEN NoCall
                              ELSE [hold[r] EXCEPT !.val.outdated = TRUE]]

DropEntry == entry' = NoEntry /\ UNCHANGED hold

\* One unit of time: Redis drops the entry when it has none left.
Tick ==
  /\ \A r \in Calls : hold[r] # NoCall => hold[r].held < Slowness
  /\ entry' = IF entry = NoEntry THEN NoEntry
              ELSE IF entry.left = 1 THEN NoEntry
              ELSE [left |-> entry.left - 1, val |-> Aged(entry.val)]
  /\ hold' = [r \in Calls |-> IF hold[r] = NoCall THEN NoCall
                              ELSE [held |-> hold[r].held + 1, val |-> Aged(hold[r].val)]]

LifetimeNext ==
  \/ \E r \in Calls : LoadCurrent(r) \/ SetEntry(r) \/ SetEntryFails(r)
  \/ Outdate \/ DropEntry \/ Tick

LifetimeSpec == LifetimeInit /\ [][LifetimeNext]_lifetimeVars

-----------------------------------------------------------------------------
\* A value is served for no longer after the commit that outdated it than the
\* longest life of an entry and the time its reader took to put it there, even
\* if every invalidation is lost or comes too early.
StaleBounded == entry # NoEntry => entry.val.age < MaxLife + Slowness
=============================================================================
