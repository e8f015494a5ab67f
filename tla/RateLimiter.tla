---------------------------- MODULE RateLimiter ----------------------------
(***************************************************************************)
(* The sliding windows a request passes before its handler runs:           *)
(* RedisServices.rate_limiter, once for each dependency of the route, or   *)
(* once in GlobalRateLimitMiddleware.  All requests here come from one     *)
(* identity, so that each stage has one sorted set.                        *)
(*                                                                         *)
(* The timestamp is taken before the pipeline is sent, and Redis runs the  *)
(* pipeline (MULTI/EXEC) later: pipelines may run in another order than    *)
(* their timestamps.                                                       *)
(***************************************************************************)
EXTENDS Naturals, FiniteSets

CONSTANTS Last,      \* the number of stages
          Window,    \* window_size of each stage, in units of time
          Count,     \* requests_count of each stage
          Lag,       \* a pipeline runs at most this long after its timestamp
          Horizon,   \* bound on time
          Calls, NoCall, NotYet

Stage == 1..Last

ASSUME LimiterAssumption ==
  /\ Last \in Nat \ {0} /\ Lag \in Nat
  /\ Window \in [Stage -> Nat \ {0}] /\ Count \in [Stage -> Nat]
  /\ NotYet \notin Nat
  /\ NoCall \notin [stage : Stage, ts : Nat \cup {NotYet}]

VARIABLES
  clock,
  zset,    \* each stage's sorted set: the scores, which name the members
  dies,    \* when each sorted set expires
  call,    \* the requests on their way through the stages
  asked,   \* ghost: the timestamps of all pipelines that have run
  passed   \* ghost: the timestamps of those that let their request pass

limiterVars == <<clock, zset, dies, call, asked, passed>>

LimiterTypeOK ==
  /\ clock \in Nat
  /\ zset \in [Stage -> SUBSET Nat] /\ dies \in [Stage -> Nat]
  /\ call \in [Calls -> [stage : Stage, ts : Nat \cup {NotYet}] \cup {NoCall}]
  /\ asked \in [Stage -> SUBSET Nat] /\ passed \in [Stage -> SUBSET Nat]

LimiterInit ==
  /\ clock = 0
  /\ zset = [s \in Stage |-> {}] /\ dies = [s \in Stage |-> 0]
  /\ call = [r \in Calls |-> NoCall]
  /\ asked = [s \in Stage |-> {}] /\ passed = [s \in Stage |-> {}]

Unrecorded == UNCHANGED <<zset, dies, asked, passed>>

\* A request comes in, and the first limiter reads the clock.
Arrive(r) ==
  /\ call[r] = NoCall
  /\ call' = [call EXCEPT ![r] = [stage |-> 1, ts |-> clock]]
  /\ Unrecorded /\ UNCHANGED clock

\* The next one does when the answer of the one before has come.
Stamp(r) ==
  /\ call[r] # NoCall /\ call[r].ts = NotYet
  /\ call' = [call EXCEPT ![r].ts = clock]
  /\ Unrecorded /\ UNCHANGED clock

\* ZADD and ZREMRANGEBYSCORE on what has not expired.
\* Mutant: nothing is removed before the key expires.
NothingOld(s, ts) == {ts} \cup IF clock < dies[s] THEN zset[s] ELSE {}
\* Mutant: what is half a window old is removed.
TooMuchOld(s, ts) == {t \in {ts} \cup zset[s] : t + (Window[s] \div 2) > ts}
Recent(s, ts) ==
  {t \in {ts} \cup (IF clock < dies[s] THEN zset[s] ELSE {}) : t + Window[s] > ts}

\* The pipeline: what is left of the sorted set lives for another window.
Push(r) ==
  /\ call[r] # NoCall /\ call[r].ts # NotYet
  /\ LET s == call[r].stage  ts == call[r].ts IN
       /\ zset' = [zset EXCEPT ![s] = Recent(s, ts)]
       /\ dies' = [dies EXCEPT ![s] = clock + Window[s]]
       /\ asked' = [asked EXCEPT ![s] = @ \cup {ts}]
  /\ UNCHANGED clock

Exceeded(r) == Cardinality(Recent(call[r].stage, call[r].ts)) > Count[call[r].stage]

Reject(r) ==
  /\ Push(r) /\ Exceeded(r)
  /\ call' = [call EXCEPT ![r] = NoCall]
  /\ UNCHANGED passed

Pass(r) ==
  /\ Push(r) /\ ~ Exceeded(r)
  /\ LET s == call[r].stage IN
       /\ passed' = [passed EXCEPT ![s] = @ \cup {call[r].ts}]
       /\ call' = [call EXCEPT ![r] = IF s = Last THEN NoCall
                                      ELSE [stage |-> s + 1, ts |-> NotYet]]

\* The client goes away, or Redis cannot be reached.
GiveUp(r) ==
  /\ call[r] # NoCall
  /\ call' = [call EXCEPT ![r] = NoCall]
  /\ Unrecorded /\ UNCHANGED clock

ClockTick ==
  /\ clock < Horizon
  /\ \A r \in Calls : call[r] # NoCall /\ call[r].ts # NotYet => clock < call[r].ts + Lag
  /\ clock' = clock + 1
  /\ Unrecorded /\ UNCHANGED call

LimiterNext ==
  \/ \E r \in Calls : Arrive(r) \/ Stamp(r) \/ Reject(r) \/ Pass(r) \/ GiveUp(r)
  \/ ClockTick

LimiterSpec == LimiterInit /\ [][LimiterNext]_limiterVars

-----------------------------------------------------------------------------
\* A stage lets no more than requests_count requests of different timestamps
\* pass in any window_size less the time a pipeline may take: a pipeline that
\* runs before one of an earlier timestamp has already removed what that one
\* ought to count.  The windows are those that end at a timestamp that passed.
Within(s, e) == {t \in passed[s] : t <= e /\ e + Lag < t + Window[s]}
LimitHolds == \A s \in Stage : \A e \in passed[s] : Cardinality(Within(s, e)) <= Count[s]

\* A request is refused only if its identity has made more than requests_count
\* requests since a window before it, the refused ones and this one included:
\* whoever waits for a window to pass is let in again, however often he has
\* been refused.
Recorded(s, ts) == {t \in asked'[s] : t + Window[s] > ts}
RefusedForCause ==
  [][\A r \in Calls :
       Reject(r) => Cardinality(Recorded(call[r].stage, call[r].ts)) > Count[call[r].stage]]_limiterVars
=============================================================================
