------------------------ MODULE RequestGuardsProofs ------------------------
(***************************************************************************)
(* The two guards a request passes before its handler runs: the limiter    *)
(* and the check of its access token.                                      *)
(*                                                                         *)
(* The two promises of the limiter hold for every window, count and delay. *)
(* The invariant: the timestamp of a request that passed is in the sorted  *)
(* set, which lives until its window is over, or its window is over        *)
(* already.  So a pipeline that runs later counts every request of the     *)
(* windows its own timestamp falls in.                                     *)
(*                                                                         *)
(* Whoever is let in with a token that was ended is let in at its very end *)
(* only, for every length of a second, of a token's life and of a delay.   *)
(* The invariant follows a token from its commit to its last check: it     *)
(* ends at most Slowness after Life seconds, a ban of it lasts to its last *)
(* second, a ban of its family for all but a second of its life, and a     *)
(* request that found no ban of its token was not revoked by one in time.  *)
(***************************************************************************)
EXTENDS RateLimiter, AccessTokens, FiniteSetTheorems, TLAPS

-----------------------------------------------------------------------------
(* The limiter                                                             *)

\* Timestamps are not of the future, and a pipeline is not late.
Punctual == \A r \in Calls :
  call[r] # NoCall /\ call[r].ts # NotYet => call[r].ts <= clock /\ clock <= call[r].ts + Lag

\* What was recorded is of the past, and what is counted was recorded.
PastOnly == \A s \in Stage :
  /\ asked[s] \subseteq 0..clock
  /\ zset[s] \subseteq asked[s] /\ passed[s] \subseteq asked[s]

\* A request that passed is counted until its window is over.
Counted == \A s \in Stage : \A t \in passed[s] :
  t + Window[s] <= clock \/ (t \in zset[s] /\ t + Window[s] <= dies[s])

LimiterInv == LimiterTypeOK /\ Punctual /\ PastOnly /\ Counted /\ LimitHolds

\* Sets of past timestamps are finite, and so are their subsets.
LEMMA PastIsFinite ==
  ASSUME NEW n \in Nat, NEW S \in SUBSET (0..n)
  PROVE  IsFiniteSet(S) /\ \A T \in SUBSET S : Cardinality(T) <= Cardinality(S)
<1>1. IsFiniteSet(0..n)
  BY FS_Interval
<1>2. IsFiniteSet(S)
  BY <1>1, FS_Subset
<1>. QED BY <1>2, FS_Subset

\* What a pipeline counts are timestamps of the past.
LEMMA RecentIsPast ==
  ASSUME LimiterInv, NEW r \in Calls, call[r] # NoCall, call[r].ts # NotYet
  PROVE  /\ call[r].stage \in Stage /\ call[r].ts \in 0..clock
         /\ Recent(call[r].stage, call[r].ts) \subseteq 0..clock
         /\ Recent(call[r].stage, call[r].ts) \subseteq asked[call[r].stage] \cup {call[r].ts}
<1>1. call[r].stage \in Stage /\ call[r].ts \in 0..clock
  BY DEF LimiterInv, LimiterTypeOK, Punctual
<1>2. Recent(call[r].stage, call[r].ts) \subseteq zset[call[r].stage] \cup {call[r].ts}
  BY DEF Recent
<1>. QED BY <1>1, <1>2 DEF LimiterInv, PastOnly

\* The first state satisfies the invariant.
LEMMA LimiterInitInv == LimiterInit => LimiterInv
  BY LimiterAssumption
  DEF LimiterInit, LimiterInv, LimiterTypeOK, Punctual, PastOnly, Counted, LimitHolds

\* A pipeline records its timestamp and forgets only what no window needs.
LEMMA PushRecords ==
  ASSUME LimiterInv, NEW r \in Calls, Push(r),
         NEW s, s = call[r].stage, NEW ts, ts = call[r].ts
  PROVE  /\ zset' \in [Stage -> SUBSET Nat] /\ dies' \in [Stage -> Nat]
         /\ asked' \in [Stage -> SUBSET Nat]
         /\ ts \in asked'[s] /\ \A u \in Stage : asked[u] \subseteq asked'[u]
         /\ \A u \in Stage : asked'[u] \subseteq 0..clock /\ zset'[u] \subseteq asked'[u]
         /\ \A u \in Stage : \A t \in passed[u] :
              t + Window[u] <= clock \/ (t \in zset'[u] /\ t + Window[u] <= dies'[u])
         /\ ts \in zset'[s] /\ ts + Window[s] <= dies'[s]
<1> USE LimiterAssumption DEF LimiterInv, LimiterTypeOK, PastOnly, Counted
<1>1. /\ s \in Stage /\ ts \in 0..clock /\ clock \in Nat
      /\ Recent(s, ts) \subseteq 0..clock /\ Recent(s, ts) \subseteq asked[s] \cup {ts}
  BY RecentIsPast DEF Push
<1>2. /\ zset' = [zset EXCEPT ![s] = Recent(s, ts)]
      /\ dies' = [dies EXCEPT ![s] = clock + Window[s]]
      /\ asked' = [asked EXCEPT ![s] = @ \cup {ts}]
  BY DEF Push
<1>3. \A t \in passed[s] : t + Window[s] <= clock \/ t \in Recent(s, ts)
  BY <1>1 DEF Recent
<1>4. ts \in Recent(s, ts)
  BY <1>1 DEF Recent
<1>5. /\ zset' \in [Stage -> SUBSET Nat] /\ dies' \in [Stage -> Nat]
      /\ asked' \in [Stage -> SUBSET Nat]
  BY <1>1, <1>2
<1>6. /\ ts \in asked'[s] /\ \A u \in Stage : asked[u] \subseteq asked'[u]
      /\ \A u \in Stage : asked'[u] \subseteq 0..clock /\ zset'[u] \subseteq asked'[u]
  BY <1>1, <1>2
<1>7. ASSUME NEW u \in Stage, NEW t \in passed[u]
      PROVE  t + Window[u] <= clock \/ (t \in zset'[u] /\ t + Window[u] <= dies'[u])
  <2>1. t \in 0..clock
    OBVIOUS
  <2>2. CASE u = s
    BY <1>1, <1>2, <1>3, <2>1, <2>2
  <2>3. CASE u # s
    BY <1>1, <1>2, <2>3
  <2>. QED BY <2>2, <2>3
<1>. QED BY <1>1, <1>2, <1>4, <1>5, <1>6, <1>7

\* A request that the limiter lets pass exceeds no window: those that end
\* before it do not change, and those that end at it or later lie in what
\* its pipeline counted.
LEMMA PassKeepsLimit ==
  ASSUME LimiterInv, NEW r \in Calls, Pass(r)
  PROVE  LimitHolds'
<1> DEFINE s == call[r].stage  ts == call[r].ts
<1> USE LimiterAssumption DEF LimiterInv, LimiterTypeOK, PastOnly
<1>1. /\ s \in Stage /\ ts \in 0..clock /\ clock \in Nat /\ clock <= ts + Lag
      /\ Recent(s, ts) \subseteq 0..clock
  BY RecentIsPast DEF Pass, Push, Punctual
<1>2. passed' = [passed EXCEPT ![s] = @ \cup {ts}]
  BY DEF Pass
<1>3. Cardinality(Recent(s, ts)) \in Nat /\ Cardinality(Recent(s, ts)) <= Count[s]
  <2>1. IsFiniteSet(Recent(s, ts))
    BY <1>1, PastIsFinite
  <2>2. Cardinality(Recent(s, ts)) \in Nat /\ Count[s] \in Nat
    BY <1>1, <2>1, FS_CardinalityType
  <2>. QED BY <2>2 DEF Pass, Exceeded
<1> SUFFICES ASSUME NEW u \in Stage, NEW e \in passed'[u]
             PROVE  Cardinality(Within(u, e)') <= Count[u]
  BY DEF LimitHolds
<1>4. CASE u # s \/ (u = s /\ e < ts)
  <2>1. e \in passed[u] /\ e \in Nat
    BY <1>1, <1>2, <1>4
  <2>2. Within(u, e)' = Within(u, e)
    BY <1>1, <1>2, <1>4, <2>1 DEF Within
  <2>. QED BY <2>1, <2>2 DEF LimitHolds
<1>5. CASE u = s /\ ts <= e
  <2>1. e \in 0..clock
    BY <1>1, <1>2, <1>5
  <2>2. ASSUME NEW t \in Within(u, e)' PROVE t \in Recent(s, ts)
    <3>1. t \in passed[s] \cup {ts} /\ t \in 0..clock /\ clock < t + Window[s]
      BY <1>1, <1>2, <1>5, <2>1 DEF Within
    <3>2. CASE t = ts
      BY <1>1, <3>1, <3>2 DEF Recent
    <3>3. CASE t \in passed[s]
      <4>1. t \in zset[s] /\ t + Window[s] <= dies[s]
        BY <1>1, <3>1, <3>3 DEF Counted
      <4>. QED BY <1>1, <3>1, <4>1 DEF Recent
    <3>. QED BY <3>1, <3>2, <3>3
  <2>3. Within(u, e)' \in SUBSET Recent(s, ts)
    BY <2>2
  <2>4. Cardinality(Within(u, e)') <= Cardinality(Recent(s, ts))
    BY <1>1, <2>3, PastIsFinite
  <2>5. Cardinality(Within(u, e)') \in Nat
    <3>1. IsFiniteSet(Recent(s, ts))
      BY <1>1, PastIsFinite
    <3>. QED BY <2>3, <3>1, FS_Subset, FS_CardinalityType
  <2>. QED BY <1>1, <1>3, <1>5, <2>4, <2>5
<1>6. u = s => e \in Nat
  BY <1>1, <1>2
<1>. QED BY <1>1, <1>4, <1>5, <1>6

\* Every step keeps the invariant.
LEMMA LimiterNextInv == LimiterInv /\ [LimiterNext]_limiterVars => LimiterInv'
<1> SUFFICES ASSUME LimiterInv, [LimiterNext]_limiterVars PROVE LimiterInv'
  OBVIOUS
<1> USE LimiterAssumption
<1>1. ASSUME NEW r \in Calls, Arrive(r) PROVE LimiterInv'
  <2>1. LimiterTypeOK' /\ Punctual'
    BY <1>1 DEF Arrive, Unrecorded, LimiterInv, LimiterTypeOK, Punctual, Stage
  <2>. QED BY <1>1, <2>1 DEF Arrive, Unrecorded, LimiterInv, PastOnly, Counted, LimitHolds, Within
<1>2. ASSUME NEW r \in Calls, Stamp(r) PROVE LimiterInv'
  <2>1. call' = [call EXCEPT ![r] = [stage |-> call[r].stage, ts |-> clock]]
    <3>1. call[r] \in [stage : Stage, ts : Nat \cup {NotYet}]
      BY <1>2 DEF Stamp, LimiterInv, LimiterTypeOK
    <3>2. [call[r] EXCEPT !.ts = clock] = [stage |-> call[r].stage, ts |-> clock]
      BY <3>1
    <3>3. call' = [call EXCEPT ![r] = [call[r] EXCEPT !.ts = clock]]
      BY <1>2 DEF Stamp
    <3>. QED BY <3>2, <3>3
  <2>2. LimiterTypeOK' /\ Punctual'
    BY <1>2, <2>1 DEF Stamp, Unrecorded, LimiterInv, LimiterTypeOK, Punctual
  <2>. QED BY <1>2, <2>2 DEF Stamp, Unrecorded, LimiterInv, PastOnly, Counted, LimitHolds, Within
<1>3. ASSUME NEW r \in Calls, Reject(r) PROVE LimiterInv'
  <2>1. Push(r) /\ call' = [call EXCEPT ![r] = NoCall] /\ passed' = passed /\ clock' = clock
    BY <1>3 DEF Reject, Push
  <2>2. LimiterTypeOK' /\ Punctual'
    BY <2>1, PushRecords DEF LimiterInv, LimiterTypeOK, Punctual
  <2>3. PastOnly'
    BY <2>1, PushRecords DEF LimiterInv, PastOnly, LimiterTypeOK
  <2>4. Counted'
    BY <2>1, PushRecords DEF Counted
  <2>5. LimitHolds'
    BY <2>1 DEF LimiterInv, LimitHolds, Within
  <2>. QED BY <2>2, <2>3, <2>4, <2>5 DEF LimiterInv
<1>4. ASSUME NEW r \in Calls, Pass(r) PROVE LimiterInv'
  <2> DEFINE s == call[r].stage  ts == call[r].ts
  <2>1. /\ Push(r) /\ clock' = clock /\ passed' = [passed EXCEPT ![s] = @ \cup {ts}]
        /\ call' = [call EXCEPT ![r] = IF s = Last THEN NoCall
                                     ELSE [stage |-> s + 1, ts |-> NotYet]]
    BY <1>4 DEF Pass, Push
  <2>2. s \in Stage /\ ts \in 0..clock /\ (s # Last => s + 1 \in Stage) /\ clock \in Nat
    <3>1. s \in Stage /\ ts \in 0..clock
      BY <2>1, RecentIsPast DEF Push
    <3>2. Last \in Nat /\ s \in 1..Last
      BY <3>1 DEF Stage
    <3>3. s # Last => s + 1 \in 1..Last
      BY ONLY <3>2
    <3>4. clock \in Nat
      BY DEF LimiterInv, LimiterTypeOK
    <3>. QED BY <3>1, <3>3, <3>4 DEF Stage
  <2>3. passed' \in [Stage -> SUBSET Nat]
    BY <2>1, <2>2 DEF LimiterInv, LimiterTypeOK
  <2>4. LimiterTypeOK' /\ Punctual'
    BY <2>1, <2>2, <2>3, PushRecords DEF LimiterInv, LimiterTypeOK, Punctual
  <2>5. PastOnly'
    BY <2>1, <2>2, PushRecords DEF LimiterInv, PastOnly, LimiterTypeOK
  <2>6. Counted'
    BY <2>1, <2>2, PushRecords DEF Counted, LimiterInv, LimiterTypeOK
  <2>7. LimitHolds'
    BY <1>4, PassKeepsLimit
  <2>. QED BY <2>4, <2>5, <2>6, <2>7 DEF LimiterInv
<1>5. ASSUME NEW r \in Calls, GiveUp(r) PROVE LimiterInv'
  BY <1>5 DEF GiveUp, Unrecorded, LimiterInv, LimiterTypeOK, Punctual, PastOnly, Counted,
     LimitHolds, Within
<1>6. CASE ClockTick
  <2>1. LimiterTypeOK' /\ Punctual'
    BY <1>6 DEF ClockTick, Unrecorded, LimiterInv, LimiterTypeOK, Punctual
  <2>2. PastOnly' /\ Counted'
    BY <1>6 DEF ClockTick, Unrecorded, LimiterInv, LimiterTypeOK, PastOnly, Counted
  <2>3. LimitHolds'
    BY <1>6 DEF ClockTick, Unrecorded, LimiterInv, LimitHolds, Within
  <2>. QED BY <2>1, <2>2, <2>3 DEF LimiterInv
<1>7. CASE UNCHANGED limiterVars
  BY <1>7 DEF limiterVars, LimiterInv, LimiterTypeOK, Punctual, PastOnly, Counted, LimitHolds, Within
<1>. QED BY <1>1, <1>2, <1>3, <1>4, <1>5, <1>6, <1>7 DEF LimiterNext

\* What is recorded, what is counted and who passed stay in step.
THEOREM LimiterInvariant == LimiterSpec => []LimiterInv
  BY LimiterInitInv, LimiterNextInv, PTL DEF LimiterSpec

\* No window sees more requests pass than the limit, whatever the order in
\* which their pipelines run: RedisServices.rate_limiter.
THEOREM LimitAlwaysHolds == LimiterSpec => []LimitHolds
  BY LimiterInvariant, PTL DEF LimiterInv

\* A refusal is earned by requests of the window before it.
THEOREM RefusalsHaveCause == LimiterSpec => RefusedForCause
<1>1. ASSUME LimiterInv, NEW r \in Calls, Reject(r)
      PROVE  Cardinality(Recorded(call[r].stage, call[r].ts)) > Count[call[r].stage]
  <2> DEFINE s == call[r].stage  ts == call[r].ts
  <2>1. /\ s \in Stage /\ ts \in 0..clock /\ clock \in Nat
        /\ Recent(s, ts) \subseteq asked[s] \cup {ts} /\ asked' = [asked EXCEPT ![s] = @ \cup {ts}]
        /\ Cardinality(Recent(s, ts)) > Count[s] /\ Count[s] \in Nat
    BY <1>1, RecentIsPast, LimiterAssumption DEF Reject, Exceeded, Push, LimiterInv, LimiterTypeOK
  <2>2. Recorded(s, ts) \in SUBSET (0..clock) /\ Recent(s, ts) \in SUBSET Recorded(s, ts)
    BY <1>1, <2>1 DEF Recorded, Recent, LimiterInv, LimiterTypeOK, PastOnly
  <2>3. /\ IsFiniteSet(Recorded(s, ts))
        /\ Cardinality(Recent(s, ts)) <= Cardinality(Recorded(s, ts))
    BY <2>1, <2>2, PastIsFinite
  <2>4. Cardinality(Recent(s, ts)) \in Nat /\ Cardinality(Recorded(s, ts)) \in Nat
    BY <2>2, <2>3, FS_Subset, FS_CardinalityType
  <2>. QED BY <2>1, <2>3, <2>4
<1>2. LimiterInv /\ [LimiterNext]_limiterVars =>
      [\A r \in Calls : Reject(r) => Cardinality(Recorded(call[r].stage, call[r].ts))
                                      > Count[call[r].stage]]_limiterVars
  BY <1>1
<1>. QED BY LimiterInvariant, <1>2, PTL DEF LimiterSpec, RefusedForCause

-----------------------------------------------------------------------------
(* The access tokens                                                       *)

\* The moment a token ends, and whether less than a second is left to it.
End(t) == tok[t].exp * Second
Ending(t) == End(t) < now + Second

\* A token ends Life seconds after its commit, or a little later.
Dated == \A t \in Issued :
  tok[t].since <= now /\ End(t) <= tok[t].since + Slowness + Life * Second

\* A banned token stays banned until it is ending.
BanLasts == \A t \in Tokens :
  out[t] # -1 => t \in Issued /\ (End(t) < until[t] + Second \/ Ending(t))

\* A family stays banned for all but a second of a token's life.
Covered(f) == out[f] + (Life - 1) * Second
FamilyBanLasts == \A f \in Families :
  out[f] # -1 => out[f] <= now /\ (Covered(f) <= until[f] \/ Covered(f) <= now)

\* What a request may rely on between two of its steps.
IssueFits(q) == q.since <= now /\ now <= q.since + Slowness
BanFits(q) ==
  /\ q.key \in Tokens => q.key \in Issued /\ End(q.key) < now + q.ttl * Second + Second
  /\ q.key \in Families => Life - 1 <= q.ttl
UseFits(q) ==
  /\ q.tok \in Issued /\ (q.revoked => Revoked(q.tok))
  /\ q.at = "family" /\ q.revoked =>
       Ending(q.tok) \/ tok[q.tok].since <= out[tok[q.tok].fam]
Fits(q) ==
  /\ q.op = "issue" => IssueFits(q)
  /\ q.op = "ban" => BanFits(q)
  /\ q.op = "use" => UseFits(q)
InFlight == \A r \in Reqs : req[r] # Idle => Fits(req[r])

Inv == TypeOK /\ Dated /\ BanLasts /\ FamilyBanLasts /\ InFlight

-----------------------------------------------------------------------------
(* Arithmetic                                                              *)

\* Seconds are added in ticks.
LEMMA Seconds ==
  ASSUME NEW a \in Int, NEW b \in Int, NEW s \in Int
  PROVE  (a + b) * s = a * s + b * s /\ a * s \in Int
OBVIOUS

\* More seconds are more ticks.
LEMMA MoreSeconds ==
  ASSUME NEW a \in Int, NEW b \in Int, NEW s \in Nat, a <= b
  PROVE  a * s <= b * s
OBVIOUS

\* What int() drops is less than a second.
LEMMA Truncated ==
  ASSUME NEW x \in Int, NEW s \in Nat \ {0}
  PROVE  /\ x \div s \in Int /\ (x \div s) * s \in Int
         /\ (x \div s) * s <= x /\ x < (x \div s) * s + s
<1>1. x \div s \in Int
  OBVIOUS
<1> QED
  BY <1>1, SMT

\* The terms of the invariant are numbers.
LEMMA Numbers ==
  ASSUME TypeOK
  PROVE  /\ now \in Nat /\ Second \in Nat \ {0} /\ Life * Second \in Int /\ Slowness \in Nat
         /\ \A t \in Issued : /\ End(t) \in Int /\ tok[t] \in Token /\ tok[t].since \in Nat
                              /\ tok[t].exp \in Nat /\ tok[t].fam \in Families
         /\ \A f \in Families : out[f] \in Int /\ until[f] \in Nat /\ Covered(f) \in Int
         /\ \A t \in Tokens : out[t] \in Int /\ until[t] \in Nat
<1>1. /\ Second \in Nat \ {0} /\ Life \in Nat /\ Slowness \in Nat /\ now \in Nat
  BY BanAssumption DEF TypeOK
<1>2. Life * Second \in Int /\ (Life - 1) * Second \in Int
  <2>1. Life \in Int /\ Life - 1 \in Int /\ Second \in Int
    BY <1>1
  <2> QED
    BY <2>1, Seconds
<1>3. ASSUME NEW t \in Issued
      PROVE  /\ End(t) \in Int /\ tok[t] \in Token /\ tok[t].since \in Nat
             /\ tok[t].exp \in Nat /\ tok[t].fam \in Families
  <2>1. tok[t] \in Token
    BY <1>3 DEF TypeOK, Issued
  <2>2. tok[t].exp \in Int /\ Second \in Int
    BY <1>1, <2>1 DEF Token
  <2>3. End(t) \in Int
    BY <2>2, Seconds DEF End
  <2> QED
    BY <2>1, <2>3 DEF Token
<1>4. /\ \A f \in Families : out[f] \in Int /\ until[f] \in Nat
      /\ \A t \in Tokens : out[t] \in Int /\ until[t] \in Nat
  BY DEF TypeOK, Keys
<1> QED
  BY <1>1, <1>2, <1>3, <1>4 DEF Covered

-----------------------------------------------------------------------------
(* The steps                                                               *)

\* Nothing is issued, banned or in flight at first.
LEMMA InitInv == Init => Inv
<1> SUFFICES ASSUME Init PROVE Inv
  OBVIOUS
<1>1. TypeOK
  BY DEF Init, TypeOK
<1>2. Issued = {} /\ \A k \in Keys : out[k] = -1
  BY DEF Init, Issued
<1> QED
  BY <1>1, <1>2 DEF Inv, Dated, BanLasts, FamilyBanLasts, InFlight, Keys, Init

\* A request that goes on to something that fits disturbs nothing.
LEMMA RequestMoves ==
  ASSUME Inv, NEW r \in Reqs, NEW q, q = Idle \/ (q \in Request /\ Fits(q)),
         req' = [req EXCEPT ![r] = q], UNCHANGED <<now, tok, until, out>>
  PROVE  Inv'
<1>1. TypeOK'
  BY DEF Inv, TypeOK
<1>2. Dated' /\ BanLasts' /\ FamilyBanLasts'
  BY DEF Inv, Dated, BanLasts, FamilyBanLasts, Issued, End, Ending, Covered
<1>3. ASSUME NEW s \in Reqs, req'[s] # Idle PROVE Fits(req'[s])
  BY <1>3 DEF Inv, InFlight, TypeOK
<1>4. InFlight'
  BY <1>3 DEF InFlight, Fits, IssueFits, BanFits, UseFits, Issued, End, Ending, Revoked
<1> QED
  BY <1>1, <1>2, <1>4 DEF Inv

\* A token gets its end from the clock, which is close to its commit.
LEMMA IssueInv ==
  ASSUME Inv, NEW r \in Reqs, NEW t \in Tokens, Issue(r, t)
  PROVE  Inv'
<1> DEFINE new == [fam |-> req[r].fam, since |-> req[r].since, exp |-> (now \div Second) + Life]
<1>1. /\ req[r] \in [op : {"issue"}, fam : Families, since : Nat]
      /\ req[r].since <= now /\ now <= req[r].since + Slowness
      /\ t \notin Issued /\ tok' = [tok EXCEPT ![t] = new] /\ req' = [req EXCEPT ![r] = Idle]
      /\ UNCHANGED <<now, until, out>>
  BY DEF Issue, Is, Inv, TypeOK, InFlight, Fits, IssueFits, Request, Finish
<1>2. /\ now \in Nat /\ Second \in Nat \ {0} /\ Life \in Nat /\ Slowness \in Nat
      /\ Life * Second \in Int
  BY Numbers, BanAssumption DEF Inv
<1>3. /\ now \div Second \in Int /\ (now \div Second) * Second \in Int
      /\ (now \div Second) * Second <= now
  BY <1>2, Truncated
<1>4. new.exp \in Nat
  BY <1>2, SMT
<1>5. new.exp * Second <= req[r].since + Slowness + Life * Second
  <2>1. new.exp * Second = (now \div Second) * Second + Life * Second
    BY <1>2, <1>3, Seconds
  <2> QED
    BY <1>1, <1>2, <1>3, <2>1
<1>6. new \in Token /\ new # NoToken
  BY <1>1, <1>4, NoTokenAssumption DEF Token
<1>7. TypeOK'
  BY <1>1, <1>6 DEF Inv, TypeOK
<1>8. Issued' = Issued \cup {t} /\ \A u \in Issued : tok'[u] = tok[u]
  BY <1>1, <1>6 DEF Issued, Inv, TypeOK
<1>9. tok'[t] = new
  BY <1>1 DEF Inv, TypeOK
<1>10. Dated'
  BY <1>1, <1>5, <1>8, <1>9 DEF Inv, Dated, End
<1>11. BanLasts' /\ FamilyBanLasts'
  BY <1>1, <1>8 DEF Inv, BanLasts, FamilyBanLasts, End, Ending, Covered
<1>12. ASSUME NEW s \in Reqs, req'[s] # Idle PROVE Fits(req[s])'
  <2>1. req'[s] = req[s] /\ Fits(req[s])
    BY <1>1, <1>12 DEF Inv, InFlight, TypeOK
  <2> QED
    BY <1>1, <1>8, <2>1 DEF Fits, IssueFits, BanFits, UseFits, End, Ending, Revoked
<1> QED
  BY <1>7, <1>10, <1>11, <1>12 DEF Inv, InFlight

\* A ban is computed from a clock that goes on before it is set.
LEMMA BanInv ==
  ASSUME Inv, NEW r \in Reqs,
         (\E t \in Tokens : BanToken(r, t)) \/ (\E f \in Families : BanFamily(r, f))
  PROVE  Inv'
<1>1. ASSUME NEW t \in Tokens, BanToken(r, t) PROVE Inv'
  <2> DEFINE q == [op |-> "ban", key |-> t, ttl |-> TokenTtl(t)]
  <2>1. /\ t \in Issued /\ req' = [req EXCEPT ![r] = q] /\ UNCHANGED <<now, tok, until, out>>
    BY <1>1 DEF BanToken, Start
  <2>2. End(t) \in Int /\ now \in Nat /\ Second \in Nat \ {0}
    BY <2>1, Numbers DEF Inv
  <2>3. End(t) - now \in Int
    BY <2>2
  <2>4. TokenTtl(t) \in Int /\ TokenTtl(t) * Second \in Int
        /\ End(t) - now < TokenTtl(t) * Second + Second
    BY <2>2, <2>3, Truncated DEF TokenTtl, End
  <2>5. q \in Request
    BY <2>4 DEF Request, Keys
  <2>6. End(t) < now + TokenTtl(t) * Second + Second
    BY <2>2, <2>4
  <2>7. Fits(q)
    BY <2>1, <2>6, BanAssumption DEF Fits, BanFits
  <2> QED
    BY <2>1, <2>5, <2>7, RequestMoves
<1>2. ASSUME NEW f \in Families, BanFamily(r, f) PROVE Inv'
  <2>1. PICK ttl \in {FamilyBan - 1, FamilyBan} :
          Start(r, [op |-> "ban", key |-> f, ttl |-> ttl])
    BY <1>2 DEF BanFamily
  <2> DEFINE q == [op |-> "ban", key |-> f, ttl |-> ttl]
  <2>2. ttl \in Int /\ Life - 1 <= ttl
    BY BanAssumption
  <2>3. q \in Request /\ Fits(q)
    BY <2>2, BanAssumption DEF Request, Keys, Fits, BanFits
  <2> QED
    BY <1>2, <2>1, <2>3, RequestMoves DEF BanFamily, Start
<1> QED
  BY <1>1, <1>2

\* A ban that is set lasts as long as was computed, from a later moment on.
LEMMA SetBanInv ==
  ASSUME Inv, NEW r \in Reqs, SetBan(r)
  PROVE  Inv'
<1> DEFINE k == req[r].key  ttl == req[r].ttl
<1>1. /\ req[r] \in [op : {"ban"}, key : Keys, ttl : Int] /\ BanFits(req[r])
      /\ req' = [req EXCEPT ![r] = Idle] /\ UNCHANGED <<now, tok>>
  BY DEF SetBan, Is, Inv, TypeOK, InFlight, Fits, Request, Finish
<1>2. /\ k \in Keys /\ ttl \in Int /\ out' = [out EXCEPT ![k] = now]
      /\ until' = IF ttl <= 0 THEN until ELSE [until EXCEPT ![k] = now + ttl * Second]
  BY <1>1 DEF SetBan
<1>3. now \in Nat /\ Second \in Nat \ {0} /\ Life \in Nat
  BY Numbers, BanAssumption DEF Inv
<1>4. /\ ttl * Second \in Int /\ (ttl <= 0 => ttl * Second <= 0)
      /\ (0 <= ttl => 0 <= ttl * Second)
  <2>1. Second \in Int /\ 0 * Second = 0
    BY <1>3
  <2> QED
    BY <1>2, <1>3, <2>1, Seconds, MoreSeconds
<1>5. TypeOK'
  <2>1. ~ ttl <= 0 => now + ttl * Second \in Nat
    BY <1>2, <1>3, <1>4
  <2> QED
    BY <1>1, <1>2, <1>3, <2>1 DEF Inv, TypeOK
<1>6. /\ out'[k] = now /\ \A x \in Keys \ {k} : out'[x] = out[x] /\ until'[x] = until[x]
      /\ ttl <= 0 \/ until'[k] = now + ttl * Second
  BY <1>2 DEF Inv, TypeOK
<1>7. Issued' = Issued
  BY <1>1 DEF Issued
<1>8. Dated'
  BY <1>1, <1>7 DEF Inv, Dated, End
<1>9. ASSUME NEW t \in Tokens, out'[t] # -1
      PROVE  t \in Issued /\ (End(t) < until'[t] + Second \/ Ending(t))
  <2>1. CASE t = k
    <3>1. t \in Issued /\ End(t) < now + ttl * Second + Second
      BY <1>1, <2>1 DEF BanFits
    <3>2. End(t) \in Int
      BY <3>1, Numbers DEF Inv
    <3> QED
      BY <1>3, <1>4, <1>6, <2>1, <3>1, <3>2 DEF Ending
  <2>2. CASE t # k
    BY <1>6, <1>9, <2>2 DEF Keys, Inv, BanLasts
  <2> QED
    BY <2>1, <2>2
<1>10. ASSUME NEW f \in Families, out'[f] # -1
       PROVE  out'[f] <= now /\ (Covered(f)' <= until'[f] \/ Covered(f)' <= now)
  <2>1. CASE f = k
    <3>1. Life - 1 <= ttl
      BY <1>1, <2>1 DEF BanFits
    <3>2. (Life - 1) * Second <= ttl * Second /\ (Life - 1) * Second \in Int
      <4>1. Life - 1 \in Int /\ Second \in Int
        BY <1>3
      <4> QED
        BY <1>2, <1>3, <3>1, <4>1, MoreSeconds, Seconds
    <3>3. Covered(f)' = now + (Life - 1) * Second
      BY <1>6, <2>1 DEF Covered
    <3> QED
      BY <1>3, <1>4, <1>6, <2>1, <3>2, <3>3
  <2>2. CASE f # k
    BY <1>1, <1>6, <1>10, <2>2 DEF Keys, Inv, FamilyBanLasts, Covered
  <2> QED
    BY <2>1, <2>2
<1>11. \A x \in Keys : (out[x] # -1 => out'[x] # -1)
  BY <1>3, <1>6
<1>12. \A f \in Families : out[f] <= out'[f]
  <2>1. \A f \in Families : out[f] <= now /\ out[f] \in Int
    BY <1>3, Numbers DEF Inv, FamilyBanLasts
  <2> QED
    BY <1>3, <1>6, <2>1 DEF Keys
<1>13. ASSUME NEW s \in Reqs, req'[s] # Idle PROVE Fits(req[s])'
  <2>1. req'[s] = req[s] /\ Fits(req[s]) /\ req[s] \in Request
    BY <1>1, <1>13 DEF Inv, InFlight, TypeOK
  <2>2. ASSUME NEW t \in Issued, tok[t].since <= out[tok[t].fam]
        PROVE  tok[t].since <= out'[tok[t].fam]
    <3>1. tok[t].fam \in Families /\ tok[t].since \in Nat
      BY Numbers DEF Inv
    <3>2. out[tok[t].fam] \in Int /\ out'[tok[t].fam] \in Int
      BY <1>5, <3>1 DEF Inv, TypeOK, Keys
    <3> QED
      BY <1>12, <2>2, <3>1, <3>2
  <2>3. ASSUME req[s].op = "use" PROVE UseFits(req[s])'
    <3>1. UseFits(req[s]) /\ req[s].tok \in Tokens
      BY <2>1, <2>3 DEF Fits, UseFits, Issued
    <3> QED
      BY <1>1, <1>7, <1>11, <2>1, <2>2, <3>1 DEF UseFits, Revoked, End, Ending, Keys
  <2>4. (req[s].op = "issue" => IssueFits(req[s])') /\ (req[s].op = "ban" => BanFits(req[s])')
    BY <1>1, <1>7, <2>1 DEF Fits, IssueFits, BanFits, End
  <2> QED
    BY <2>1, <2>3, <2>4 DEF Fits
<1> QED
  BY <1>1, <1>5, <1>7, <1>8, <1>9, <1>10, <1>13
  DEF Inv, BanLasts, FamilyBanLasts, InFlight, End, Ending

\* The steps of a request that presents a token.
LEMMA UseInv ==
  ASSUME Inv, NEW r \in Reqs,
         \/ \E t \in Tokens : Present(r, t)
         \/ DecodeEarly(r) \/ CheckToken(r) \/ Decode(r) \/ CheckFamily(r)
  PROVE  Inv'
<1>1. ASSUME NEW t \in Tokens, Present(r, t) PROVE Inv'
  <2> DEFINE q == [op |-> "use", at |-> "start", tok |-> t, decoded |-> FALSE,
                   revoked |-> Revoked(t)]
  <2>1. t \in Issued /\ req' = [req EXCEPT ![r] = q] /\ UNCHANGED <<now, tok, until, out>>
    BY <1>1 DEF Present, Start
  <2>2. Revoked(t) \in BOOLEAN
    BY DEF Revoked
  <2>3. q \in Request
    BY <2>2 DEF Request
  <2>4. Fits(q)
    BY <2>1 DEF Fits, UseFits
  <2> QED
    BY <2>1, <2>3, <2>4, RequestMoves
<1>2. CASE Is(r, "use")
  <2>1. /\ req[r] \in [op : {"use"}, at : {"start", "family"}, tok : Tokens,
                       decoded : BOOLEAN, revoked : BOOLEAN]
        /\ UseFits(req[r])
    BY <1>2 DEF Is, Inv, TypeOK, InFlight, Fits, Request
  <2>2. ASSUME req' = [req EXCEPT ![r].decoded = TRUE], UNCHANGED <<now, tok, until, out>>
        PROVE  Inv'
    <3> DEFINE q == [req[r] EXCEPT !.decoded = TRUE]
    <3>1. req' = [req EXCEPT ![r] = q]
      BY <2>2
    <3>2. /\ q \in Request /\ q.op = "use" /\ q.tok = req[r].tok /\ q.at = req[r].at
          /\ q.revoked = req[r].revoked
      BY <2>1 DEF Request
    <3>3. Fits(q)
      BY <2>1, <3>2 DEF Fits, UseFits
    <3> QED
      BY <2>2, <3>1, <3>2, <3>3, RequestMoves
  <2>3. ASSUME Finish(r), UNCHANGED <<now, tok, until, out>> PROVE Inv'
    BY <2>3, RequestMoves DEF Finish
  <2>4. ASSUME ~ Banned(req[r].tok), req' = [req EXCEPT ![r].at = "family"],
               UNCHANGED <<now, tok, until, out>>
        PROVE  Inv'
    <3> DEFINE q == [req[r] EXCEPT !.at = "family"]  t == req[r].tok
    <3>1. req' = [req EXCEPT ![r] = q]
      BY <2>4
    <3>2. /\ q \in Request /\ q.op = "use" /\ q.tok = t /\ q.at = "family"
          /\ q.revoked = req[r].revoked
      BY <2>1 DEF Request
    <3>3. t \in Issued /\ t \in Tokens
      BY <2>1 DEF UseFits
    <3>4. out[t] # -1 => Ending(t)
      <4>1. End(t) \in Int /\ now \in Nat /\ Second \in Nat /\ until[t] \in Nat
        BY <3>3, Numbers DEF Inv
      <4>2. until[t] <= now
        BY <2>4, <4>1 DEF Banned
      <4> QED
        BY <3>3, <4>1, <4>2 DEF Inv, BanLasts, Ending
    <3>5. Fits(q)
      BY <2>1, <3>2, <3>3, <3>4 DEF Fits, UseFits, Revoked
    <3> QED
      BY <2>4, <3>1, <3>2, <3>5, RequestMoves
  <2> QED
    BY <1>1, <2>2, <2>3, <2>4 DEF DecodeEarly, CheckToken, Decode, CheckFamily
<1> QED
  BY <1>1, <1>2 DEF DecodeEarly, CheckToken, Decode, CheckFamily

\* The clock goes on, unless that would make an issue later than it may be.
LEMMA TickInv ==
  ASSUME Inv, Tick
  PROVE  Inv'
<1>1. now' = now + 1 /\ UNCHANGED <<tok, until, out, req>> /\ now \in Nat
  BY DEF Tick, Inv, TypeOK
<1>2. TypeOK'
  BY <1>1 DEF Inv, TypeOK
<1>3. Issued' = Issued /\ \A t \in Issued : End(t) \in Int /\ tok[t].since \in Nat
  BY <1>1, Numbers DEF Inv, Issued
<1>4. /\ Second \in Nat /\ Slowness \in Nat
      /\ \A f \in Families : out[f] \in Int /\ Covered(f) \in Int
  BY Numbers DEF Inv
<1>5. \A t \in Issued : End(t)' = End(t) /\ (Ending(t) => Ending(t)')
  BY <1>1, <1>3, <1>4 DEF End, Ending
<1>6. Dated'
  BY <1>1, <1>3, <1>5 DEF Inv, Dated
<1>7. BanLasts'
  BY <1>1, <1>3, <1>5 DEF Inv, BanLasts
<1>8. FamilyBanLasts'
  <2>1. \A f \in Families : Covered(f)' = Covered(f)
    BY <1>1 DEF Covered
  <2> QED
    BY <1>1, <1>4, <2>1 DEF Inv, FamilyBanLasts
<1>9. ASSUME NEW s \in Reqs, req[s] # Idle PROVE Fits(req[s])'
  <2>1. Fits(req[s]) /\ req[s] \in Request
    BY <1>9 DEF Inv, InFlight, TypeOK
  <2>2. ASSUME req[s].op = "issue" PROVE IssueFits(req[s])'
    <3>1. req[s].since \in Nat /\ now < req[s].since + Slowness /\ req[s].since <= now
      BY <1>9, <2>1, <2>2 DEF Tick, Is, Request, Fits, IssueFits
    <3> QED
      BY <1>1, <1>4, <3>1 DEF IssueFits
  <2>3. ASSUME req[s].op = "ban" PROVE BanFits(req[s])'
    <3>1. req[s].ttl \in Int /\ BanFits(req[s])
      BY <2>1, <2>3 DEF Request, Fits
    <3>2. req[s].ttl * Second \in Int
      BY <1>4, <3>1, Seconds
    <3> QED
      BY <1>1, <1>3, <1>4, <1>5, <3>1, <3>2 DEF BanFits
  <2>4. ASSUME req[s].op = "use" PROVE UseFits(req[s])'
    BY <1>1, <1>3, <1>5, <2>1, <2>4 DEF Fits, UseFits, Revoked
  <2> QED
    BY <1>1, <2>2, <2>3, <2>4 DEF Fits
<1> QED
  BY <1>1, <1>2, <1>6, <1>7, <1>8, <1>9 DEF Inv, InFlight

\* Every step keeps the invariant.
LEMMA NextInv == Inv /\ [Next]_vars => Inv'
<1> SUFFICES ASSUME Inv, [Next]_vars PROVE Inv'
  OBVIOUS
<1>1. ASSUME NEW r \in Reqs, NEW f \in Families, Commit(r, f) PROVE Inv'
  <2> DEFINE q == [op |-> "issue", fam |-> f, since |-> now]
  <2>1. req' = [req EXCEPT ![r] = q] /\ UNCHANGED <<now, tok, until, out>>
    BY <1>1 DEF Commit, Start
  <2>2. q \in Request /\ Fits(q)
    BY BanAssumption DEF Inv, TypeOK, Request, Fits, IssueFits
  <2> QED
    BY <2>1, <2>2, RequestMoves
<1>2. ASSUME NEW r \in Reqs, Abort(r) PROVE Inv'
  BY <1>2, RequestMoves DEF Abort, Finish
<1>3. ASSUME NEW r \in Reqs, Handle(r) PROVE Inv'
  BY <1>1, <1>2, <1>3, IssueInv, BanInv, SetBanInv, UseInv DEF Handle, Refuse, Admit
<1>4. CASE UNCHANGED vars
  <2>1. TypeOK' /\ Dated' /\ BanLasts' /\ FamilyBanLasts'
    BY <1>4 DEF vars, Inv, TypeOK, Dated, BanLasts, FamilyBanLasts, Issued, End, Ending, Covered
  <2>2. InFlight'
    BY <1>4 DEF vars, Inv, InFlight, Fits, IssueFits, BanFits, UseFits, Issued, End, Ending, Revoked
  <2> QED
    BY <2>1, <2>2 DEF Inv
<1> QED
  BY <1>3, <1>4, TickInv DEF Next

\* From its commit to its last check a token stays within these bounds.
THEOREM TokensBounded == Spec => []Inv
  BY InitInv, NextInv, PTL DEF Spec

\* Nobody is let in with a token that was ended before he presented it,
\* unless it is about to end anyway: save_banned_access_token and
\* get_user_credentials.
THEOREM RevocationHolds == Spec => RevokedStaysOut
<1>1. ASSUME Inv, NEW r \in Reqs, Admit(r), req[r].revoked
      PROVE  End(req[r].tok) - now <= Second + Slowness
  <2> DEFINE t == req[r].tok  f == tok[req[r].tok].fam
  <2>1. /\ t \in Issued /\ ~ Banned(f)
        /\ Ending(t) \/ tok[t].since <= out[f]
    BY <1>1 DEF Admit, CheckFamily, FamilyBanned, Is, Inv, InFlight, Fits, UseFits
  <2>2. /\ now \in Nat /\ Second \in Nat \ {0} /\ Life * Second \in Int /\ Slowness \in Nat
        /\ End(t) \in Int /\ tok[t].since \in Nat /\ f \in Families
        /\ out[f] \in Int /\ until[f] \in Nat /\ Covered(f) \in Int
    BY <1>1, <2>1, Numbers DEF Inv
  <2>3. CASE Ending(t)
    BY <2>2, <2>3 DEF Ending
  <2>4. CASE tok[t].since <= out[f]
    <3>1. Covered(f) <= now
      BY <1>1, <2>1, <2>2, <2>4 DEF Inv, FamilyBanLasts, Banned
    <3>2. Covered(f) = out[f] + Life * Second - Second
      <4>1. Life \in Int /\ Life - 1 \in Int /\ Second \in Int
        BY BanAssumption
      <4>2. Life * Second = (Life - 1) * Second + 1 * Second /\ (Life - 1) * Second \in Int
        <5>1. Life = (Life - 1) + 1
          BY <4>1
        <5> QED
          BY <4>1, <5>1, Seconds
      <4> QED
        BY <2>2, <4>1, <4>2 DEF Covered
    <3>3. End(t) <= tok[t].since + Slowness + Life * Second
      BY <1>1, <2>1 DEF Inv, Dated
    <3> QED
      BY <2>2, <2>4, <3>1, <3>2, <3>3
  <2> QED
    BY <2>1, <2>3, <2>4
<1>2. Inv /\ [Next]_vars =>
      [\A r \in Reqs : Admit(r) /\ req[r].revoked =>
         tok[req[r].tok].exp * Second - now <= Second + Slowness]_vars
  BY <1>1 DEF End
<1> QED
  BY TokensBounded, <1>2, PTL DEF Spec, RevokedStaysOut
=============================================================================
