--------------------------- MODULE SessionTokens ---------------------------
(***************************************************************************)
(* The refresh tokens of one user: login, rotation with reuse detection    *)
(* and its retry window, and the four ways to end sessions                 *)
(* (services/user_service.py).                                             *)
(*                                                                         *)
(* A request reads, may wait, and commits.  An UPDATE of several rows sees *)
(* the rows that are there when it starts and, when one of them is locked, *)
(* goes on only after the other transaction: its scan and its effect are   *)
(* two steps.  A rotation's UPDATE names its row by key and overwrites     *)
(* whatever was committed since the row was read.  Any request may die or  *)
(* be refused by Redis half-way; what it has not committed is undone, what *)
(* it has told Redis is not.                                               *)
(***************************************************************************)
EXTENDS Naturals, FiniteSets

CONSTANTS Tokens,    \* ids: at most so many tokens are issued
          Families,  \* ids: at most so many logins happen
          Reqs,      \* requests in flight at once
          Ops,       \* the operations that requests may be
          NoRow, None, Idle

Row == [family : Families, used : BOOLEAN, parent : Tokens \cup {None}]

Request == [op : {"rotate", "logout", "session", "everywhere", "password"},
            at : {"fresh", "used", "reuse", "kill", "save",
                  "loaded", "families", "rows", "banned"},
            tok : Tokens \cup {None}, new : Tokens \cup {None},
            fams : SUBSET Families, rows : SUBSET Tokens]

ASSUME TokenAssumption ==
  /\ NoRow \notin Row /\ Idle \notin Request
  /\ None \notin Tokens
  /\ Ops \subseteq {"login", "rotate", "logout", "session", "everywhere", "password"}

VARIABLES
  tok,     \* the refresh_tokens rows; `parent`, a ghost, is the rotated token
  retry,   \* refresh-rotation:<token>: the token issued instead, or None
  banned,  \* tokens:banned:<family>
  grace,   \* ghost: tokens rotated in the last 5 s whose retry key was not refused
  req      \* the requests in flight

vars == <<tok, retry, banned, grace, req>>

TypeOK ==
  /\ tok \in [Tokens -> Row \cup {NoRow}]
  /\ retry \in [Tokens -> Tokens \cup {None}]
  /\ banned \in SUBSET Families
  /\ grace \in SUBSET Tokens
  /\ req \in [Reqs -> Request \cup {Idle}]

Issued == {t \in Tokens : tok[t] # NoRow}
Active(t) == tok[t] # NoRow /\ ~tok[t].used

Init ==
  /\ tok = [t \in Tokens |-> NoRow]
  /\ retry = [t \in Tokens |-> None]
  /\ banned = {} /\ grace = {}
  /\ req = [r \in Reqs |-> Idle]

At(r, op, pc) == req[r] # Idle /\ req[r].op = op /\ req[r].at = pc
Start(r, op, pc, t, fams) ==
  /\ op \in Ops /\ req[r] = Idle
  /\ req' = [req EXCEPT ![r] = [op |-> op, at |-> pc, tok |-> t, new |-> None,
                                fams |-> fams, rows |-> {}]]
Go(r, pc) == req' = [req EXCEPT ![r].at = pc]
Finish(r) == req' = [req EXCEPT ![r] = Idle]

\* UPDATE refresh_tokens SET is_used = true for the rows with these ids.
Spend(rows) == [t \in Tokens |-> IF t \in rows /\ tok[t] # NoRow
                                 THEN [tok[t] EXCEPT !.used = TRUE] ELSE tok[t]]

-----------------------------------------------------------------------------
\* add_token_record with a new family: one INSERT and its commit.
Login(r) ==
  /\ "login" \in Ops /\ req[r] = Idle
  /\ \E n \in Tokens \ Issued, f \in Families :
       /\ \A t \in Issued : tok[t].family # f
       /\ tok' = [tok EXCEPT ![n] = [family |-> f, used |-> FALSE, parent |-> None]]
  /\ UNCHANGED <<retry, banned, grace, req>>

-----------------------------------------------------------------------------
(* rotate_refresh_token                                                    *)

LoadToken(r, t) ==
  /\ t \in Issued
  /\ Start(r, "rotate", IF tok[t].used THEN "used" ELSE "fresh", t, {})
  /\ UNCHANGED <<tok, retry, banned, grace>>

\* The row a rotation writes for the token it was given.
\* Mutant: is_used is not set.
KeptRow(t) == tok[t]
RotatedRow(t) == [tok[t] EXCEPT !.used = TRUE]

\* One transaction: the old token is used and its successor inserted.
Rotate(r) ==
  /\ At(r, "rotate", "fresh")
  /\ LET t == req[r].tok IN
       \E n \in Tokens \ Issued :
         /\ tok' = [tok EXCEPT ![t] = RotatedRow(t),
                               ![n] = [family |-> tok[t].family, used |-> FALSE, parent |-> t]]
         /\ grace' = grace \cup {t}
         /\ req' = [req EXCEPT ![r].at = "save", ![r].new = n]
  /\ UNCHANGED <<retry, banned>>

SaveRetry(r) ==
  /\ At(r, "rotate", "save")
  /\ retry' = [retry EXCEPT ![req[r].tok] = req[r].new]
  /\ Finish(r)
  /\ UNCHANGED <<tok, banned, grace>>

\* What check_refresh_for_retries finds.
\* Mutant: it looks for the key of the new token.
RetryOfNew(t) == None
RetryData(t) == retry[t]

\* A used token gets its successor's tokens again, or gives itself away.
CheckRetry(r) ==
  /\ At(r, "rotate", "used")
  /\ IF RetryData(req[r].tok) # None THEN Finish(r) ELSE Go(r, "reuse")
  /\ UNCHANGED <<tok, retry, banned, grace>>

\* Redis fails the GET: check_refresh_for_retries answers as if there were no
\* key, whether there is one or not.
RetryUnread(r) ==
  /\ At(r, "rotate", "used")
  /\ Go(r, "reuse")
  /\ UNCHANGED <<tok, retry, banned, grace>>

\* The rows invalidate_token_by_family updates.
\* Mutant: only the token that was presented.
Presented(t) == {t}
FamilyRows(t) == {u \in Issued : tok[u].family = tok[t].family}

ScanFamily(r) ==
  /\ At(r, "rotate", "reuse")
  /\ req' = [req EXCEPT ![r].at = "kill", ![r].rows = FamilyRows(req[r].tok)]
  /\ UNCHANGED <<tok, retry, banned, grace>>

KillFamily(r) ==
  /\ At(r, "rotate", "kill")
  /\ tok' = Spend(req[r].rows)
  /\ Finish(r)
  /\ UNCHANGED <<retry, banned, grace>>

-----------------------------------------------------------------------------
(* user_logout_process and logout_session                                  *)

LoadSession(r, op, t) ==
  /\ op \in {"logout", "session"} /\ Active(t)
  /\ Start(r, op, "loaded", t, {})
  /\ UNCHANGED <<tok, retry, banned, grace>>

\* logout_session bans the family, user_logout_process only the access token
\* (not modelled), before the commit.
BanSession(r) ==
  /\ At(r, "logout", "loaded") \/ At(r, "session", "loaded")
  /\ banned' = IF req[r].op = "session" THEN banned \cup {tok[req[r].tok].family} ELSE banned
  /\ req' = [req EXCEPT ![r].at = "banned", ![r].rows = {req[r].tok}]
  /\ UNCHANGED <<tok, retry, grace>>

-----------------------------------------------------------------------------
(* logout_everywhere, and _invalidate_user_sessions of a password change   *)

\* get_active_tokens_family.
\* Mutant: the families are read when their tokens are used already.
NoFamilies == {}
ActiveFamilies == {tok[t].family : t \in {u \in Issued : Active(u)}}

\* Without an active family a password change leaves the tokens alone.
LoadFamilies(r, op) ==
  /\ \/ op = "everywhere" /\ \E t \in Issued : Start(r, op, "families", t, ActiveFamilies)
     \/ op = "password" /\ ActiveFamilies # {} /\ Start(r, op, "families", None, ActiveFamilies)
  /\ UNCHANGED <<tok, retry, banned, grace>>

\* The rows invalidate_user_tokens updates: the user's, in all families.
\* Mutant: those of the session that asks.
OwnFamily(r) ==
  {u \in Issued : Active(u) /\ (req[r].tok # None => tok[u].family = tok[req[r].tok].family)}
UserRows(r) == {u \in Issued : Active(u)}

ScanUser(r) ==
  /\ At(r, "everywhere", "families") \/ At(r, "password", "families")
  /\ req' = [req EXCEPT ![r].at = "rows", ![r].rows = UserRows(r)]
  /\ UNCHANGED <<tok, retry, banned, grace>>

BanFamilies(r) ==
  /\ At(r, "everywhere", "rows") \/ At(r, "password", "rows")
  /\ banned' = banned \cup req[r].fams
  /\ Go(r, "banned")
  /\ UNCHANGED <<tok, retry, grace>>

\* The commit that ends a logout or a password change.
CommitEnd(r) ==
  /\ \E op \in {"logout", "session", "everywhere", "password"} : At(r, op, "banned")
  /\ tok' = Spend(req[r].rows)
  /\ Finish(r)
  /\ UNCHANGED <<retry, banned, grace>>

-----------------------------------------------------------------------------
(* Failure and time                                                        *)

\* The process dies, the database or Redis refuses.
Abort(r) ==
  /\ req[r] # Idle
  /\ grace' = IF req[r].at = "save" THEN grace \ {req[r].tok} ELSE grace
  /\ banned' \in {banned} \cup
       (IF req[r].at = "rows" THEN {banned \cup some : some \in SUBSET req[r].fams} ELSE {})
  /\ Finish(r)
  /\ UNCHANGED <<tok, retry>>

\* Five seconds after a rotation.
WindowCloses(t) ==
  /\ t \in grace /\ \A r \in Reqs : At(r, "rotate", "save") => req[r].tok # t
  /\ grace' = grace \ {t}
  /\ retry' = [retry EXCEPT ![t] = None]
  /\ UNCHANGED <<tok, banned, req>>

\* Fifteen minutes after a ban: no request that made it is still there.
BanEnds(f) ==
  /\ f \in banned
  /\ \A r \in Reqs : req[r] # Idle /\ req[r].at = "banned" =>
       f \notin req[r].fams /\ \A u \in req[r].rows : tok[u].family # f
  /\ banned' = banned \ {f}
  /\ UNCHANGED <<tok, retry, grace, req>>

-----------------------------------------------------------------------------
Handle(r) ==
  \/ Login(r)
  \/ \E t \in Tokens : LoadToken(r, t)
  \/ Rotate(r) \/ SaveRetry(r) \/ CheckRetry(r) \/ RetryUnread(r)
  \/ ScanFamily(r) \/ KillFamily(r)
  \/ \E t \in Tokens, op \in {"logout", "session"} : LoadSession(r, op, t)
  \/ \E op \in {"everywhere", "password"} : LoadFamilies(r, op)
  \/ BanSession(r) \/ ScanUser(r) \/ BanFamilies(r) \/ CommitEnd(r) \/ Abort(r)

Next ==
  \/ \E r \in Reqs : Handle(r)
  \/ \E t \in Tokens : WindowCloses(t)
  \/ \E f \in Families : BanEnds(f)

Spec == Init /\ [][Next]_vars

-----------------------------------------------------------------------------
\* A token that has a successor is used, in whatever order requests commit.
RotatedIsSpent == \A t, n \in Issued : tok[n].parent = t => tok[t].used

\* Two requests rotated one token of the family: it has two successors.
RotatedTwice(f) ==
  \E a, b \in Issued : /\ a # b /\ tok[a].family = f /\ tok[b].family = f
                       /\ tok[a].parent # None /\ tok[a].parent = tok[b].parent

\* A session has two tokens that can be rotated only where one of its tokens
\* was rotated twice: no other order of logins, rotations, logouts and reuse
\* detection, each of which may die half-way, makes a second one.
ForkHasTwoChildren ==
  \A t, n \in Issued : t # n /\ Active(t) /\ Active(n) /\ tok[t].family = tok[n].family =>
    RotatedTwice(tok[t].family)

\* "Refresh token rotation with token family reuse detection" (README.md:258):
\* a session has one token that can be rotated.
OneActivePerFamily ==
  \A t, n \in Issued : Active(t) /\ Active(n) /\ tok[t].family = tok[n].family => t = n

\* "Redis-based retry window for concurrent refresh requests" (README.md:259):
\* a token presented again in the five seconds after its rotation is taken for
\* a theft only while the rotation's answer is being saved, or when Redis fails
\* the GET (RetryUnread); whoever reads the key of a saved answer is served.
RetryServed ==
  [][\A r \in Reqs : CheckRetry(r) /\ req[r].tok \in grace =>
       \/ req'[r] = Idle
       \/ \E q \in Reqs : At(q, "rotate", "save") /\ req[q].tok = req[r].tok]_vars

Ends(r, ops) == CommitEnd(r) /\ req[r].op \in ops

-----------------------------------------------------------------------------
(* What the handlers promise: each holds while requests come one at a      *)
(* time.                                                                   *)

\* No token is active when the commit that ends all sessions is there.
AllEnded ==
  \A r \in Reqs : Ends(r, {"everywhere", "password"}) =>
    \A t \in Tokens : tok'[t] # NoRow => tok'[t].used

\* A session that is ended from outside is also banned.
BannedWhenEnded ==
  \A r \in Reqs : Ends(r, {"session", "everywhere", "password"}) =>
    \A t \in Issued : Active(t) /\ tok'[t].used => tok[t].family \in banned

\* No token of a family is active when a reuse has been punished.
FamilyEnded ==
  \A r \in Reqs : KillFamily(r) =>
    \A t \in Tokens : tok'[t] # NoRow /\ tok'[t].family = tok[req[r].tok].family
                      => tok'[t].used
=============================================================================
