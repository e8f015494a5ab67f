---------------------------- MODULE AccessTokens ----------------------------
(***************************************************************************)
(* The life of access tokens against the bans that should end it early:    *)
(* generate_access_jwt, save_banned_access_token, check_banned_tokens and  *)
(* get_user_credentials.                                                   *)
(*                                                                         *)
(* A token carries its end as a whole second.  A ban is a Redis key with a *)
(* whole number of seconds to live, computed from a clock that has gone on *)
(* when the key is set.  A login or a rotation issues its access token     *)
(* after the commit, perhaps when the session has just been ended.         *)
(* SessionTokens says which sessions can be rotated; a rotation that races *)
(* the end of its session leaves it alive, so that here any of them can.   *)
(***************************************************************************)
EXTENDS Integers

CONSTANTS Second,     \* ticks of the clock in a second
          Life,       \* seconds an access token lives
          FamilyBan,  \* seconds the family of an ended session is banned
          Slowness,   \* ticks from a commit to the token issued for it, at most
          MaxTime,    \* bound on time
          Tokens, Families, Reqs,
          NoToken, Idle

ASSUME BanAssumption ==
  /\ Second \in Nat \ {0} /\ Life \in Nat \ {0} /\ Slowness \in Nat
  /\ FamilyBan \in Nat /\ FamilyBan >= Life
  /\ Tokens \cap Families = {}

Keys == Tokens \cup Families
Token == [fam : Families, exp : Nat, since : Nat]

ASSUME NoTokenAssumption == NoToken \notin Token

VARIABLES
  now,    \* the clock
  tok,    \* the access tokens: `exp` in seconds; `since`, a ghost, the commit
  until,  \* tokens:banned:<token or family>: when the key is gone
  out,    \* ghost: when the latest ban of a token or a family was set, or -1
  req     \* the requests in flight

vars == <<now, tok, until, out, req>>

Request ==
  [op : {"issue"}, fam : Families, since : Nat]
  \cup [op : {"ban"}, key : Keys, ttl : Int]
  \cup [op : {"use"}, at : {"start", "family"}, tok : Tokens,
        decoded : BOOLEAN, revoked : BOOLEAN]

ASSUME IdleAssumption == Idle \notin Request

TypeOK ==
  /\ now \in Nat
  /\ tok \in [Tokens -> Token \cup {NoToken}]
  /\ until \in [Keys -> Nat] /\ out \in [Keys -> Nat \cup {-1}]
  /\ req \in [Reqs -> Request \cup {Idle}]

Init ==
  /\ now = 0
  /\ tok = [t \in Tokens |-> NoToken]
  /\ until = [k \in Keys |-> 0] /\ out = [k \in Keys |-> -1]
  /\ req = [r \in Reqs |-> Idle]

Issued == {t \in Tokens : tok[t] # NoToken}
Expired(t) == tok[t].exp * Second <= now
Banned(k) == now < until[k]

\* The token was banned, or its family was after the commit it was issued for.
Revoked(t) == out[t] # -1 \/ tok[t].since <= out[tok[t].fam]

Is(r, op) == req[r] # Idle /\ req[r].op = op
Start(r, q) == req[r] = Idle /\ req' = [req EXCEPT ![r] = q]
Finish(r) == req' = [req EXCEPT ![r] = Idle]

-----------------------------------------------------------------------------
\* add_token_record has committed, for a login or a rotation.
Commit(r, f) ==
  /\ Start(r, [op |-> "issue", fam |-> f, since |-> now])
  /\ UNCHANGED <<now, tok, until, out>>

\* The end of a token is a date: the fraction of the second is dropped.
Issue(r, t) ==
  /\ Is(r, "issue") /\ t \notin Issued
  /\ tok' = [tok EXCEPT ![t] = [fam |-> req[r].fam, since |-> req[r].since,
                                exp |-> (now \div Second) + Life]]
  /\ Finish(r)
  /\ UNCHANGED <<now, until, out>>

-----------------------------------------------------------------------------
\* user_logout_process bans the token it was given, if it is not expired.
\* int() drops what is left of a second.
\* Mutant: the ban of a token lives for half of what the token has left.
HalfTtl(t) == (tok[t].exp * Second - now) \div (2 * Second)
TokenTtl(t) == (tok[t].exp * Second - now) \div Second

BanToken(r, t) ==
  /\ t \in Issued /\ ~ Expired(t)
  /\ Start(r, [op |-> "ban", key |-> t, ttl |-> TokenTtl(t)])
  /\ UNCHANGED <<now, tok, until, out>>

\* logout_session, logout_everywhere, a password change and the deletion of
\* the account ban families, for time.time() + 900 less the time.time() of a
\* moment later: mostly a second short.
BanFamily(r, f) ==
  /\ \E ttl \in {FamilyBan - 1, FamilyBan} : Start(r, [op |-> "ban", key |-> f, ttl |-> ttl])
  /\ UNCHANGED <<now, tok, until, out>>

\* SETEX, unless nothing is left.  A later ban replaces an earlier one.
SetBan(r) ==
  /\ Is(r, "ban")
  /\ LET k == req[r].key IN
       /\ until' = IF req[r].ttl <= 0 THEN until
                   ELSE [until EXCEPT ![k] = now + req[r].ttl * Second]
       /\ out' = [out EXCEPT ![k] = now]
  /\ Finish(r)
  /\ UNCHANGED <<now, tok>>

-----------------------------------------------------------------------------
\* A request arrives with a token.
Present(r, t) ==
  /\ t \in Issued
  /\ Start(r, [op |-> "use", at |-> "start", tok |-> t, decoded |-> FALSE,
               revoked |-> Revoked(t)])
  /\ UNCHANGED <<now, tok, until, out>>

\* GlobalRateLimitMiddleware leaves the payload of a valid token for later,
\* except on the auth routes, which it passes by.
DecodeEarly(r) ==
  /\ Is(r, "use") /\ req[r].at = "start" /\ ~ req[r].decoded /\ ~ Expired(req[r].tok)
  /\ req' = [req EXCEPT ![r].decoded = TRUE]
  /\ UNCHANGED <<now, tok, until, out>>

\* get_user_credentials looks for the token among the banned.
CheckToken(r) ==
  /\ Is(r, "use") /\ req[r].at = "start"
  /\ IF Banned(req[r].tok) THEN Finish(r)
     ELSE req' = [req EXCEPT ![r].at = "family"]
  /\ UNCHANGED <<now, tok, until, out>>

\* It decodes the token, if that is not done yet.
Decode(r) ==
  /\ Is(r, "use") /\ req[r].at = "family" /\ ~ req[r].decoded
  /\ IF Expired(req[r].tok) THEN Finish(r)
     ELSE req' = [req EXCEPT ![r].decoded = TRUE]
  /\ UNCHANGED <<now, tok, until, out>>

\* Mutant: the family is not looked for.
NeverBanned(t) == FALSE
FamilyBanned(t) == Banned(tok[t].fam)

\* Then it looks for its family.
CheckFamily(r) ==
  /\ Is(r, "use") /\ req[r].at = "family" /\ req[r].decoded
  /\ Finish(r)
  /\ UNCHANGED <<now, tok, until, out>>
Refuse(r) == CheckFamily(r) /\ FamilyBanned(req[r].tok)
Admit(r) == CheckFamily(r) /\ ~ FamilyBanned(req[r].tok)

-----------------------------------------------------------------------------
\* Redis or the process fails.
Abort(r) ==
  /\ req[r] # Idle
  /\ Finish(r)
  /\ UNCHANGED <<now, tok, until, out>>

Tick ==
  /\ now < MaxTime
  /\ \A r \in Reqs : Is(r, "issue") => now < req[r].since + Slowness
  /\ now' = now + 1
  /\ UNCHANGED <<tok, until, out, req>>

Handle(r) ==
  \/ \E f \in Families : Commit(r, f) \/ BanFamily(r, f)
  \/ \E t \in Tokens : Issue(r, t) \/ BanToken(r, t) \/ Present(r, t)
  \/ SetBan(r) \/ DecodeEarly(r) \/ CheckToken(r) \/ Decode(r) \/ Refuse(r) \/ Admit(r)
  \/ Abort(r)

Next == (\E r \in Reqs : Handle(r)) \/ Tick

Spec == Init /\ [][Next]_vars

-----------------------------------------------------------------------------
\* "Instant access token & session invalidation using Redis" (README.md:15):
\* who presents a token when it, or the session it was issued for, has been
\* ended already is let in only in the last second of the token's life, which
\* is lost to int(), and in the time its issue came late.
RevokedStaysOut ==
  [][\A r \in Reqs : Admit(r) /\ req[r].revoked =>
       tok[req[r].tok].exp * Second - now <= Second + Slowness]_vars
=============================================================================
