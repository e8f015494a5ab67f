----------------------------- MODULE Identities -----------------------------
(***************************************************************************)
(* The accounts, what their users log in with, and the one-time codes that *)
(* confirm a password (services/user_service.py).                          *)
(*                                                                         *)
(* A request reads, may wait, and commits; constraints are checked by the  *)
(* commit.  A code lives in Redis together with the password it is for:    *)
(* the GET that compares it and the DEL that spends it are two calls, and  *)
(* the commit is a third.  An account is named by its e-mail address, and  *)
(* a password by the code it was sent with, or for change_password by an   *)
(* id of its own.                                                          *)
(***************************************************************************)
EXTENDS FiniteSets

CONSTANTS Users,     \* e-mail addresses
          Subjects,  \* accounts at the external providers
          Codes,     \* ids: at most so many passwords are asked for
          Reqs,      \* requests in flight at once
          None, Idle

External == {"google", "github"}
Provider == {"local"} \cup External
Kind == {"register", "password-change", "add-password"}

Keys == Kind \X Users

\* `at` is what the request has done; an answer of the database that sends it
\* two ways makes two values.
Request ==
  [op : {"ask"}, kind : Kind, user : Users, at : {"checked"}]
    \cup [op : {"confirm"}, kind : Kind, user : Users, pw : Codes, at : {"matched", "dropped"}]
    \cup [op : {"change"}, user : Users, at : {"checked"}]
    \cup [op : {"attach"}, user : Users, prov : External, sub : Subjects,
          at : {"unknown", "newcomer", "member"}]
    \cup [op : {"unlink"}, user : Users, prov : External, at : {"checked"}]

ASSUME IdentityAssumption ==
  /\ Codes \cap Subjects = {}
  /\ None \notin Codes \cup Subjects \cup Keys \cup ({"change"} \X Users)
  /\ Idle \notin Request

VARIABLES
  users,  \* the users' rows
  ident,  \* auth_identity: a password or a subject for each user and provider
  code,   \* otp:<kind>:<user>: the code that is waiting there
  asked,  \* ghost: for whom each code was sent, and what for
  spent,  \* ghost: the codes that have taken effect
  req     \* the requests in flight

vars == <<users, ident, code, asked, spent, req>>

TypeOK ==
  /\ users \in SUBSET Users
  /\ ident \in [Users -> [Provider -> Codes \cup Subjects \cup {None}]]
  /\ \A u \in Users : ident[u]["local"] \notin Subjects /\ \A p \in External : ident[u][p] \notin Codes
  /\ code \in [Keys -> Codes \cup {None}]
  /\ asked \in [Codes -> Keys \cup ({"change"} \X Users) \cup {None}]
  /\ spent \in SUBSET Codes
  /\ req \in [Reqs -> Request \cup {Idle}]

NoIdentity == [p \in Provider |-> None]
Linked(u) == {p \in Provider : ident[u][p] # None}

Init ==
  /\ users = {}
  /\ ident = [u \in Users |-> NoIdentity]
  /\ code = [k \in Keys |-> None]
  /\ asked = [c \in Codes |-> None]
  /\ spent = {}
  /\ req = [r \in Reqs |-> Idle]

At(r, op, pc) == req[r] # Idle /\ req[r].op = op /\ req[r].at = pc
Start(r, q) == req[r] = Idle /\ req' = [req EXCEPT ![r] = q]
Go(r, pc) == req' = [req EXCEPT ![r].at = pc]
Finish(r) == req' = [req EXCEPT ![r] = Idle]

\* What a commit does with an identity and, for a newcomer, a user.
Unchanged == UNCHANGED <<users, ident>>
Write(u, p, cred) == ident' = [ident EXCEPT ![u][p] = cred]

-----------------------------------------------------------------------------
(* Constraints of the database                                             *)

\* uq_local_identity: one identity per user and provider; uq_google_identity:
\* a subject is one user's.
\* Mutant: without uq_google_identity.
NotTwice(u, p, cred) == ident[u][p] = None
Insertable(u, p, cred) ==
  ident[u][p] = None /\ (p \in External => \A v \in Users : ident[v][p] # cred)

\* The foreign key of auth_identity.
\* Mutant: without it.
AnyUser(u) == TRUE
UserExists(u) == u \in users

-----------------------------------------------------------------------------
(* Asking for a code: start_user_registration, change_forgotten_password,  *)
(* add_password                                                            *)

Askable(kind, u) ==
  CASE kind = "register"        -> u \notin users
    [] kind = "password-change" -> ident[u]["local"] # None
    [] kind = "add-password"    -> u \in users /\ ident[u]["local"] = None

CheckAsker(r, kind, u) ==
  /\ Askable(kind, u)
  /\ Start(r, [op |-> "ask", kind |-> kind, user |-> u, at |-> "checked"])
  /\ Unchanged /\ UNCHANGED <<code, asked, spent>>

\* The key a code waits under.
\* Mutant: the user is left out.
KeyOfKind(kind, u) == <<kind, CHOOSE v \in Users : TRUE>>
Key(kind, u) == <<kind, u>>

\* SETEX replaces a code that is waiting already.
SendCode(r) ==
  /\ At(r, "ask", "checked")
  /\ \E c \in Codes :
       /\ asked[c] = None
       /\ code' = [code EXCEPT ![Key(req[r].kind, req[r].user)] = c]
       /\ asked' = [asked EXCEPT ![c] = <<req[r].kind, req[r].user>>]
  /\ Finish(r)
  /\ Unchanged /\ UNCHANGED spent

-----------------------------------------------------------------------------
(* Confirming it: get_email_verification_data and what its callers do      *)

\* The user presents c.
\* Mutant: it is not compared.
AnyCode(k, c) == TRUE
CodeMatches(k, c) == code[k] = c

MatchCode(r, kind, u) ==
  /\ kind = "add-password" => u \in users
  /\ \E c \in Codes :
       /\ CodeMatches(Key(kind, u), c)
       /\ Start(r, [op |-> "confirm", kind |-> kind, user |-> u,
                    pw |-> code[Key(kind, u)], at |-> "matched"])
  /\ Unchanged /\ UNCHANGED <<code, asked, spent>>

\* What delete_otp_data deletes.
\* Mutant: nothing.
NoKeys(q) == {}
\* Mutant: the user's codes of every kind.
KeysOfUser(q) == {Key(kind, q.user) : kind \in Kind}
DroppedKeys(q) == {Key(q.kind, q.user)}

DropCode(r) ==
  /\ At(r, "confirm", "matched")
  /\ code' = [k \in Keys |-> IF k \in DroppedKeys(req[r]) THEN None ELSE code[k]]
  /\ Go(r, "dropped")
  /\ Unchanged /\ UNCHANGED <<asked, spent>>

\* The commit of a password, or the rollback if it is not possible.
SetPassword(r, possible) ==
  /\ IF possible
     THEN Write(req[r].user, "local", req[r].pw) /\ spent' = spent \cup {req[r].pw}
     ELSE UNCHANGED <<ident, spent>>
  /\ Finish(r)
  /\ UNCHANGED <<code, asked>>

Confirming(r, kind) == At(r, "confirm", "dropped") /\ req[r].kind = kind

\* The user and his identity in one transaction.
VerifyRegistration(r) ==
  /\ Confirming(r, "register")
  /\ users' = users \cup {req[r].user}
  /\ SetPassword(r, req[r].user \notin users)

\* One UPDATE by e-mail address.
VerifyForgotten(r) ==
  /\ Confirming(r, "password-change")
  /\ SetPassword(r, ident[req[r].user]["local"] # None)
  /\ UNCHANGED users

ConfirmAdding(r) ==
  /\ Confirming(r, "add-password")
  /\ SetPassword(r, UserExists(req[r].user) /\ Insertable(req[r].user, "local", req[r].pw))
  /\ UNCHANGED users

-----------------------------------------------------------------------------
(* change_password, by a user who knows the present one                    *)

CheckPassword(r, u) ==
  /\ ident[u]["local"] # None
  /\ Start(r, [op |-> "change", user |-> u, at |-> "checked"])
  /\ Unchanged /\ UNCHANGED <<code, asked, spent>>

ChangePassword(r) ==
  /\ At(r, "change", "checked")
  /\ \E c \in Codes :
       /\ asked[c] = None
       /\ asked' = [asked EXCEPT ![c] = <<"change", req[r].user>>]
       /\ Write(req[r].user, "local", c)
  /\ Finish(r)
  /\ UNCHANGED <<users, code, spent>>

-----------------------------------------------------------------------------
(* auth_with_provider of a subject nobody is linked to (with one that is,  *)
(* it is a login), and link_provider                                       *)

FindSubject(r, u, p, s) ==
  /\ \A v \in Users : ident[v][p] # s
  /\ Start(r, [op |-> "attach", user |-> u, prov |-> p, sub |-> s, at |-> "unknown"])
  /\ Unchanged /\ UNCHANGED <<code, asked, spent>>

FindEmail(r) ==
  /\ At(r, "attach", "unknown")
  /\ Go(r, IF req[r].user \in users THEN "member" ELSE "newcomer")
  /\ Unchanged /\ UNCHANGED <<code, asked, spent>>

CheckUnlinked(r, u, p, s) ==
  /\ u \in users /\ ident[u][p] = None
  /\ Start(r, [op |-> "attach", user |-> u, prov |-> p, sub |-> s, at |-> "member"])
  /\ Unchanged /\ UNCHANGED <<code, asked, spent>>

\* A newcomer's row and identity are one transaction, too.
Attach(r) ==
  /\ At(r, "attach", "newcomer") \/ At(r, "attach", "member")
  /\ LET q == req[r] IN
       IF /\ Insertable(q.user, q.prov, q.sub)
          /\ IF q.at = "newcomer" THEN q.user \notin users ELSE UserExists(q.user)
       THEN /\ Write(q.user, q.prov, q.sub)
            /\ users' = IF q.at = "newcomer" THEN users \cup {q.user} ELSE users
       ELSE Unchanged
  /\ Finish(r)
  /\ UNCHANGED <<code, asked, spent>>

-----------------------------------------------------------------------------
(* unlink_identity                                                         *)

\* Mutant: it may be the last one.
AnyLinked(u, p) == p # "local"
Removable(u, p) == p # "local" /\ Cardinality(Linked(u)) # 1

CheckOthers(r, u, p) ==
  /\ p \in Linked(u) /\ Removable(u, p)
  /\ Start(r, [op |-> "unlink", user |-> u, prov |-> p, at |-> "checked"])
  /\ Unchanged /\ UNCHANGED <<code, asked, spent>>

\* The row goes by its id, which is never used again: whoever else was about
\* to delete it will not find it.
DeleteIdentity(r) ==
  /\ At(r, "unlink", "checked")
  /\ Write(req[r].user, req[r].prov, None)
  /\ req' = [s \in Reqs |-> IF req[s] = req[r] THEN Idle ELSE req[s]]
  /\ UNCHANGED <<users, code, asked, spent>>

-----------------------------------------------------------------------------
(* What happens around them                                                *)

\* A code's three minutes are over.
CodeExpires(k) ==
  /\ code[k] # None
  /\ code' = [code EXCEPT ![k] = None]
  /\ Unchanged /\ UNCHANGED <<asked, spent, req>>

\* clean_deleted_user_accounts.  The requests of the user's own go by his
\* public_id or by that of his identity, which are never used again: what they
\* write finds no row, or is a key nobody reads, and so they end here.  Someone
\* may be logging in or asking for a password with his address, though.
Own(q) == \/ q.op \in {"unlink", "change"}
          \/ q.op \in {"ask", "confirm"} /\ q.kind = "add-password"
PurgeAccount(u) ==
  /\ u \in users
  /\ users' = users \ {u}
  /\ ident' = [ident EXCEPT ![u] = NoIdentity]
  /\ code' = [code EXCEPT ![Key("add-password", u)] = None]
  /\ req' = [r \in Reqs |-> IF req[r] # Idle /\ req[r].user = u /\ Own(req[r])
                            THEN Idle ELSE req[r]]
  /\ UNCHANGED <<asked, spent>>

\* The process dies, or Redis or the database refuses.
Abort(r) ==
  /\ req[r] # Idle
  /\ Finish(r)
  /\ Unchanged /\ UNCHANGED <<code, asked, spent>>

-----------------------------------------------------------------------------
Handle(r) ==
  \/ \E u \in Users :
       \/ \E kind \in Kind : CheckAsker(r, kind, u) \/ MatchCode(r, kind, u)
       \/ CheckPassword(r, u)
       \/ \E p \in External, s \in Subjects :
            FindSubject(r, u, p, s) \/ CheckUnlinked(r, u, p, s)
       \/ \E p \in Provider : CheckOthers(r, u, p)
  \/ SendCode(r) \/ DropCode(r)
  \/ VerifyRegistration(r) \/ VerifyForgotten(r) \/ ConfirmAdding(r) \/ ChangePassword(r)
  \/ FindEmail(r) \/ Attach(r) \/ DeleteIdentity(r) \/ Abort(r)

Next ==
  \/ \E r \in Reqs : Handle(r)
  \/ \E k \in Keys : CodeExpires(k)
  \/ \E u \in Users : PurgeAccount(u)

Spec == Init /\ [][Next]_vars

-----------------------------------------------------------------------------
(* What holds however the requests interleave.                             *)

\* What a user logs in with opens one account, and one that exists, whoever
\* links it or logs in with it at once (no handler looks whether another user
\* has it) and although the account may be purged while it is linked.
LoginOpensOneAccount ==
  \A u \in Users, p \in Provider : ident[u][p] # None =>
    u \in users /\ \A v \in Users : ident[v][p] = ident[u][p] => u = v

\* A user's password is one that was asked for under his own address, although
\* the code it was confirmed with may have been replaced, or used, meanwhile.
PasswordIsOwn ==
  \A u \in Users : LET c == ident[u]["local"] IN c # None => asked[c][2] = u

-----------------------------------------------------------------------------
(* What the handlers promise: each holds while requests come one at a      *)
(* time.                                                                   *)

\* Whoever has an account has something to log in with.
HasLogin == \A u \in users : Linked(u) # {}

\* A confirmation deletes the code it has compared, and no other.
OwnCodeDropped ==
  \A r \in Reqs : DropCode(r) => \A k \in Keys : code'[k] # code[k] => code[k] = req[r].pw

\* A code takes effect once.
EffectOnce ==
  \A u \in Users : LET c == ident'[u]["local"] IN c # ident[u]["local"] => c \notin spent
=============================================================================
