-------------------------- MODULE IdentitiesProofs --------------------------
(***************************************************************************)
(* What the constraints of the database and the one-time codes keep for    *)
(* any number of users, subjects, codes and requests in any order: what a  *)
(* user logs in with opens one account, and his password was asked for     *)
(* under his own address.  And what the handlers keep as long as no        *)
(* request overtakes another: every account has something to log in with,  *)
(* and a code takes effect once.                                           *)
(***************************************************************************)
EXTENDS MCIdentities, FiniteSetTheorems, TLAPS

Is(r, op) == req[r] # Idle /\ req[r].op = op
Local(u) == ident[u]["local"]

\* A code waits, is confirmed and becomes a password under the key it was sent
\* for, and whoever knows a password has an account.
Asked ==
  /\ \A k \in Keys : code[k] # None => asked[code[k]] = k
  /\ \A c \in spent : asked[c] # None
  /\ \A u \in Users : Local(u) # None => asked[Local(u)] # None
  /\ \A r \in Reqs : Is(r, "confirm") => asked[req[r].pw] = <<req[r].kind, req[r].user>>
  /\ \A r \in Reqs : Is(r, "change") => req[r].user \in users

Inv == TypeOK /\ Asked /\ PasswordIsOwn /\ LoginOpensOneAccount

\* What a request in flight relies on while nobody overtakes it: an identity to
\* be unlinked is not the last one, and the code that was compared is gone or
\* waits to be deleted.
Current(r) ==
  /\ Is(r, "unlink") => Linked(req[r].user) \ {req[r].prov} # {}
  /\ Is(r, "confirm") => req[r].pw \notin spent
  /\ At(r, "confirm", "matched") => code[<<req[r].kind, req[r].user>>] \in {req[r].pw, None}
  /\ At(r, "confirm", "dropped") => code[<<req[r].kind, req[r].user>>] = None

Alone(r) == \A q \in Reqs : q # r => req[q] = Idle

SerialInv ==
  serial => /\ HasLogin
            /\ \A k \in Keys : code[k] \notin spent
            /\ \A r \in Reqs : req[r] # Idle => Alone(r) /\ Current(r)

-----------------------------------------------------------------------------
(* Types and shapes                                                        *)

Question == [op : {"ask"}, kind : Kind, user : Users, at : {"checked"}]
Confirmation ==
  [op : {"confirm"}, kind : Kind, user : Users, pw : Codes, at : {"matched", "dropped"}]
Change == [op : {"change"}, user : Users, at : {"checked"}]
Attachment == [op : {"attach"}, user : Users, prov : External, sub : Subjects,
               at : {"unknown", "newcomer", "member"}]
Unlinking == [op : {"unlink"}, user : Users, prov : External, at : {"checked"}]

LEMMA RequestKinds ==
  /\ Request = Question \cup Confirmation \cup Change \cup Attachment \cup Unlinking
  /\ \A q \in Request : /\ q.op = "ask" => q \in Question
                        /\ q.op = "confirm" => q \in Confirmation
                        /\ q.op = "change" => q \in Change
                        /\ q.op = "attach" => q \in Attachment
                        /\ q.op = "unlink" => q \in Unlinking
                        /\ q.user \in Users
  BY DEF Request, Question, Confirmation, Change, Attachment, Unlinking

LEMMA RequestOf ==
  ASSUME TypeOK, NEW r \in Reqs
  PROVE  /\ Is(r, "ask") => req[r] \in Question
         /\ Is(r, "confirm") => req[r] \in Confirmation
         /\ Is(r, "change") => req[r] \in Change
         /\ Is(r, "attach") => req[r] \in Attachment
         /\ Is(r, "unlink") => req[r] \in Unlinking
         /\ req[r] # Idle => req[r] \in Request /\ req[r].user \in Users
  BY RequestKinds DEF TypeOK, Is

\* A key and what was asked for are not None, and a key names its user.
LEMMA KeyFacts ==
  /\ \A kind \in Kind, u \in Users : <<kind, u>> \in Keys /\ <<kind, u>>[2] = u
  /\ None \notin Keys /\ None \notin {"change"} \X Users
  /\ None \notin Codes /\ None \notin Subjects
  /\ "local" \in Provider /\ "local" \notin External /\ External \subseteq Provider
  BY IdentityAssumption DEF Keys, Provider, External

\* The identities, and what they say.
IdentTyped ==
  /\ ident \in [Users -> [Provider -> Codes \cup Subjects \cup {None}]]
  /\ \A u \in Users : Local(u) \notin Subjects /\ \A p \in External : ident[u][p] \notin Codes

PasswordsAsked ==
  \A u \in Users : Local(u) # None => asked[Local(u)] # None /\ asked[Local(u)][2] = u

\* One identity is written.
LEMMA WriteShape ==
  ASSUME TypeOK, NEW u \in Users, NEW p \in Provider, NEW cred \in Codes \cup Subjects \cup {None},
         Write(u, p, cred)
  PROVE  /\ ident' \in [Users -> [Provider -> Codes \cup Subjects \cup {None}]]
         /\ ident'[u][p] = cred
         /\ \A v \in Users, x \in Provider : v # u \/ x # p => ident'[v][x] = ident[v][x]
<1> DEFINE row == [ident[u] EXCEPT ![p] = cred]
<1>1. ident[u] \in [Provider -> Codes \cup Subjects \cup {None}]
  BY DEF TypeOK
<1>2. /\ row \in [Provider -> Codes \cup Subjects \cup {None}]
      /\ row[p] = cred /\ \A x \in Provider : x # p => row[x] = ident[u][x]
  BY <1>1
<1>3. ident' = [ident EXCEPT ![u] = row]
  BY DEF Write
<1> HIDE DEF row
<1>4. /\ ident' \in [Users -> [Provider -> Codes \cup Subjects \cup {None}]]
      /\ ident'[u] = row /\ \A v \in Users : v # u => ident'[v] = ident[v]
  BY <1>2, <1>3 DEF TypeOK
<1>. QED BY <1>2, <1>4

\* What was asked for stays what it was.
AskedKept == \A c \in Codes : asked[c] # None => asked'[c] = asked[c]

\* An identity may be written that opens the account of its user: a password
\* that was asked for under his address, or a subject nobody is linked to.
LEMMA WriteKeepsLogins ==
  ASSUME Inv, NEW u \in Users, NEW p \in Provider, NEW cred, Write(u, p, cred),
         users \subseteq users', cred # None => u \in users', AskedKept,
         \/ cred = None
         \/ p = "local" /\ cred \in Codes /\ asked'[cred] # None /\ asked'[cred][2] = u
         \/ p \in External /\ cred \in Subjects /\ \A v \in Users : ident[v][p] # cred
  PROVE  IdentTyped' /\ PasswordsAsked' /\ LoginOpensOneAccount'
<1> USE KeyFacts
<1>1. cred \in Codes \cup Subjects \cup {None}
  OBVIOUS
<1>2. /\ ident' \in [Users -> [Provider -> Codes \cup Subjects \cup {None}]]
      /\ ident'[u][p] = cred
      /\ \A v \in Users, x \in Provider : v # u \/ x # p => ident'[v][x] = ident[v][x]
  BY <1>1, WriteShape DEF Inv
<1>3. IdentTyped'
  BY <1>2, IdentityAssumption DEF Inv, TypeOK, IdentTyped, Local
<1>4. PasswordsAsked'
  <2> SUFFICES ASSUME NEW v \in Users, ident'[v]["local"] # None
               PROVE  asked'[ident'[v]["local"]] # None /\ asked'[ident'[v]["local"]][2] = v
    BY DEF PasswordsAsked, Local
  <2>1. CASE v = u /\ p = "local"
    BY <1>2, <2>1
  <2>2. CASE ~ (v = u /\ p = "local")
    <3>1. ident'[v]["local"] = ident[v]["local"]
      BY <1>2, <2>2
    <3>2. ident[v]["local"] \in Codes
      BY <3>1 DEF Inv, TypeOK
    <3>3. asked[ident[v]["local"]] # None /\ asked[ident[v]["local"]][2] = v
      BY <3>1 DEF Inv, Asked, PasswordIsOwn, Local
    <3>. QED BY <3>1, <3>2, <3>3 DEF AskedKept
  <2>. QED BY <2>1, <2>2
<1>5. LoginOpensOneAccount'
  <2> SUFFICES ASSUME NEW v \in Users, NEW x \in Provider, ident'[v][x] # None
               PROVE  /\ v \in users'
                      /\ \A w \in Users : ident'[w][x] = ident'[v][x] => v = w
    BY DEF LoginOpensOneAccount
  <2>1. v \in users'
    BY <1>2 DEF Inv, LoginOpensOneAccount
  <2>2. ASSUME NEW w \in Users, ident'[w][x] = ident'[v][x] PROVE v = w
    <3>1. CASE x = "local"
      BY <1>4, <2>2, <3>1 DEF PasswordsAsked, Local
    <3>2. CASE x # "local"
      <4>1. x \in External
        BY <3>2 DEF Provider
      <4>2. CASE x = p
        <5>1. CASE v = u \/ w = u
          BY <1>2, <2>2, <4>1, <4>2, <5>1
        <5>2. CASE v # u /\ w # u
          BY <1>2, <2>2, <5>2 DEF Inv, LoginOpensOneAccount
        <5>. QED BY <5>1, <5>2
      <4>3. CASE x # p
        BY <1>2, <2>2, <4>3 DEF Inv, LoginOpensOneAccount
      <4>. QED BY <4>2, <4>3
    <3>. QED BY <3>1, <3>2
  <2>. QED BY <2>1, <2>2
<1>. QED BY <1>3, <1>4, <1>5

\* A step that takes no account away keeps the invariant if what it writes does.
LEMMA StepKeeps ==
  ASSUME Inv, users \subseteq users', users' \in SUBSET Users,
         IdentTyped' /\ PasswordsAsked' /\ LoginOpensOneAccount', AskedKept,
         asked' \in [Codes -> Keys \cup ({"change"} \X Users) \cup {None}],
         code' \in [Keys -> Codes \cup {None}],
         \A k \in Keys : code'[k] # None => asked'[code'[k]] = k,
         spent' \in SUBSET Codes, \A c \in spent' : asked'[c] # None,
         req' \in [Reqs -> Request \cup {Idle}],
         \A s \in Reqs : \/ req'[s] \in {req[s], Idle}
                         \/ /\ req'[s].op = "confirm" =>
                                 asked[req'[s].pw] = <<req'[s].kind, req'[s].user>>
                            /\ req'[s].op = "change" => req'[s].user \in users
  PROVE  Inv'
<1>1. TypeOK'
  BY DEF Inv, TypeOK, IdentTyped, Local
<1>2. ASSUME NEW s \in Reqs, Is(s, "confirm")'
      PROVE  asked'[req'[s].pw] = <<req'[s].kind, req'[s].user>>
  <2>1. req'[s] \in Confirmation
    BY <1>2, RequestKinds DEF Is
  <2>2. asked[req'[s].pw] = <<req'[s].kind, req'[s].user>>
    BY <1>2 DEF Is, Inv, Asked
  <2>3. asked[req'[s].pw] # None
    BY <2>1, <2>2, KeyFacts DEF Confirmation
  <2>. QED BY <2>1, <2>2, <2>3 DEF AskedKept, Confirmation
<1>3. ASSUME NEW s \in Reqs, Is(s, "change")' PROVE req'[s].user \in users'
  BY <1>3 DEF Is, Inv, Asked
<1>4. Asked'
  BY <1>2, <1>3 DEF Asked, PasswordsAsked
<1>5. PasswordIsOwn'
  BY DEF PasswordIsOwn, PasswordsAsked, Local
<1>. QED BY <1>1, <1>4, <1>5 DEF Inv

\* So a step that leaves identities and questions alone keeps it.
LEMMA QuietKeeps ==
  ASSUME Inv, UNCHANGED <<users, ident, asked, spent>>,
         code' \in [Keys -> Codes \cup {None}], \A k \in Keys : code'[k] \in {code[k], None},
         req' \in [Reqs -> Request \cup {Idle}],
         \A s \in Reqs : \/ req'[s] \in {req[s], Idle}
                         \/ /\ req'[s].op = "confirm" =>
                                 asked[req'[s].pw] = <<req'[s].kind, req'[s].user>>
                            /\ req'[s].op = "change" => req'[s].user \in users
  PROVE  Inv'
<1>1. IdentTyped' /\ PasswordsAsked' /\ LoginOpensOneAccount' /\ AskedKept
  BY DEF Inv, TypeOK, IdentTyped, Asked, PasswordIsOwn, PasswordsAsked, LoginOpensOneAccount, Local,
     AskedKept
<1>2. \A k \in Keys : code'[k] # None => asked'[code'[k]] = k
  BY DEF Inv, Asked
<1>3. \A c \in spent' : asked'[c] # None
  BY DEF Inv, Asked
<1>. QED BY <1>1, <1>2, <1>3, StepKeeps DEF Inv, TypeOK

LEMMA InitInv == Init => Inv
<1> SUFFICES ASSUME Init PROVE Inv
  OBVIOUS
<1>1. \A u \in Users : ident[u] = [p \in Provider |-> None]
  BY DEF Init, NoIdentity
<1>2. \A u \in Users, p \in Provider : ident[u][p] = None
  BY <1>1
<1>3. TypeOK
  BY <1>1, <1>2, KeyFacts DEF Init, TypeOK, NoIdentity
<1>. QED
  BY <1>2, <1>3, KeyFacts DEF Init, Inv, Asked, PasswordIsOwn, LoginOpensOneAccount, Is, Local

-----------------------------------------------------------------------------
(* Every step                                                              *)

\* What a request is after a step of r that replaces it by q.
LEMMA OneReplaced ==
  ASSUME TypeOK, NEW r \in Reqs, NEW q \in Request \cup {Idle}, req' = [req EXCEPT ![r] = q]
  PROVE  /\ req' \in [Reqs -> Request \cup {Idle}] /\ req'[r] = q
         /\ \A s \in Reqs : s # r => req'[s] = req[s]
  BY DEF TypeOK

\* A request starts with what it has read.
Starting(r) ==
  \E u \in Users :
    \/ \E kind \in Kind : CheckAsker(r, kind, u) \/ MatchCode(r, kind, u)
    \/ CheckPassword(r, u)
    \/ \E p \in External, s \in Subjects : FindSubject(r, u, p, s) \/ CheckUnlinked(r, u, p, s)
    \/ \E p \in Provider : CheckOthers(r, u, p)

LEMMA StartShape ==
  ASSUME Inv, NEW r \in Reqs, Starting(r)
  PROVE  /\ req[r] = Idle /\ UNCHANGED <<users, ident, code, asked, spent>>
         /\ \E q \in Request :
              /\ req' = [req EXCEPT ![r] = q]
              /\ q.op = "confirm" =>
                   /\ code[<<q.kind, q.user>>] = q.pw /\ asked[q.pw] = <<q.kind, q.user>>
                   /\ q.at = "matched"
              /\ q.op = "change" => q.user \in users
              /\ q.op = "unlink" => Linked(q.user) \ {q.prov} # {}
<1> DEFINE Good(q) == /\ req' = [req EXCEPT ![r] = q]
                      /\ q.op = "confirm" =>
                           /\ code[<<q.kind, q.user>>] = q.pw /\ asked[q.pw] = <<q.kind, q.user>>
                           /\ q.at = "matched"
                      /\ q.op = "change" => q.user \in users
                      /\ q.op = "unlink" => Linked(q.user) \ {q.prov} # {}
           Same == req[r] = Idle /\ UNCHANGED <<users, ident, code, asked, spent>>
<1>1. PICK u \in Users :
        \/ \E kind \in Kind : CheckAsker(r, kind, u) \/ MatchCode(r, kind, u)
        \/ CheckPassword(r, u)
        \/ \E p \in External, s \in Subjects : FindSubject(r, u, p, s) \/ CheckUnlinked(r, u, p, s)
        \/ \E p \in Provider : CheckOthers(r, u, p)
  BY DEF Starting
<1>2. ASSUME NEW kind \in Kind, CheckAsker(r, kind, u) PROVE Same /\ \E q \in Request : Good(q)
  <2> DEFINE q == [op |-> "ask", kind |-> kind, user |-> u, at |-> "checked"]
  <2>1. q \in Request
    BY RequestKinds DEF Question
  <2>2. Same /\ Good(q)
    BY <1>2 DEF CheckAsker, Start, Unchanged
  <2>. QED BY <2>1, <2>2
<1>3. ASSUME NEW kind \in Kind, MatchCode(r, kind, u) PROVE Same /\ \E q \in Request : Good(q)
  <2>1. PICK c \in Codes :
          /\ code[<<kind, u>>] = c
          /\ Start(r, [op |-> "confirm", kind |-> kind, user |-> u, pw |-> c, at |-> "matched"])
    BY <1>3 DEF MatchCode, CodeMatches, Key
  <2> DEFINE q == [op |-> "confirm", kind |-> kind, user |-> u, pw |-> c, at |-> "matched"]
  <2>2. q \in Request
    BY RequestKinds DEF Confirmation
  <2>3. asked[c] = <<kind, u>>
    BY <2>1, KeyFacts DEF Inv, Asked
  <2>4. Same
    BY <1>3, <2>1 DEF MatchCode, Start, Unchanged
  <2>5. Good(q)
    BY <2>1, <2>3 DEF Start
  <2>. QED BY <2>2, <2>4, <2>5
<1>4. ASSUME CheckPassword(r, u) PROVE Same /\ \E q \in Request : Good(q)
  <2> DEFINE q == [op |-> "change", user |-> u, at |-> "checked"]
  <2>1. q \in Request
    BY RequestKinds DEF Change
  <2>2. u \in users
    BY <1>4, KeyFacts DEF CheckPassword, Inv, LoginOpensOneAccount
  <2>3. Same /\ Good(q)
    BY <1>4, <2>2 DEF CheckPassword, Start, Unchanged
  <2>. QED BY <2>1, <2>3
<1>5. ASSUME NEW p \in External, NEW s \in Subjects,
             FindSubject(r, u, p, s) \/ CheckUnlinked(r, u, p, s)
      PROVE  Same /\ \E q \in Request : Good(q)
  <2>1. PICK pc \in {"unknown", "member"} :
          Start(r, [op |-> "attach", user |-> u, prov |-> p, sub |-> s, at |-> pc])
    BY <1>5 DEF FindSubject, CheckUnlinked
  <2> DEFINE q == [op |-> "attach", user |-> u, prov |-> p, sub |-> s, at |-> pc]
  <2>2. q \in Request
    BY RequestKinds DEF Attachment
  <2>3. Same /\ Good(q)
    BY <1>5, <2>1 DEF FindSubject, CheckUnlinked, Start, Unchanged
  <2>. QED BY <2>2, <2>3
<1>6. ASSUME NEW p \in Provider, CheckOthers(r, u, p) PROVE Same /\ \E q \in Request : Good(q)
  <2> DEFINE q == [op |-> "unlink", user |-> u, prov |-> p, at |-> "checked"]
  <2>1. p \in External
    BY <1>6 DEF CheckOthers, Removable, Provider
  <2>2. q \in Request
    BY <2>1, RequestKinds DEF Unlinking
  <2>3. Linked(u) # {p}
    BY <1>6, FS_Singleton DEF CheckOthers, Removable
  <2>4. Linked(u) \ {p} # {}
    BY <1>6, <2>3 DEF CheckOthers
  <2>5. Same /\ Good(q)
    BY <1>6, <2>4 DEF CheckOthers, Start, Unchanged
  <2>. QED BY <2>2, <2>5
<1>. QED BY <1>1, <1>2, <1>3, <1>4, <1>5, <1>6

\* The pc of a request goes on.
LEMMA GoShape ==
  ASSUME Inv, NEW r \in Reqs, NEW pc, Go(r, pc),
         \/ Is(r, "confirm") /\ pc = "dropped"
         \/ Is(r, "attach") /\ pc \in {"member", "newcomer"}
  PROVE  \E q \in Request :
           /\ req' = [req EXCEPT ![r] = q] /\ q.op = req[r].op /\ q.at = pc
           /\ q.op = "confirm" => /\ q.pw = req[r].pw /\ q.kind = req[r].kind
                                  /\ q.user = req[r].user
<1> DEFINE q == [req[r] EXCEPT !.at = pc]
<1>1. req' = [req EXCEPT ![r] = q]
  BY DEF Go
<1>2. CASE Is(r, "confirm") /\ pc = "dropped"
  <2>1. req[r] \in Confirmation
    BY <1>2, RequestOf DEF Inv
  <2>2. q \in Confirmation /\ q.op = req[r].op /\ q.at = pc
        /\ q.pw = req[r].pw /\ q.kind = req[r].kind /\ q.user = req[r].user
    BY <1>2, <2>1 DEF Confirmation
  <2>. QED BY <1>1, <2>2, RequestKinds
<1>3. CASE Is(r, "attach") /\ pc \in {"member", "newcomer"}
  <2>1. req[r] \in Attachment
    BY <1>3, RequestOf DEF Inv
  <2>2. q \in Attachment /\ q.op = req[r].op /\ q.at = pc /\ q.op # "confirm"
    BY <1>3, <2>1 DEF Attachment
  <2>. QED BY <1>1, <2>2, RequestKinds
<1>. QED BY <1>2, <1>3

\* DELETE drops the code under the key of the request.
LEMMA DropShape ==
  ASSUME Inv, NEW r \in Reqs, DropCode(r)
  PROVE  /\ Is(r, "confirm") /\ req[r] \in Confirmation
         /\ UNCHANGED <<users, ident, asked, spent>> /\ Go(r, "dropped")
         /\ code' \in [Keys -> Codes \cup {None}]
         /\ code'[<<req[r].kind, req[r].user>>] = None
         /\ \A k \in Keys : k # <<req[r].kind, req[r].user>> => code'[k] = code[k]
         /\ \A k \in Keys : code'[k] \in {code[k], None}
<1>1. Is(r, "confirm") /\ req[r] \in Confirmation
  BY RequestOf DEF DropCode, At, Is, Inv
<1>2. <<req[r].kind, req[r].user>> \in Keys
  BY <1>1, KeyFacts DEF Confirmation
<1>. QED BY <1>1, <1>2 DEF DropCode, Unchanged, DroppedKeys, Key, Inv, TypeOK

\* The steps that only read, end, or drop a code.
LEMMA QuietInv ==
  ASSUME Inv, NEW r \in Reqs, Starting(r) \/ DropCode(r) \/ FindEmail(r) \/ Abort(r)
  PROVE  Inv'
<1>1. ASSUME NEW q \in Request \cup {Idle}, req' = [req EXCEPT ![r] = q],
             UNCHANGED <<users, ident, asked, spent>>, code' \in [Keys -> Codes \cup {None}],
             \A k \in Keys : code'[k] \in {code[k], None},
             q = Idle \/ /\ q.op = "confirm" => asked[q.pw] = <<q.kind, q.user>>
                         /\ q.op = "change" => q.user \in users
      PROVE  Inv'
  <2>1. /\ req' \in [Reqs -> Request \cup {Idle}] /\ req'[r] = q
        /\ \A s \in Reqs : s # r => req'[s] = req[s]
    BY <1>1, OneReplaced DEF Inv
  <2>. QED BY <1>1, <2>1, QuietKeeps
<1>2. CASE Starting(r)
  <2>1. PICK q \in Request :
          /\ req' = [req EXCEPT ![r] = q]
          /\ q.op = "confirm" => asked[q.pw] = <<q.kind, q.user>>
          /\ q.op = "change" => q.user \in users
    BY <1>2, StartShape
  <2>2. UNCHANGED <<users, ident, code, asked, spent>>
    BY <1>2, StartShape
  <2>. QED BY <1>1, <2>1, <2>2 DEF Inv, TypeOK
<1>3. CASE DropCode(r)
  <2>1. PICK q \in Request :
          /\ req' = [req EXCEPT ![r] = q] /\ q.op = req[r].op /\ q.at = "dropped"
          /\ q.op = "confirm" => /\ q.pw = req[r].pw /\ q.kind = req[r].kind
                                 /\ q.user = req[r].user
    <3>1. Is(r, "confirm") /\ Go(r, "dropped")
      BY <1>3, DropShape
    <3>. QED BY <3>1, GoShape
  <2>2. q.op = "confirm" /\ asked[q.pw] = <<q.kind, q.user>>
    BY <1>3, <2>1, DropShape DEF Is, Inv, Asked
  <2>. QED BY <1>1, <1>3, <2>1, <2>2, DropShape
<1>4. CASE FindEmail(r)
  <2>1. PICK pc \in {"member", "newcomer"} : Go(r, pc)
    BY <1>4 DEF FindEmail
  <2>2. Is(r, "attach")
    BY <1>4 DEF FindEmail, At, Is
  <2>3. PICK q \in Request : req' = [req EXCEPT ![r] = q] /\ q.op = "attach"
    BY <2>1, <2>2, GoShape DEF Is
  <2>. QED BY <1>1, <1>4, <2>3 DEF FindEmail, Unchanged, Inv, TypeOK
<1>5. CASE Abort(r)
  BY <1>1, <1>5 DEF Abort, Finish, Unchanged, Inv, TypeOK
<1>. QED BY <1>2, <1>3, <1>4, <1>5

\* A code is sent under the key it was asked for.
LEMMA SendInv == ASSUME Inv, NEW r \in Reqs, SendCode(r) PROVE Inv'
<1>1. req[r] \in Question
  BY RequestOf DEF SendCode, At, Is, Inv
<1> DEFINE key == <<req[r].kind, req[r].user>>
<1>2. key \in Keys /\ key # None
  BY <1>1, KeyFacts DEF Question
<1>3. PICK c \in Codes :
        /\ asked[c] = None
        /\ code' = [code EXCEPT ![key] = c] /\ asked' = [asked EXCEPT ![c] = key]
  BY DEF SendCode, Key
<1>4. UNCHANGED <<users, ident, spent>> /\ req' = [req EXCEPT ![r] = Idle]
  BY DEF SendCode, Finish, Unchanged
<1> HIDE DEF key
<1>5. /\ asked'[c] = key /\ \A d \in Codes : d # c => asked'[d] = asked[d]
      /\ asked' \in [Codes -> Keys \cup ({"change"} \X Users) \cup {None}]
      /\ code'[key] = c /\ \A k \in Keys : k # key => code'[k] = code[k]
      /\ code' \in [Keys -> Codes \cup {None}]
  BY <1>2, <1>3 DEF Inv, TypeOK
<1>6. AskedKept
  BY <1>3, <1>5 DEF AskedKept
<1>7. \A k \in Keys : code'[k] # None => asked'[code'[k]] = k
  <2> SUFFICES ASSUME NEW k \in Keys, k # key, code[k] # None PROVE asked'[code'[k]] = k
    BY <1>5
  <2>1. code'[k] = code[k] /\ code[k] \in Codes /\ asked[code[k]] = k /\ k # None
    BY <1>5, KeyFacts DEF Inv, Asked, TypeOK
  <2>2. code[k] # c
    BY <1>3, <2>1
  <2>. QED BY <1>5, <2>1, <2>2
<1>8. IdentTyped' /\ PasswordsAsked' /\ LoginOpensOneAccount'
  <2>1. \A u \in Users : Local(u) # None => Local(u) \in Codes
    BY KeyFacts DEF Inv, TypeOK, Local
  <2>. QED
    BY <1>4, <1>6, <2>1 DEF Inv, TypeOK, IdentTyped, Asked, PasswordIsOwn, PasswordsAsked,
       LoginOpensOneAccount, Local, AskedKept
<1>9. \A d \in spent' : asked'[d] # None
  BY <1>2, <1>4, <1>5 DEF Inv, Asked, TypeOK
<1>10. req' \in [Reqs -> Request \cup {Idle}] /\ \A s \in Reqs : req'[s] \in {req[s], Idle}
  BY <1>4 DEF Inv, TypeOK
<1>. QED BY <1>4, <1>5, <1>6, <1>7, <1>8, <1>9, <1>10, StepKeeps DEF Inv, TypeOK

\* What the commit of a confirmed password writes.
LEMMA PasswordInv ==
  ASSUME Inv, NEW r \in Reqs, Is(r, "confirm"), NEW possible, SetPassword(r, possible),
         users \subseteq users', users' \in SUBSET Users,
         possible => req[r].user \in users'
  PROVE  Inv'
<1> DEFINE u == req[r].user
           c == req[r].pw
<1>1. req[r] \in Confirmation /\ u \in Users /\ c \in Codes
      /\ asked[c] = <<req[r].kind, u>> /\ <<req[r].kind, u>> \in Keys
  BY RequestOf, KeyFacts DEF Inv, Asked, Confirmation
<1>2. asked[c] # None /\ asked[c][2] = u
  BY <1>1, KeyFacts DEF Confirmation
<1>3. UNCHANGED <<code, asked>> /\ req' = [req EXCEPT ![r] = Idle] /\ AskedKept
  BY DEF SetPassword, Finish, AskedKept
<1> HIDE DEF u, c
<1>4. IdentTyped' /\ PasswordsAsked' /\ LoginOpensOneAccount'
  <2>1. CASE possible
    <3>1. Write(u, "local", c)
      BY <2>1 DEF SetPassword, u, c
    <3>2. u \in users'
      BY <2>1 DEF u
    <3>3. asked'[c] # None /\ asked'[c][2] = u
      BY <1>2, <1>3
    <3>. QED BY <1>1, <1>3, <3>1, <3>2, <3>3, KeyFacts, WriteKeepsLogins
  <2>2. CASE ~ possible
    <3>1. ident' = ident
      BY <2>2 DEF SetPassword
    <3>. QED
      BY <1>3, <3>1 DEF Inv, TypeOK, IdentTyped, Asked, PasswordIsOwn, PasswordsAsked,
         LoginOpensOneAccount, Local
  <2>. QED BY <2>1, <2>2
<1>5. spent' \in SUBSET Codes /\ \A d \in spent' : asked'[d] # None
  <2>1. spent' = spent \/ spent' = spent \cup {c}
    BY DEF SetPassword, c
  <2>. QED BY <1>1, <1>2, <1>3, <2>1 DEF Inv, TypeOK, Asked
<1>6. req' \in [Reqs -> Request \cup {Idle}] /\ \A s \in Reqs : req'[s] \in {req[s], Idle}
  BY <1>3 DEF Inv, TypeOK
<1>7. \A k \in Keys : code'[k] # None => asked'[code'[k]] = k
  BY <1>3 DEF Inv, Asked
<1>. QED BY <1>3, <1>4, <1>5, <1>6, <1>7, StepKeeps DEF Inv, TypeOK

\* The commits of the three kinds of confirmation.
LEMMA ConfirmShape ==
  ASSUME Inv, NEW r \in Reqs, VerifyRegistration(r) \/ VerifyForgotten(r) \/ ConfirmAdding(r)
  PROVE  /\ Is(r, "confirm") /\ At(r, "confirm", "dropped")
         /\ users \subseteq users' /\ users' \in SUBSET Users
         /\ \E possible \in BOOLEAN :
              /\ SetPassword(r, possible)
              /\ possible => req[r].user \in users'
              /\ users' = users \/ (possible /\ users' = users \cup {req[r].user})
<1>1. Is(r, "confirm") /\ At(r, "confirm", "dropped") /\ req[r].user \in Users
  BY RequestOf DEF VerifyRegistration, VerifyForgotten, ConfirmAdding, Confirming, At, Is, Inv
<1>2. CASE VerifyRegistration(r)
  <2>1. SetPassword(r, req[r].user \notin users) /\ users' = users \cup {req[r].user}
    BY <1>2 DEF VerifyRegistration
  <2>2. CASE req[r].user \in users
    <3>1. SetPassword(r, FALSE)
      BY <2>1, <2>2 DEF SetPassword
    <3>. QED BY <1>1, <2>1, <2>2, <3>1 DEF Inv, TypeOK
  <2>3. CASE req[r].user \notin users
    <3>1. SetPassword(r, TRUE)
      BY <2>1, <2>3 DEF SetPassword
    <3>. QED BY <1>1, <2>1, <3>1 DEF Inv, TypeOK
  <2>. QED BY <2>2, <2>3
<1>3. ASSUME NEW ok, SetPassword(r, ok), ok => req[r].user \in users, users' = users
      PROVE  /\ users \subseteq users' /\ users' \in SUBSET Users
             /\ \E possible \in BOOLEAN :
                  /\ SetPassword(r, possible)
                  /\ possible => req[r].user \in users'
                  /\ users' = users \/ (possible /\ users' = users \cup {req[r].user})
  <2>1. CASE ok
    <3>1. SetPassword(r, TRUE)
      BY <1>3, <2>1 DEF SetPassword
    <3>. QED BY <1>3, <2>1, <3>1 DEF Inv, TypeOK
  <2>2. CASE ~ ok
    <3>1. SetPassword(r, FALSE)
      BY <1>3, <2>2 DEF SetPassword
    <3>. QED BY <1>3, <2>2, <3>1 DEF Inv, TypeOK
  <2>. QED BY <2>1, <2>2
<1>4. CASE VerifyForgotten(r)
  <2>1. ident[req[r].user]["local"] # None => req[r].user \in users
    BY <1>1, KeyFacts DEF Inv, LoginOpensOneAccount
  <2>. QED BY <1>1, <1>3, <1>4, <2>1 DEF VerifyForgotten
<1>5. CASE ConfirmAdding(r)
  BY <1>1, <1>3, <1>5 DEF ConfirmAdding, UserExists
<1>. QED BY <1>2, <1>4, <1>5

\* A new password is asked for and written at once.
LEMMA ChangeInv == ASSUME Inv, NEW r \in Reqs, ChangePassword(r) PROVE Inv'
<1> DEFINE u == req[r].user
<1>1. u \in Users /\ u \in users
  BY RequestOf DEF ChangePassword, At, Is, Inv, Asked
<1>2. PICK c \in Codes :
        asked[c] = None /\ asked' = [asked EXCEPT ![c] = <<"change", u>>] /\ Write(u, "local", c)
  BY DEF ChangePassword
<1>3. UNCHANGED <<users, code, spent>> /\ req' = [req EXCEPT ![r] = Idle]
  BY DEF ChangePassword, Finish
<1> HIDE DEF u
<1> DEFINE pair == <<"change", u>>
<1>4. pair \in {"change"} \X Users /\ pair # None /\ pair[2] = u
  BY <1>1, KeyFacts
<1> HIDE DEF pair
<1>5. /\ asked'[c] = pair /\ \A d \in Codes : d # c => asked'[d] = asked[d]
      /\ asked' \in [Codes -> Keys \cup ({"change"} \X Users) \cup {None}]
  BY <1>2, <1>4 DEF Inv, TypeOK, pair
<1>6. AskedKept
  BY <1>2, <1>5 DEF AskedKept
<1>7. IdentTyped' /\ PasswordsAsked' /\ LoginOpensOneAccount'
  BY <1>1, <1>2, <1>3, <1>4, <1>5, <1>6, KeyFacts, WriteKeepsLogins
<1>8. \A k \in Keys : code'[k] # None => asked'[code'[k]] = k
  <2> SUFFICES ASSUME NEW k \in Keys, code[k] # None PROVE asked'[code[k]] = k
    BY <1>3
  <2>1. code[k] \in Codes /\ asked[code[k]] = k /\ k # None
    BY KeyFacts DEF Inv, Asked, TypeOK
  <2>. QED BY <1>6, <2>1 DEF AskedKept
<1>9. \A d \in spent' : asked'[d] # None
  BY <1>3, <1>6 DEF Inv, Asked, TypeOK, AskedKept
<1>10. req' \in [Reqs -> Request \cup {Idle}] /\ \A s \in Reqs : req'[s] \in {req[s], Idle}
  BY <1>3 DEF Inv, TypeOK
<1>. QED BY <1>3, <1>5, <1>6, <1>7, <1>8, <1>9, <1>10, StepKeeps DEF Inv, TypeOK

\* What an attachment or the removal of an identity writes.
LEMMA AttachShape ==
  ASSUME Inv, NEW r \in Reqs, Attach(r)
  PROVE  /\ req[r] \in Attachment /\ UNCHANGED <<code, asked, spent>> /\ Finish(r)
         /\ \/ UNCHANGED <<users, ident>>
            \/ /\ Insertable(req[r].user, req[r].prov, req[r].sub)
               /\ Write(req[r].user, req[r].prov, req[r].sub)
               /\ users' = users \cup {req[r].user}
<1>1. req[r] \in Attachment
  BY RequestOf DEF Attach, At, Is, Inv
<1>. QED BY <1>1 DEF Attach, Unchanged, UserExists

LEMMA AttachInv == ASSUME Inv, NEW r \in Reqs, Attach(r) PROVE Inv'
<1>1. /\ req[r] \in Attachment /\ UNCHANGED <<code, asked, spent>>
      /\ req' = [req EXCEPT ![r] = Idle] /\ AskedKept
  BY AttachShape DEF Finish, AskedKept
<1>2. req' \in [Reqs -> Request \cup {Idle}] /\ \A s \in Reqs : req'[s] \in {req[s], Idle}
  BY <1>1 DEF Inv, TypeOK
<1>3. CASE UNCHANGED <<users, ident>>
  BY <1>1, <1>2, <1>3, QuietKeeps DEF Inv, TypeOK
<1>4. CASE /\ Insertable(req[r].user, req[r].prov, req[r].sub)
           /\ Write(req[r].user, req[r].prov, req[r].sub)
           /\ users' = users \cup {req[r].user}
  <2>1. /\ req[r].user \in Users /\ req[r].prov \in External /\ req[r].prov \in Provider
        /\ req[r].sub \in Subjects
    BY <1>1, KeyFacts DEF Attachment
  <2>2. \A v \in Users : ident[v][req[r].prov] # req[r].sub
    BY <1>4, <2>1 DEF Insertable
  <2>3. IdentTyped' /\ PasswordsAsked' /\ LoginOpensOneAccount'
    BY <1>1, <1>4, <2>1, <2>2, WriteKeepsLogins
  <2>4. \A k \in Keys : code'[k] # None => asked'[code'[k]] = k
    BY <1>1 DEF Inv, Asked
  <2>5. \A d \in spent' : asked'[d] # None
    BY <1>1 DEF Inv, Asked
  <2>. QED BY <1>1, <1>2, <1>4, <2>1, <2>3, <2>4, <2>5, StepKeeps DEF Inv, TypeOK
<1>. QED BY <1>3, <1>4, AttachShape

LEMMA DeleteInv == ASSUME Inv, NEW r \in Reqs, DeleteIdentity(r) PROVE Inv'
<1>1. req[r] \in Unlinking
  BY RequestOf DEF DeleteIdentity, At, Is, Inv
<1>2. /\ UNCHANGED <<users, code, asked, spent>> /\ Write(req[r].user, req[r].prov, None)
      /\ AskedKept
  BY DEF DeleteIdentity, AskedKept
<1>3. req' \in [Reqs -> Request \cup {Idle}] /\ \A s \in Reqs : req'[s] \in {req[s], Idle}
  BY DEF DeleteIdentity, Inv, TypeOK
<1>4. IdentTyped' /\ PasswordsAsked' /\ LoginOpensOneAccount'
  BY <1>1, <1>2, KeyFacts, WriteKeepsLogins DEF Unlinking
<1>5. \A k \in Keys : code'[k] # None => asked'[code'[k]] = k
  BY <1>2 DEF Inv, Asked
<1>6. \A d \in spent' : asked'[d] # None
  BY <1>2 DEF Inv, Asked
<1>. QED BY <1>2, <1>3, <1>4, <1>5, <1>6, StepKeeps DEF Inv, TypeOK

\* A purge takes the account with all that opened it, and ends whoever is
\* changing its password.
LEMMA PurgeShape ==
  ASSUME Inv, NEW u \in Users, PurgeAccount(u)
  PROVE  /\ ident' \in [Users -> [Provider -> Codes \cup Subjects \cup {None}]]
         /\ \A p \in Provider : ident'[u][p] = None
         /\ \A v \in Users : v # u => ident'[v] = ident[v]
         /\ users' = users \ {u} /\ UNCHANGED <<asked, spent>>
         /\ \A r \in Reqs : /\ req'[r] \in {req[r], Idle}
                            /\ req'[r] # Idle => req[r].user # u \/ ~ Own(req[r])
         /\ req' \in [Reqs -> Request \cup {Idle}]
         /\ code' \in [Keys -> Codes \cup {None}] /\ \A k \in Keys : code'[k] \in {code[k], None}
<1>1. NoIdentity \in [Provider -> Codes \cup Subjects \cup {None}]
      /\ \A p \in Provider : NoIdentity[p] = None
  BY DEF NoIdentity
<1>2. /\ ident' \in [Users -> [Provider -> Codes \cup Subjects \cup {None}]]
      /\ ident'[u] = NoIdentity /\ \A v \in Users : v # u => ident'[v] = ident[v]
  BY <1>1 DEF PurgeAccount, Inv, TypeOK
<1>. QED BY <1>1, <1>2 DEF PurgeAccount, Inv, TypeOK

LEMMA PurgeInv == ASSUME Inv, NEW u \in Users, PurgeAccount(u) PROVE Inv'
<1>1. \A v \in Users, p \in Provider : ident'[v][p] # None => v # u /\ ident'[v][p] = ident[v][p]
  BY PurgeShape
<1>2. TypeOK'
  <2>1. \A v \in Users : ident'[v]["local"] \notin Subjects
                         /\ \A p \in External : ident'[v][p] \notin Codes
    BY <1>1, KeyFacts DEF Inv, TypeOK
  <2>. QED BY <2>1, PurgeShape DEF Inv, TypeOK
<1>3. LoginOpensOneAccount'
  BY <1>1, PurgeShape DEF Inv, LoginOpensOneAccount
<1>4. PasswordIsOwn'
  BY <1>1, PurgeShape, KeyFacts DEF Inv, PasswordIsOwn
<1>5. \A r \in Reqs : Is(r, "change")' => req'[r].user \in users'
  BY PurgeShape DEF PurgeAccount, Own, Is, Inv, Asked
<1>6. Asked'
  <2>1. \A k \in Keys : code'[k] # None => asked'[code'[k]] = k
    BY PurgeShape DEF Inv, Asked
  <2>2. \A v \in Users : Local(v)' # None => asked'[Local(v)'] # None
    BY <1>1, PurgeShape, KeyFacts DEF Inv, Asked, Local
  <2>. QED BY <1>5, <2>1, <2>2, PurgeShape DEF Inv, Asked, Is
<1>. QED BY <1>2, <1>3, <1>4, <1>6 DEF Inv

\* Every step keeps the invariant.
LEMMA NextInv == Inv /\ [Next]_vars => Inv'
<1> SUFFICES ASSUME Inv, [Next]_vars PROVE Inv'
  OBVIOUS
<1>1. ASSUME NEW r \in Reqs, Handle(r) PROVE Inv'
  <2>1. CASE VerifyRegistration(r) \/ VerifyForgotten(r) \/ ConfirmAdding(r)
    BY <2>1, ConfirmShape, PasswordInv
  <2>. QED
    BY <1>1, <2>1, QuietInv, SendInv, ChangeInv, AttachInv, DeleteInv DEF Handle, Starting
<1>2. ASSUME NEW k \in Keys, CodeExpires(k) PROVE Inv'
  BY <1>2, QuietKeeps DEF CodeExpires, Unchanged, Inv, TypeOK
<1>3. CASE UNCHANGED vars
  BY <1>3, QuietKeeps DEF vars, Inv, TypeOK
<1>. QED BY <1>1, <1>2, <1>3, PurgeInv DEF Next

\* The invariant holds throughout.
THEOREM Invariant == Spec => []Inv
  BY InitInv, NextInv, PTL DEF Spec

\* Every variable has its type.
THEOREM TypeCorrect == Spec => []TypeOK
<1>1. Inv => TypeOK
  BY DEF Inv
<1>. QED BY <1>1, Invariant, PTL

\* What a user logs in with opens one account, and one that exists, however the
\* transactions that link, register and purge are ordered.
THEOREM OneAccount == Spec => []LoginOpensOneAccount
<1>1. Inv => LoginOpensOneAccount
  BY DEF Inv
<1>. QED BY <1>1, Invariant, PTL

\* Nobody's password was asked for under another address, whatever has become
\* of the code meanwhile.
THEOREM OwnPassword == Spec => []PasswordIsOwn
<1>1. Inv => PasswordIsOwn
  BY DEF Inv
<1>. QED BY <1>1, Invariant, PTL

-----------------------------------------------------------------------------
(* While no request overtakes another                                      *)

MCInv == Inv /\ SerialInv

\* What one step says about `serial`.
Watched ==
  serial' = (serial /\ \A r \in Reqs :
               req[r] # Idle /\ <<ident', req'>> # <<ident, req>> => req'[r] # req[r])

\* A write gives its user something to log in with, or leaves him something.
LEMMA WriteKeepsHasLogin ==
  ASSUME Inv, HasLogin, NEW u \in Users, NEW p \in Provider,
         NEW cred \in Codes \cup Subjects \cup {None}, Write(u, p, cred),
         cred # None \/ Linked(u) \ {p} # {}, users' \subseteq users \cup {u}
  PROVE  HasLogin'
<1>1. /\ ident'[u][p] = cred
      /\ \A v \in Users, x \in Provider : v # u \/ x # p => ident'[v][x] = ident[v][x]
  BY WriteShape DEF Inv
<1>2. \E x \in Provider : ident'[u][x] # None
  <2>1. CASE cred # None
    BY <1>1, <2>1
  <2>2. CASE Linked(u) \ {p} # {}
    <3>1. PICK x \in Provider : x # p /\ ident[u][x] # None
      BY <2>2 DEF Linked
    <3>. QED BY <1>1, <3>1
  <2>. QED BY <2>1, <2>2
<1>3. ASSUME NEW v \in users', v # u PROVE \E x \in Provider : ident'[v][x] # None
  <2>1. v \in users /\ v \in Users
    BY <1>3 DEF Inv, TypeOK
  <2>2. PICK x \in Provider : ident[v][x] # None
    BY <2>1 DEF HasLogin, Linked
  <2>. QED BY <1>1, <1>3, <2>1, <2>2
<1>. QED BY <1>2, <1>3 DEF HasLogin, Linked

\* A request that takes a step is alone, and stays it.
LEMMA OneMoves ==
  ASSUME MCInv, NEW r \in Reqs, Handle(r), Watched, serial'
  PROVE  serial /\ \A s \in Reqs : s # r => req[s] = Idle /\ req'[s] = Idle
<1>1. serial
  BY DEF Watched
<1>2. CASE Starting(r)
  <2>1. PICK q \in Request : req[r] = Idle /\ req' = [req EXCEPT ![r] = q]
    BY <1>2, StartShape DEF MCInv
  <2>2. q # Idle /\ req'[r] = q /\ \A s \in Reqs : s # r => req'[s] = req[s]
    BY <2>1, IdentityAssumption DEF MCInv, Inv, TypeOK
  <2>. QED BY <1>1, <2>1, <2>2 DEF Watched
<1>3. CASE ~ Starting(r)
  <2>1. req[r] # Idle
    BY <1>3 DEF Handle, Starting, SendCode, DropCode, VerifyRegistration, VerifyForgotten,
       ConfirmAdding, ChangePassword, FindEmail, Attach, DeleteIdentity, Abort, Confirming, At
  <2>2. \A s \in Reqs : s # r => req[s] = Idle
    BY <1>1, <2>1 DEF MCInv, SerialInv, Alone
  <2>3. \A s \in Reqs : req[s] = Idle /\ s # r => req'[s] = Idle
    BY <1>3 DEF Handle, Starting, SendCode, DropCode, VerifyRegistration, VerifyForgotten,
       ConfirmAdding, ChangePassword, FindEmail, Attach, DeleteIdentity, Abort, SetPassword, Go,
       Finish, MCInv, Inv, TypeOK
  <2>. QED BY <1>1, <2>2, <2>3
<1>. QED BY <1>2, <1>3

\* So its own step is all that its reads and the waiting codes must survive.
LEMMA MoveKeepsSerial ==
  ASSUME MCInv, NEW r \in Reqs, Handle(r), Watched,
         serial => /\ HasLogin' /\ \A k \in Keys : code'[k] \notin spent'
                   /\ req'[r] # Idle => Current(r)'
  PROVE  SerialInv'
  BY OneMoves DEF SerialInv, Alone

\* A start has read what is there.
LEMMA StartKeepsSerial ==
  ASSUME MCInv, NEW r \in Reqs, Starting(r), serial
  PROVE  /\ HasLogin' /\ \A k \in Keys : code'[k] \notin spent'
         /\ Current(r)'
<1>1. UNCHANGED <<users, ident, code, asked, spent>>
  BY StartShape DEF MCInv
<1>2. PICK q \in Request :
        /\ req' = [req EXCEPT ![r] = q]
        /\ q.op = "confirm" =>
             /\ code[<<q.kind, q.user>>] = q.pw /\ asked[q.pw] = <<q.kind, q.user>>
             /\ q.at = "matched"
        /\ q.op = "unlink" => Linked(q.user) \ {q.prov} # {}
  BY StartShape DEF MCInv
<1>3. req'[r] = q
  BY <1>2, OneReplaced DEF MCInv, Inv
<1>4. HasLogin' /\ \A k \in Keys : code'[k] \notin spent'
  BY <1>1 DEF MCInv, SerialInv, HasLogin, Linked
<1>5. q.op = "confirm" => q \in Confirmation /\ <<q.kind, q.user>> \in Keys
  BY RequestKinds, KeyFacts DEF Confirmation
<1>6. q.op = "confirm" => q.pw \notin spent
  BY <1>2, <1>5 DEF MCInv, SerialInv
<1>7. Current(r)'
  BY <1>1, <1>2, <1>3, <1>6 DEF Current, Is, At, Linked
<1>. QED BY <1>4, <1>7

\* A code that is sent has not taken effect.
LEMMA SendKeepsSerial ==
  ASSUME MCInv, NEW r \in Reqs, SendCode(r), serial
  PROVE  /\ HasLogin' /\ \A k \in Keys : code'[k] \notin spent'
         /\ req'[r] = Idle
<1>1. PICK c \in Codes : /\ asked[c] = None
                         /\ code' = [code EXCEPT ![<<req[r].kind, req[r].user>>] = c]
  BY DEF SendCode, Key
<1>2. c \notin spent
  BY <1>1 DEF MCInv, Inv, Asked
<1>3. UNCHANGED <<users, ident, spent>> /\ req' = [req EXCEPT ![r] = Idle]
  BY DEF SendCode, Finish, Unchanged
<1>4. \A k \in Keys : code'[k] \in {code[k], c}
  BY <1>1 DEF MCInv, Inv, TypeOK
<1>5. req'[r] = Idle
  BY <1>3 DEF MCInv, Inv, TypeOK
<1>. QED BY <1>2, <1>3, <1>4, <1>5 DEF MCInv, SerialInv, HasLogin, Linked

\* What was compared is gone once the request has dropped it.
LEMMA DropKeepsSerial ==
  ASSUME MCInv, NEW r \in Reqs, DropCode(r), serial
  PROVE  /\ HasLogin' /\ \A k \in Keys : code'[k] \notin spent'
         /\ Current(r)'
<1>1. /\ Is(r, "confirm") /\ UNCHANGED <<users, ident, asked, spent>> /\ Go(r, "dropped")
      /\ code'[<<req[r].kind, req[r].user>>] = None /\ \A k \in Keys : code'[k] \in {code[k], None}
  BY DropShape DEF MCInv
<1>2. PICK q \in Request :
        /\ req' = [req EXCEPT ![r] = q] /\ q.op = req[r].op /\ q.at = "dropped"
        /\ q.op = "confirm" => /\ q.pw = req[r].pw /\ q.kind = req[r].kind
                               /\ q.user = req[r].user
  BY <1>1, GoShape DEF MCInv
<1>3. req'[r] = q /\ q.op = "confirm"
  BY <1>1, <1>2, OneReplaced DEF MCInv, Inv, Is
<1>4. req[r].pw \notin spent
  BY <1>1 DEF MCInv, SerialInv, Current, Is
<1>5. Current(r)'
  BY <1>1, <1>2, <1>3, <1>4 DEF Current, Is, At
<1>6. None \notin spent
  BY KeyFacts DEF MCInv, Inv, TypeOK
<1>. QED BY <1>1, <1>5, <1>6 DEF MCInv, SerialInv, HasLogin, Linked

\* A password is confirmed with a code that waits nowhere any more.
LEMMA PasswordKeepsSerial ==
  ASSUME MCInv, NEW r \in Reqs, At(r, "confirm", "dropped"), serial,
         NEW possible, SetPassword(r, possible),
         users' = users \/ (possible /\ users' = users \cup {req[r].user})
  PROVE  /\ HasLogin' /\ \A k \in Keys : code'[k] \notin spent'
         /\ req'[r] = Idle
<1> DEFINE u == req[r].user
           c == req[r].pw
           key == <<req[r].kind, req[r].user>>
<1>1. Is(r, "confirm")
  BY DEF At, Is
<1>3. u \in Users /\ c \in Codes /\ asked[c] = key
  BY <1>1, RequestOf DEF MCInv, Inv, Asked, Confirmation
<1>4. code[key] = None
  BY DEF MCInv, SerialInv, Current, At
<1>5. code' = code /\ req' = [req EXCEPT ![r] = Idle]
  BY DEF SetPassword, Finish
<1>6. spent' \subseteq spent \cup {c}
  BY DEF SetPassword
<1>7. \A k \in Keys : code[k] # c
  <2> SUFFICES ASSUME NEW k \in Keys, code[k] = c PROVE FALSE
    OBVIOUS
  <2>1. code[k] # None
    BY <1>3, KeyFacts
  <2>2. k = key
    BY <1>3, <2>1 DEF MCInv, Inv, Asked
  <2>. QED BY <1>4, <2>1, <2>2
<1>8. HasLogin'
  <2>1. CASE possible
    <3>1. Write(u, "local", c) /\ users' \subseteq users \cup {u}
      BY <2>1 DEF SetPassword
    <3>. QED BY <1>3, <3>1, KeyFacts, WriteKeepsHasLogin DEF MCInv, SerialInv
  <2>2. CASE ~ possible
    BY <2>2 DEF SetPassword, MCInv, SerialInv, HasLogin, Linked
  <2>. QED BY <2>1, <2>2
<1>9. req'[r] = Idle
  BY <1>5 DEF MCInv, Inv, TypeOK
<1>. QED BY <1>5, <1>6, <1>7, <1>8, <1>9 DEF MCInv, SerialInv

LEMMA ConfirmKeepsSerial ==
  ASSUME MCInv, NEW r \in Reqs, VerifyRegistration(r) \/ VerifyForgotten(r) \/ ConfirmAdding(r), serial
  PROVE  /\ HasLogin' /\ \A k \in Keys : code'[k] \notin spent'
         /\ req'[r] = Idle
  BY ConfirmShape, PasswordKeepsSerial DEF MCInv

\* The other steps that write an identity touch no code.
LEMMA LinkKeepsSerial ==
  ASSUME MCInv, NEW r \in Reqs, ChangePassword(r) \/ Attach(r) \/ DeleteIdentity(r), serial
  PROVE  /\ HasLogin' /\ \A k \in Keys : code'[k] \notin spent'
         /\ req'[r] = Idle
<1>1. UNCHANGED <<code, spent>>
  BY AttachShape DEF ChangePassword, DeleteIdentity, MCInv
<1>2. req'[r] = Idle
  BY AttachShape DEF ChangePassword, DeleteIdentity, Finish, MCInv, Inv, TypeOK
<1>3. CASE ChangePassword(r)
  <2>1. req[r].user \in Users
    BY <1>3, RequestOf DEF ChangePassword, At, MCInv, Inv
  <2>2. PICK c \in Codes : Write(req[r].user, "local", c)
    BY <1>3 DEF ChangePassword
  <2>3. HasLogin'
    BY <1>3, <2>1, <2>2, KeyFacts, WriteKeepsHasLogin DEF ChangePassword, MCInv, SerialInv
  <2>. QED BY <1>1, <1>2, <2>3 DEF MCInv, SerialInv
<1>4. CASE Attach(r)
  <2>1. /\ req[r] \in Attachment
        /\ \/ UNCHANGED <<users, ident>>
           \/ /\ Write(req[r].user, req[r].prov, req[r].sub)
              /\ users' = users \cup {req[r].user}
    BY <1>4, AttachShape DEF MCInv
  <2>2. req[r].user \in Users /\ req[r].prov \in Provider /\ req[r].sub \in Subjects
    BY <2>1, KeyFacts DEF Attachment
  <2>3. CASE UNCHANGED <<users, ident>>
    BY <1>1, <1>2, <2>3 DEF MCInv, SerialInv, HasLogin, Linked
  <2>4. CASE Write(req[r].user, req[r].prov, req[r].sub) /\ users' = users \cup {req[r].user}
    <3>1. HasLogin'
      BY <2>2, <2>4, KeyFacts, WriteKeepsHasLogin DEF MCInv, SerialInv
    <3>. QED BY <1>1, <1>2, <3>1 DEF MCInv, SerialInv
  <2>. QED BY <2>1, <2>3, <2>4
<1>5. CASE DeleteIdentity(r)
  <2>1. Is(r, "unlink")
    BY <1>5 DEF DeleteIdentity, At, Is
  <2>2. req[r].user \in Users /\ req[r].prov \in Provider
    BY <2>1, RequestOf, KeyFacts DEF MCInv, Inv, Unlinking
  <2>3. Linked(req[r].user) \ {req[r].prov} # {}
    BY <2>1 DEF MCInv, SerialInv, Current, Is
  <2>4. HasLogin'
    BY <1>5, <2>2, <2>3, WriteKeepsHasLogin DEF DeleteIdentity, MCInv, SerialInv
  <2>. QED BY <1>1, <1>2, <2>4 DEF MCInv, SerialInv
<1>. QED BY <1>3, <1>4, <1>5

\* To read or to give up writes nothing.
LEMMA ReadKeepsSerial ==
  ASSUME MCInv, NEW r \in Reqs, FindEmail(r) \/ Abort(r), serial
  PROVE  /\ HasLogin' /\ \A k \in Keys : code'[k] \notin spent'
         /\ req'[r] # Idle => Current(r)'
<1>1. UNCHANGED <<users, ident, code, spent>>
  BY DEF FindEmail, Abort, Unchanged
<1>2. HasLogin' /\ \A k \in Keys : code'[k] \notin spent'
  BY <1>1 DEF MCInv, SerialInv, HasLogin, Linked
<1>3. CASE FindEmail(r)
  <2>1. Is(r, "attach") /\ \E pc \in {"member", "newcomer"} : Go(r, pc)
    BY <1>3 DEF FindEmail, At, Is
  <2>2. PICK q \in Request : req' = [req EXCEPT ![r] = q] /\ q.op = "attach"
    BY <2>1, GoShape DEF Is, MCInv
  <2>3. req'[r].op = "attach"
    BY <2>2 DEF MCInv, Inv, TypeOK
  <2>. QED BY <1>2, <2>3 DEF Current, Is, At
<1>4. CASE Abort(r)
  <2>1. req'[r] = Idle
    BY <1>4 DEF Abort, Finish, MCInv, Inv, TypeOK
  <2>. QED BY <1>2, <2>1
<1>. QED BY <1>3, <1>4

\* A purge changes what its user logs in with: it leaves no request in flight.
LEMMA PurgeKeepsSerial ==
  ASSUME MCInv, NEW u \in Users, PurgeAccount(u), Watched
  PROVE  SerialInv'
<1> SUFFICES ASSUME serial'
             PROVE  /\ HasLogin' /\ \A k \in Keys : code'[k] \notin spent'
                    /\ \A r \in Reqs : req'[r] = Idle
  BY DEF SerialInv
<1>1. serial
  BY DEF Watched
<1>2. PICK p \in Provider : ident[u][p] # None
  BY <1>1 DEF PurgeAccount, MCInv, SerialInv, HasLogin, Linked
<1>3. ident' # ident
  BY <1>2, PurgeShape DEF MCInv
<1>4. \A r \in Reqs : req'[r] = Idle
  BY <1>3, PurgeShape DEF Watched, MCInv
<1>5. HasLogin'
  BY <1>1, PurgeShape DEF MCInv, Inv, TypeOK, SerialInv, HasLogin, Linked
<1>6. \A k \in Keys : code'[k] \notin spent'
  BY <1>1, PurgeShape, KeyFacts DEF MCInv, Inv, TypeOK, SerialInv
<1>. QED BY <1>4, <1>5, <1>6

\* An expiry takes away a code that was compared, at worst.
LEMMA ExpiryKeepsSerial ==
  ASSUME MCInv, NEW k \in Keys, CodeExpires(k), Watched
  PROVE  SerialInv'
<1>1. UNCHANGED <<users, ident, asked, spent, req>> /\ \A x \in Keys : code'[x] \in {code[x], None}
  BY DEF CodeExpires, Unchanged, MCInv, Inv, TypeOK
<1>2. serial' => serial
  BY DEF Watched
<1>3. ASSUME serial, NEW r \in Reqs, Current(r) PROVE Current(r)'
  <2>1. Is(r, "confirm") => <<req[r].kind, req[r].user>> \in Keys
    BY RequestOf, KeyFacts DEF MCInv, Inv, Confirmation
  <2>. QED BY <1>1, <1>3, <2>1 DEF Current, Is, At, Linked
<1>4. None \notin spent
  BY KeyFacts DEF MCInv, Inv, TypeOK
<1>. QED BY <1>1, <1>2, <1>3, <1>4 DEF MCInv, SerialInv, HasLogin, Linked, Alone

LEMMA SerialStep == ASSUME MCInv, MCNext PROVE SerialInv'
<1>1. Watched
  BY DEF MCNext, Watched
<1>2. ASSUME NEW r \in Reqs, Handle(r) PROVE SerialInv'
  BY <1>1, <1>2, MoveKeepsSerial, StartKeepsSerial, SendKeepsSerial, DropKeepsSerial,
     ConfirmKeepsSerial, LinkKeepsSerial, ReadKeepsSerial DEF Handle, Starting
<1>. QED BY <1>1, <1>2, PurgeKeepsSerial, ExpiryKeepsSerial DEF MCNext, Next

\* Requests that come one at a time keep both invariants.
THEOREM SerialRequests == MCSpec => []MCInv
<1>1. MCInit => MCInv
  BY InitInv, KeyFacts DEF MCInit, Init, MCInv, SerialInv, HasLogin
<1>2. MCInv /\ [MCNext]_<<vars, serial>> => MCInv'
  <2> SUFFICES ASSUME MCInv, [MCNext]_<<vars, serial>> PROVE MCInv'
    OBVIOUS
  <2>1. Inv'
    BY NextInv DEF MCInv, MCNext
  <2>2. CASE UNCHANGED <<vars, serial>>
    BY <2>1, <2>2 DEF MCInv, SerialInv, HasLogin, Linked, Alone, Current, Is, At, vars
  <2>. QED BY <2>1, <2>2, SerialStep DEF MCInv
<1>. QED BY <1>1, <1>2, PTL DEF MCSpec

\* Without a race unlink_identity, which refuses the last identity it counts,
\* leaves every account something to log in with, and so does every other step.
THEOREM LoginRemains == MCSpec => []SerialHasLogin
<1>1. MCInv => SerialHasLogin
  BY DEF MCInv, SerialInv, SerialHasLogin
<1>. QED BY <1>1, SerialRequests, PTL

\* Without a race get_email_verification_data deletes the code it has compared
\* and no other, and no code that has set a password sets another.
THEOREM CodeSpentOnce == MCSpec => SerialCodeSpentOnce
<1>1. MCInv /\ [MCNext]_<<vars, serial>> => [serial => OwnCodeDropped /\ EffectOnce]_vars
  <2> SUFFICES ASSUME MCInv, Next, serial PROVE OwnCodeDropped /\ EffectOnce
    BY DEF MCNext
  <2>1. ASSUME NEW r \in Reqs, DropCode(r), NEW k \in Keys, code'[k] # code[k]
        PROVE  code[k] = req[r].pw
    <3>1. k = <<req[r].kind, req[r].user>> /\ code'[k] = None
      BY <2>1, DropShape DEF MCInv
    <3>2. code[k] \in {req[r].pw, None}
      BY <2>1, <3>1 DEF DropCode, At, MCInv, SerialInv, Current
    <3>. QED BY <2>1, <3>1, <3>2
  <2>2. None \notin spent
    BY KeyFacts DEF MCInv, Inv, TypeOK
  <2>3. ASSUME NEW r \in Reqs, Handle(r), NEW u \in Users, ident'[u]["local"] # ident[u]["local"]
        PROVE  ident'[u]["local"] \notin spent
    <3>1. PICK v \in Users, p \in Provider, cred \in Codes \cup Subjects \cup {None} :
            Write(v, p, cred) /\ (p = "local" => cred \notin spent)
      <4>1. CASE VerifyRegistration(r) \/ VerifyForgotten(r) \/ ConfirmAdding(r)
        <5>1. Write(req[r].user, "local", req[r].pw)
          BY <2>3, <4>1, ConfirmShape DEF SetPassword, MCInv
        <5>2. Is(r, "confirm") /\ req[r] \in Confirmation
          BY <4>1, ConfirmShape, RequestOf DEF MCInv, Inv
        <5>3. req[r].pw \notin spent
          BY <5>2 DEF MCInv, SerialInv, Current, Is
        <5>. QED BY <5>1, <5>2, <5>3, KeyFacts DEF Confirmation
      <4>2. CASE ChangePassword(r)
        <5>1. req[r].user \in Users
          BY <4>2, RequestOf DEF ChangePassword, At, MCInv, Inv
        <5>2. PICK c \in Codes : asked[c] = None /\ Write(req[r].user, "local", c)
          BY <4>2 DEF ChangePassword
        <5>3. c \notin spent
          BY <5>2 DEF MCInv, Inv, Asked
        <5>. QED BY <5>1, <5>2, <5>3, KeyFacts
      <4>3. CASE Attach(r)
        <5>1. Write(req[r].user, req[r].prov, req[r].sub) /\ req[r] \in Attachment
          BY <2>3, <4>3, AttachShape DEF MCInv
        <5>. QED BY <5>1, KeyFacts DEF Attachment
      <4>4. CASE DeleteIdentity(r)
        <5>1. Write(req[r].user, req[r].prov, None) /\ req[r] \in Unlinking
          BY <4>4, RequestOf DEF DeleteIdentity, At, Is, MCInv, Inv
        <5>. QED BY <5>1, KeyFacts DEF Unlinking
      <4>5. ident' # ident
        BY <2>3
      <4>6. ~ (Starting(r) \/ SendCode(r) \/ DropCode(r) \/ FindEmail(r) \/ Abort(r))
        BY <4>5, StartShape DEF SendCode, DropCode, FindEmail, Abort, Unchanged, MCInv
      <4>. QED BY <2>3, <4>1, <4>2, <4>3, <4>4, <4>6 DEF Handle, Starting
    <3>2. /\ ident'[v][p] = cred
          /\ \A w \in Users, x \in Provider : w # v \/ x # p => ident'[w][x] = ident[w][x]
      BY <3>1, WriteShape DEF MCInv, Inv
    <3>. QED BY <2>3, <3>1, <3>2, KeyFacts
  <2>4. ASSUME NEW v \in Users, PurgeAccount(v), NEW u \in Users,
               ident'[u]["local"] # ident[u]["local"]
        PROVE  ident'[u]["local"] \notin spent
    BY <2>2, <2>4, PurgeShape, KeyFacts DEF MCInv
  <2>5. EffectOnce
    <3> SUFFICES ASSUME NEW u \in Users, ident'[u]["local"] # ident[u]["local"]
                 PROVE  ident'[u]["local"] \notin spent
      BY DEF EffectOnce
    <3>. QED BY <2>3, <2>4 DEF Next, CodeExpires, Unchanged
  <2>. QED BY <2>1, <2>5 DEF OwnCodeDropped
<1>. QED BY <1>1, SerialRequests, PTL DEF MCSpec, SerialCodeSpentOnce

=============================================================================
