------------------------ MODULE SessionTokensProofs ------------------------
(***************************************************************************)
(* What the transactions of a rotation keep for any number of tokens and   *)
(* of requests in any order: a rotated token stays used, a session with    *)
(* two active tokens has one that was rotated twice, and a retry that      *)
(* reads a saved answer is served.  And what the handlers keep as long as  *)
(* no request overtakes another: one active token per session, logouts and *)
(* reuse that end all they promise to end.                                 *)
(***************************************************************************)
EXTENDS MCSessionTokens, TLAPS

Parents == Tokens \cup {None}
Leaf(t) == t \in Issued /\ \A n \in Issued : tok[n].parent # t

\* A request that is about to rotate a token has found its row, and no row is
\* ever taken away.
FoundRow ==
  \A r \in Reqs : req[r] # Idle =>
    /\ req[r].op = "rotate" => req[r].tok \in Issued
    /\ req[r].at = "loaded" => req[r].tok \in Issued

\* A successor belongs to its predecessor's family.
Lineage ==
  \A n \in Issued : tok[n].parent # None =>
    tok[n].parent \in Issued /\ tok[tok[n].parent].family = tok[n].family

\* A family without a token rotated twice is a chain: it has one end.
OneLeaf ==
  \A t, n \in Issued : t # n /\ Leaf(t) /\ Leaf(n) /\ tok[t].family = tok[n].family =>
    RotatedTwice(tok[t].family)

Inv == TypeOK /\ FoundRow /\ RotatedIsSpent /\ Lineage /\ OneLeaf

\* The first state satisfies the invariant.
LEMMA InitInv == Init => Inv
  BY DEF Init, Inv, TypeOK, FoundRow, RotatedIsSpent, Lineage, OneLeaf, Issued

LEMMA RowFacts == NoRow \notin Row /\ (TypeOK => \A t \in Issued : t \in Tokens /\ tok[t] \in Row)
  BY TokenAssumption DEF Row, TypeOK, Issued

\* A step that issues no token and only sets is_used keeps it.
LEMMA SpendInv ==
  ASSUME Inv, NEW rows, tok' = Spend(rows) \/ tok' = tok, TypeOK', FoundRow'
  PROVE  Inv'
<1>1. \A t \in Tokens : /\ (t \in Issued)' <=> t \in Issued
                        /\ t \in Issued => /\ tok'[t].parent = tok[t].parent
                                           /\ tok'[t].family = tok[t].family
                                           /\ tok[t].used => tok'[t].used
  <2> SUFFICES ASSUME NEW t \in Tokens
               PROVE  /\ tok'[t] # NoRow <=> tok[t] # NoRow
                      /\ tok[t] # NoRow => /\ tok'[t].parent = tok[t].parent
                                           /\ tok'[t].family = tok[t].family
                                           /\ tok[t].used => tok'[t].used
    BY DEF Issued
  <2>1. CASE tok'[t] = tok[t]
    BY <2>1
  <2>2. CASE tok[t] # NoRow /\ tok'[t] = [tok[t] EXCEPT !.used = TRUE]
    <3>1. tok[t] \in Row /\ tok'[t] \in Row
      BY <2>2 DEF Inv, TypeOK, Row
    <3>. QED BY <3>1, <2>2, RowFacts DEF Row
  <2>. QED BY <2>1, <2>2 DEF Spend
<1>2. Issued' = Issued
  BY <1>1 DEF Issued
<1>3. RotatedIsSpent' /\ Lineage'
  BY <1>1, <1>2 DEF Inv, RotatedIsSpent, Lineage, Issued
<1>4. ASSUME NEW t \in Issued, Leaf(t)' PROVE Leaf(t)
  BY <1>1, <1>2, <1>4 DEF Leaf, Issued
<1>5. OneLeaf'
  <2> SUFFICES ASSUME NEW t \in Issued', NEW n \in Issued', t # n, Leaf(t)', Leaf(n)',
                      tok'[t].family = tok'[n].family
               PROVE  RotatedTwice(tok[t].family)'
    BY DEF OneLeaf
  <2>1. RotatedTwice(tok[t].family)
    BY <1>1, <1>2, <1>4 DEF Inv, OneLeaf, Issued
  <2>. QED BY <1>1, <1>2, <2>1 DEF RotatedTwice, Issued
<1>. QED BY <1>3, <1>5 DEF Inv

\* So does a login: its family is new.
LEMMA LoginInv == ASSUME Inv, NEW r \in Reqs, Login(r) PROVE Inv'
<1>1. PICK n \in Tokens \ Issued, f \in Families :
        /\ \A t \in Issued : tok[t].family # f
        /\ tok' = [tok EXCEPT ![n] = [family |-> f, used |-> FALSE, parent |-> None]]
        /\ req' = req
  BY DEF Login
<1>2. /\ tok' \in [Tokens -> Row \cup {NoRow}]
      /\ Issued' = Issued \cup {n}
      /\ tok'[n] = [family |-> f, used |-> FALSE, parent |-> None]
      /\ \A t \in Issued : tok'[t] = tok[t]
  <2>1. tok'[n] = [family |-> f, used |-> FALSE, parent |-> None] /\ tok'[n] \in Row
    BY <1>1 DEF Inv, TypeOK, Row
  <2>2. \A t \in Tokens : t # n => tok'[t] = tok[t]
    BY <1>1 DEF Inv, TypeOK
  <2>3. tok' \in [Tokens -> Row \cup {NoRow}]
    BY <1>1, <2>1 DEF Inv, TypeOK
  <2>4. Issued' = Issued \cup {n}
    BY <2>1, <2>2, RowFacts DEF Issued
  <2>. QED BY <2>1, <2>2, <2>3, <2>4 DEF Issued
<1>3. TypeOK' /\ FoundRow' /\ RotatedIsSpent' /\ Lineage'
  <2>1. TypeOK' /\ FoundRow'
    BY <1>1, <1>2 DEF Login, Inv, TypeOK, FoundRow
  <2>2. RotatedIsSpent'
    BY <1>2, TokenAssumption DEF Inv, RotatedIsSpent, Lineage, Issued
  <2>3. Lineage'
    BY <1>2, TokenAssumption DEF Inv, Lineage, Issued
  <2>. QED BY <2>1, <2>2, <2>3
<1>4. OneLeaf'
  <2> SUFFICES ASSUME NEW u \in Issued', NEW m \in Issued', u # m, Leaf(u)', Leaf(m)',
                      tok'[u].family = tok'[m].family
               PROVE  RotatedTwice(tok[u].family)'
    BY DEF OneLeaf
  <2>1. u \in Issued /\ m \in Issued /\ tok'[u] = tok[u] /\ tok'[m] = tok[m]
    BY <1>1, <1>2
  <2>2. Leaf(u) /\ Leaf(m)
    BY <1>2, <2>1 DEF Leaf
  <2>3. RotatedTwice(tok[u].family)
    BY <2>1, <2>2 DEF Inv, OneLeaf
  <2>. QED BY <1>2, <2>1, <2>3 DEF RotatedTwice
<1>. QED BY <1>3, <1>4 DEF Inv

\* What a rotation writes: the token it was given is used and has a successor.
LEMMA RotateShape ==
  ASSUME Inv, NEW r \in Reqs, Rotate(r), NEW t, t = req[r].tok
  PROVE  /\ t \in Issued
         /\ \E n \in Tokens \ Issued :
              /\ req' = [req EXCEPT ![r].at = "save", ![r].new = n]
              /\ grace' = grace \cup {t} /\ UNCHANGED <<retry, banned>>
              /\ tok' \in [Tokens -> Row \cup {NoRow}]
              /\ Issued' = Issued \cup {n}
              /\ tok'[n] = [family |-> tok[t].family, used |-> FALSE, parent |-> t]
              /\ tok'[t] = [tok[t] EXCEPT !.used = TRUE]
              /\ \A u \in Issued \ {t} : tok'[u] = tok[u]
<1>1. t \in Issued
  BY DEF Rotate, At, Inv, FoundRow
<1>2. PICK n \in Tokens \ Issued :
        /\ tok' = [tok EXCEPT ![t] = RotatedRow(t),
                              ![n] = [family |-> tok[t].family, used |-> FALSE, parent |-> t]]
        /\ req' = [req EXCEPT ![r].at = "save", ![r].new = n]
        /\ grace' = grace \cup {t} /\ UNCHANGED <<retry, banned>>
  BY DEF Rotate
<1>3. /\ tok' \in [Tokens -> Row \cup {NoRow}]
      /\ Issued' = Issued \cup {n}
      /\ tok'[n] = [family |-> tok[t].family, used |-> FALSE, parent |-> t]
      /\ tok'[t] = [tok[t] EXCEPT !.used = TRUE]
      /\ \A u \in Issued \ {t} : tok'[u] = tok[u]
  <2>1. t \in Tokens /\ tok[t] \in Row /\ n \in Tokens /\ n # t
    BY <1>1, RowFacts DEF Inv, Issued
  <2>2. /\ tok'[n] = [family |-> tok[t].family, used |-> FALSE, parent |-> t]
        /\ tok'[t] = [tok[t] EXCEPT !.used = TRUE]
        /\ \A u \in Tokens : u # n /\ u # t => tok'[u] = tok[u]
    BY <1>2, <2>1 DEF Inv, TypeOK, RotatedRow
  <2>3. tok'[n] \in Row /\ tok'[t] \in Row
    <3>1. tok'[n] \in Row
      BY <2>1, <2>2 DEF Row
    <3>2. [tok[t] EXCEPT !.used = TRUE] \in Row
      BY <2>1 DEF Row
    <3>. QED BY <2>2, <3>1, <3>2
  <2>4. tok' \in [Tokens -> Row \cup {NoRow}]
    <3>1. DOMAIN tok' = Tokens /\ tok' = [u \in Tokens |-> tok'[u]]
      BY <1>2 DEF Inv, TypeOK
    <3>2. \A u \in Tokens : tok'[u] \in Row \cup {NoRow}
      BY <2>2, <2>3 DEF Inv, TypeOK
    <3>. QED BY <3>1, <3>2
  <2>5. Issued' = Issued \cup {n}
    BY <1>1, <2>1, <2>2, <2>3, RowFacts DEF Issued
  <2>. QED BY <2>1, <2>2, <2>4, <2>5 DEF Issued
<1>. QED BY <1>1, <1>2, <1>3

\* A rotation gives the token it was given a successor.  If the token had none
\* it was an end of its family, and the successor is the end now; if it had
\* one, the two have the same parent.
LEMMA RotateInv == ASSUME Inv, NEW r \in Reqs, Rotate(r) PROVE Inv'
<1> DEFINE t == req[r].tok
<1>1. t \in Issued
  BY RotateShape
<1>2. PICK n \in Tokens \ Issued :
        /\ req' = [req EXCEPT ![r].at = "save", ![r].new = n]
        /\ grace' = grace \cup {t} /\ UNCHANGED <<retry, banned>>
        /\ tok' \in [Tokens -> Row \cup {NoRow}]
        /\ Issued' = Issued \cup {n}
        /\ tok'[n] = [family |-> tok[t].family, used |-> FALSE, parent |-> t]
        /\ tok'[t] = [tok[t] EXCEPT !.used = TRUE]
        /\ \A u \in Issued \ {t} : tok'[u] = tok[u]
  BY RotateShape
<1> HIDE DEF t
<1>4. \A u \in Issued : /\ tok'[u].parent = tok[u].parent /\ tok'[u].family = tok[u].family
                        /\ tok[u].used => tok'[u].used
  BY <1>1, <1>2, RowFacts DEF Inv, Row
<1>5. t \in Tokens /\ n # t /\ n \notin Issued
  BY <1>1 DEF Issued
<1>6. TypeOK' /\ FoundRow'
  <2> DEFINE q == [req[r] EXCEPT !.at = "save", !.new = n]
  <2>1. req[r] \in Request /\ req[r].op = "rotate" /\ req[r].tok = t
    BY DEF Rotate, At, Inv, TypeOK, t
  <2>2. q \in Request /\ q.op = "rotate" /\ q.tok = t /\ q.at = "save"
    BY <1>2, <2>1 DEF Request
  <2>3. req' = [req EXCEPT ![r] = q]
    BY <1>2
  <2> HIDE DEF q
  <2>4. TypeOK'
    <3>1. req' \in [Reqs -> Request \cup {Idle}]
      BY <2>2, <2>3 DEF Inv, TypeOK
    <3>2. grace' \in SUBSET Tokens /\ UNCHANGED <<retry, banned>>
      BY <1>2, <1>5 DEF Inv, TypeOK
    <3>. QED BY <1>2, <3>1, <3>2 DEF Inv, TypeOK
  <2>5. FoundRow'
    BY <1>1, <1>2, <2>2, <2>3 DEF Inv, TypeOK, FoundRow
  <2>. QED BY <2>4, <2>5
<1>7. tok'[t].used
  BY <1>1, <1>2, RowFacts DEF Inv, Row
<1>8. RotatedIsSpent'
  <2> SUFFICES ASSUME NEW u \in Issued', NEW m \in Issued', tok'[m].parent = u
               PROVE  tok'[u].used
    BY DEF RotatedIsSpent
  <2>1. CASE m = n
    <3>1. u = t
      BY <1>2, <2>1
    <3>. QED BY <1>7, <3>1
  <2>2. CASE m # n
    <3>1. m \in Issued /\ tok[m].parent = u
      BY <1>2, <1>4, <2>2
    <3>2. u \in Issued
      BY <3>1, <1>2, TokenAssumption DEF Inv, Lineage, Issued
    <3>. QED BY <3>1, <3>2, <1>4 DEF Inv, RotatedIsSpent
  <2>. QED BY <2>1, <2>2
<1>9. Lineage'
  <2> SUFFICES ASSUME NEW m \in Issued', tok'[m].parent # None
               PROVE  /\ tok'[m].parent \in Issued'
                      /\ tok'[tok'[m].parent].family = tok'[m].family
    BY DEF Lineage
  <2>1. CASE m = n
    BY <1>1, <1>2, <1>4, <2>1
  <2>2. CASE m # n
    BY <1>2, <1>4, <2>2 DEF Inv, Lineage
  <2>. QED BY <2>1, <2>2
<1>10. OneLeaf'
  <2> SUFFICES ASSUME NEW u \in Issued', NEW m \in Issued', u # m, Leaf(u)', Leaf(m)',
                      tok'[u].family = tok'[m].family
               PROVE  RotatedTwice(tok[u].family)'
    BY DEF OneLeaf
  <2>0. \A f : RotatedTwice(f) => RotatedTwice(f)'
    BY <1>2, <1>4 DEF RotatedTwice
  <2>1. \A v \in Issued : Leaf(v)' => Leaf(v) /\ v # t
    BY <1>2, <1>4 DEF Leaf
  <2>2. CASE u # n /\ m # n
    <3>1. u \in Issued /\ m \in Issued /\ Leaf(u) /\ Leaf(m)
      BY <1>2, <2>1, <2>2
    <3>2. RotatedTwice(tok[u].family)
      BY <3>1, <1>4 DEF Inv, OneLeaf
    <3>. QED BY <2>0, <3>1, <3>2, <1>4
  <2>3. ASSUME NEW v \in Issued, Leaf(v)', tok'[v].family = tok'[n].family
        PROVE  RotatedTwice(tok[n].family)'
    <3>1. Leaf(v) /\ v # t /\ tok[v].family = tok[t].family
      BY <2>1, <2>3, <1>2, <1>4
    <3>2. CASE Leaf(t)
      <4>1. RotatedTwice(tok[t].family)
        BY <3>1, <3>2, <1>1 DEF Inv, OneLeaf
      <4>. QED BY <2>0, <4>1, <1>2
    <3>3. CASE ~Leaf(t)
      <4>1. PICK c \in Issued : tok[c].parent = t
        BY <1>1, <3>3 DEF Leaf
      <4>2. tok[c].family = tok[t].family
        BY <4>1, <1>5, TokenAssumption DEF Inv, Lineage
      <4>3. c # n /\ tok'[c].parent = tok'[n].parent /\ tok'[c].family = tok'[n].family
        BY <4>1, <4>2, <1>2, <1>4, <1>5
      <4>. QED BY <4>1, <4>3, <1>2, <1>5, TokenAssumption DEF RotatedTwice
    <3>. QED BY <3>2, <3>3
  <2>. QED BY <2>2, <2>3, <1>2
<1>. QED BY <1>6, <1>8, <1>9, <1>10 DEF Inv

\* No other step of a request issues a token; each leaves the types as they
\* are.
LEMMA OtherInv ==
  ASSUME Inv, NEW r \in Reqs,
         \/ \E t \in Tokens : LoadToken(r, t)
         \/ SaveRetry(r) \/ CheckRetry(r) \/ RetryUnread(r) \/ ScanFamily(r) \/ KillFamily(r)
         \/ \E t \in Tokens, op \in {"logout", "session"} : LoadSession(r, op, t)
         \/ \E op \in {"everywhere", "password"} : LoadFamilies(r, op)
         \/ BanSession(r) \/ ScanUser(r) \/ BanFamilies(r) \/ CommitEnd(r) \/ Abort(r)
  PROVE  Inv'
<1>1. ASSUME NEW q \in Request \cup {Idle}, req' = [req EXCEPT ![r] = q],
             q # Idle => /\ q.op = "rotate" => q.tok \in Issued
                         /\ q.at = "loaded" => q.tok \in Issued,
             NEW rows \in SUBSET Tokens, tok' = Spend(rows) \/ tok' = tok,
             retry' \in [Tokens -> Tokens \cup {None}], banned' \in SUBSET Families,
             grace' \in SUBSET Tokens
      PROVE  Inv'
  <2>1. tok' \in [Tokens -> Row \cup {NoRow}] /\ Issued' = Issued
    <3>1. \A t \in Tokens : tok[t] \in Row => [tok[t] EXCEPT !.used = TRUE] \in Row
      BY DEF Row
    <3>. QED BY <1>1, <3>1, RowFacts DEF Spend, Inv, TypeOK, Issued
  <2>2. TypeOK' /\ FoundRow'
    BY <1>1, <2>1 DEF Inv, TypeOK, FoundRow
  <2>. QED BY <1>1, <2>2, SpendInv
<1>2. \A t \in Issued : t \in Tokens /\ tok[t].family \in Families
  BY RowFacts DEF Inv, Row
<1>3. ActiveFamilies \in SUBSET Families
  BY <1>2 DEF ActiveFamilies
<1> HIDE DEF ActiveFamilies
<1>4. ASSUME NEW op \in {"rotate", "logout", "session", "everywhere", "password"},
             NEW pc \in {"fresh", "used", "loaded", "families"},
             NEW t \in Issued \cup {None}, op = "rotate" \/ pc = "loaded" => t \in Issued,
             NEW fams \in SUBSET Families, Start(r, op, pc, t, fams),
             UNCHANGED <<tok, retry, banned, grace>>
      PROVE  Inv'
  <2> DEFINE q == [op |-> op, at |-> pc, tok |-> t, new |-> None, fams |-> fams, rows |-> {}]
  <2>1. q \in Request
    BY <1>2, <1>4 DEF Request
  <2>2. req' = [req EXCEPT ![r] = q] /\ q.op = op /\ q.at = pc /\ q.tok = t
    BY <1>4 DEF Start
  <2> HIDE DEF q
  <2>. QED BY <1>1, <1>4, <2>1, <2>2 DEF Inv, TypeOK
<1>5. ASSUME req[r] # Idle,
             NEW pc \in {"reuse", "kill", "rows", "banned"}, NEW rows \in SUBSET Tokens,
             req' = [req EXCEPT ![r] = [req[r] EXCEPT !.at = pc, !.rows = rows]],
             banned' \in SUBSET Families, UNCHANGED <<tok, retry, grace>>
      PROVE  Inv'
  <2> DEFINE q == [req[r] EXCEPT !.at = pc, !.rows = rows]
  <2>1. req[r] \in Request /\ (req[r].op = "rotate" => req[r].tok \in Issued)
    BY <1>5 DEF Inv, TypeOK, FoundRow
  <2>2. q \in Request /\ q.op = req[r].op /\ q.at = pc /\ q.tok = req[r].tok
    BY <2>1 DEF Request
  <2>3. req' = [req EXCEPT ![r] = q]
    BY <1>5
  <2> HIDE DEF q
  <2>. QED BY <1>1, <1>5, <2>1, <2>2, <2>3 DEF Inv, TypeOK
<1>6. ASSUME req[r] # Idle
      PROVE  /\ req[r] \in Request /\ req[r].rows \in SUBSET Tokens
             /\ req[r].fams \in SUBSET Families
             /\ [req[r] EXCEPT !.rows = req[r].rows] = req[r]
  BY <1>6 DEF Inv, TypeOK, Request
<1>7. Issued \in SUBSET Tokens
  BY DEF Issued
<1>8. CASE \E t \in Tokens : LoadToken(r, t)
  BY <1>3, <1>4, <1>8 DEF LoadToken
<1>9. CASE \E t \in Tokens, op \in {"logout", "session"} : LoadSession(r, op, t)
  BY <1>4, <1>9 DEF LoadSession, Active, Issued
<1>10. CASE \E op \in {"everywhere", "password"} : LoadFamilies(r, op)
  BY <1>3, <1>4, <1>10 DEF LoadFamilies
<1>11. CASE SaveRetry(r)
  BY <1>1, <1>11 DEF SaveRetry, Finish, At, Inv, TypeOK, Request
<1>12. CASE KillFamily(r) \/ CommitEnd(r)
  BY <1>1, <1>6, <1>12 DEF KillFamily, CommitEnd, Finish, At, Inv, TypeOK
<1>13. CASE Abort(r)
  BY <1>1, <1>6, <1>13 DEF Abort, Finish, Inv, TypeOK
<1>14. CASE CheckRetry(r) \/ RetryUnread(r)
  <2>1. CASE req' = [req EXCEPT ![r] = Idle]
    BY <1>1, <1>14, <2>1 DEF CheckRetry, RetryUnread, Inv, TypeOK
  <2>2. CASE req' = [req EXCEPT ![r].at = "reuse"]
    <3>1. req' = [req EXCEPT ![r] = [req[r] EXCEPT !.at = "reuse", !.rows = req[r].rows]]
      BY <1>14, <1>6, <2>2 DEF CheckRetry, RetryUnread, At, Request
    <3>. QED BY <1>5, <1>6, <1>14, <3>1 DEF CheckRetry, RetryUnread, At, Inv, TypeOK
  <2>. QED BY <1>14, <2>1, <2>2 DEF CheckRetry, RetryUnread, Go, Finish
<1>15. CASE ScanFamily(r)
  <2> DEFINE rows == FamilyRows(req[r].tok)
  <2>1. rows \in SUBSET Tokens
    BY <1>7 DEF FamilyRows
  <2>2. /\ req[r] # Idle /\ banned' \in SUBSET Families /\ UNCHANGED <<tok, retry, grace>>
        /\ req' = [req EXCEPT ![r] = [req[r] EXCEPT !.at = "kill", !.rows = rows]]
    BY <1>15 DEF ScanFamily, At, Inv, TypeOK
  <2> HIDE DEF rows
  <2>. QED BY <1>5, <2>1, <2>2
<1>16. CASE ScanUser(r)
  <2> DEFINE rows == UserRows(r)
  <2>1. rows \in SUBSET Tokens
    BY <1>7 DEF UserRows
  <2>2. /\ req[r] # Idle /\ banned' \in SUBSET Families /\ UNCHANGED <<tok, retry, grace>>
        /\ req' = [req EXCEPT ![r] = [req[r] EXCEPT !.at = "rows", !.rows = rows]]
    BY <1>16 DEF ScanUser, At, Inv, TypeOK
  <2> HIDE DEF rows
  <2>. QED BY <1>5, <2>1, <2>2
<1>17. CASE BanSession(r)
  <2>1. req[r].tok \in Issued
    BY <1>17 DEF BanSession, At, Inv, FoundRow
  <2>2. {req[r].tok} \in SUBSET Tokens /\ tok[req[r].tok].family \in Families
    BY <1>2, <2>1
  <2>3. /\ req[r] # Idle /\ banned' \in SUBSET Families /\ UNCHANGED <<tok, retry, grace>>
        /\ req' = [req EXCEPT ![r] = [req[r] EXCEPT !.at = "banned", !.rows = {req[r].tok}]]
    BY <1>17, <2>2 DEF BanSession, At, Inv, TypeOK
  <2>. QED BY <1>5, <2>2, <2>3
<1>18. CASE BanFamilies(r)
  <2>1. req' = [req EXCEPT ![r] = [req[r] EXCEPT !.at = "banned", !.rows = req[r].rows]]
    BY <1>6, <1>18 DEF BanFamilies, Go, At, Request
  <2>. QED BY <1>5, <1>6, <1>18, <2>1 DEF BanFamilies, At, Inv, TypeOK
<1>. QED
  BY <1>8, <1>9, <1>10, <1>11, <1>12, <1>13, <1>14, <1>15, <1>16, <1>17, <1>18

\* Every step keeps the invariant.
LEMMA NextInv == Inv /\ [Next]_vars => Inv'
<1> SUFFICES ASSUME Inv, [Next]_vars PROVE Inv'
  OBVIOUS
<1>1. CASE \E r \in Reqs : Handle(r)
  BY <1>1, LoginInv, RotateInv, OtherInv DEF Handle
<1>2. CASE (\E t \in Tokens : WindowCloses(t)) \/ (\E f \in Families : BanEnds(f))
  <2>1. UNCHANGED <<tok, req>>
    BY <1>2 DEF WindowCloses, BanEnds
  <2>2. TypeOK' /\ FoundRow'
    BY <1>2, <2>1 DEF WindowCloses, BanEnds, Inv, TypeOK, FoundRow, Issued
  <2>. QED BY <2>1, <2>2, SpendInv
<1>3. CASE UNCHANGED vars
  BY <1>3, SpendInv DEF vars, Inv, TypeOK, FoundRow, Issued
<1>. QED BY <1>1, <1>2, <1>3 DEF Next

\* The invariant holds throughout.
THEOREM Invariant == Spec => []Inv
  BY InitInv, NextInv, PTL DEF Spec

\* For any number of tokens and requests: a token that has a successor is used.
THEOREM RotationSpends == Spec => []RotatedIsSpent
<1>1. Inv => RotatedIsSpent
  BY DEF Inv
<1>. QED BY <1>1, Invariant, PTL

\* A session has two tokens that can be rotated only if one of its tokens was
\* rotated twice: new sessions, rotations in a row, logouts and reuse never make
\* a second one.
THEOREM ForksExplained == Spec => []ForkHasTwoChildren
<1>1. Inv => ForkHasTwoChildren
  <2> SUFFICES ASSUME Inv, NEW t \in Issued, NEW n \in Issued, t # n, Active(t), Active(n),
                      tok[t].family = tok[n].family
               PROVE  RotatedTwice(tok[t].family)
    BY DEF ForkHasTwoChildren
  <2>1. Leaf(t) /\ Leaf(n)
    BY DEF Leaf, Active, Inv, RotatedIsSpent
  <2>. QED BY <2>1 DEF Inv, OneLeaf
<1>. QED BY <1>1, Invariant, PTL
-----------------------------------------------------------------------------
(* Without a race.  What a request has read stays true until it commits,   *)
(* since no other step of a request comes between.                         *)

\* Whoever finds the retry key of a token empty comes after the window, or
\* while the rotation that will write it is in flight.
RetrySaved ==
  \A t \in grace : retry[t] # None \/ \E r \in Reqs : At(r, "rotate", "save") /\ req[r].tok = t

\* A rotation that is to be saved has issued the new token.
SuccessorIssued == \A r \in Reqs : At(r, "rotate", "save") => req[r].new \in Tokens

\* What a request in flight has read or done, and may rely on.
Current(r) ==
  /\ At(r, "rotate", "fresh") => Active(req[r].tok)
  /\ At(r, "rotate", "kill") => req[r].rows = FamilyRows(req[r].tok)
  /\ At(r, "session", "banned") =>
       req[r].rows = {req[r].tok} /\ tok[req[r].tok].family \in banned
  /\ \A op \in {"everywhere", "password"} :
       /\ At(r, op, "families") \/ At(r, op, "rows") \/ At(r, op, "banned")
            => ActiveFamilies \subseteq req[r].fams
       /\ At(r, op, "rows") \/ At(r, op, "banned") => req[r].rows = UserRows(r)
       /\ At(r, op, "banned") => req[r].fams \subseteq banned

Alone(r) == \A q \in Reqs : q # r => req[q] = Idle

SerialInv ==
  serial => /\ OneActivePerFamily
            /\ \A r \in Reqs : req[r] # Idle => Alone(r) /\ Current(r)

MCInv == Inv /\ RetrySaved /\ SuccessorIssued /\ SerialInv

\* In a step that keeps the history serial nobody is overtaken.
NobodyOvertaken ==
  <<tok', req'>> # <<tok, req>> => \A r \in Reqs : req[r] # Idle => req'[r] # req[r]

LEMMA MCInitInv == MCInit => MCInv
<1> SUFFICES ASSUME MCInit PROVE MCInv
  OBVIOUS
<1>1. Inv
  BY InitInv DEF MCInit
<1>2. RetrySaved /\ SuccessorIssued /\ SerialInv
  BY DEF MCInit, Init, RetrySaved, SuccessorIssued, SerialInv, OneActivePerFamily, Issued, Active, At
<1>. QED BY <1>1, <1>2 DEF MCInv

\* UPDATE ... SET is_used changes nothing but the is_used of its rows.
LEMMA SpendShape ==
  ASSUME Inv, NEW rows, tok' = Spend(rows)
  PROVE  /\ Issued' = Issued
         /\ \A t \in Issued : /\ tok'[t].family = tok[t].family
                              /\ tok[t].used \/ t \in rows => tok'[t].used
                              /\ tok'[t].used => tok[t].used \/ t \in rows
<1>1. ASSUME NEW t \in Tokens
      PROVE  /\ tok'[t] # NoRow <=> tok[t] # NoRow
             /\ tok[t] # NoRow => /\ tok'[t].family = tok[t].family
                                  /\ tok[t].used \/ t \in rows => tok'[t].used
                                  /\ tok'[t].used => tok[t].used \/ t \in rows
  <2>1. CASE t \in rows /\ tok[t] # NoRow
    <3>1. tok[t] \in Row /\ tok'[t] = [tok[t] EXCEPT !.used = TRUE]
      BY <2>1 DEF Spend, Inv, TypeOK
    <3>2. tok'[t] \in Row /\ tok'[t].family = tok[t].family /\ tok'[t].used
      BY <3>1 DEF Row
    <3>. QED BY <2>1, <3>1, <3>2, RowFacts
  <2>2. CASE ~(t \in rows /\ tok[t] # NoRow)
    <3>1. tok'[t] = tok[t]
      BY <2>2 DEF Spend
    <3>. QED BY <2>2, <3>1
  <2>. QED BY <2>1, <2>2
<1>. QED BY <1>1 DEF Issued

\* So it makes no second active token.
LEMMA SpendKeepsOne ==
  ASSUME Inv, OneActivePerFamily, NEW rows, tok' = Spend(rows) \/ tok' = tok
  PROVE  OneActivePerFamily'
<1>1. CASE tok' = tok
  BY <1>1 DEF OneActivePerFamily, Issued, Active
<1>2. CASE tok' = Spend(rows)
  <2>1. \A t \in Issued' : t \in Issued /\ tok'[t].family = tok[t].family
                           /\ (Active(t)' => Active(t))
    BY <1>2, SpendShape DEF Active, Issued
  <2>. QED BY <2>1 DEF OneActivePerFamily
<1>. QED BY <1>1, <1>2

\* Only the request that takes the step is in flight.
LEMMA OneMoves ==
  ASSUME Inv, NobodyOvertaken, NEW r \in Reqs, NEW q, q # req[r], req' = [req EXCEPT ![r] = q]
  PROVE  /\ req'[r] = q
         /\ \A s \in Reqs : s # r => req[s] = Idle /\ req'[s] = Idle
<1>1. req'[r] = q /\ \A s \in Reqs : s # r => req'[s] = req[s]
  BY DEF Inv, TypeOK
<1>2. req' # req
  BY <1>1
<1>. QED BY <1>1, <1>2 DEF NobodyOvertaken

LEMMA MoveKeepsSerial ==
  ASSUME Inv, NobodyOvertaken, NEW r \in Reqs, NEW q, q # req[r], req' = [req EXCEPT ![r] = q],
         OneActivePerFamily', q # Idle => Current(r)'
  PROVE  SerialInv'
<1>1. /\ req'[r] = q
      /\ \A s \in Reqs : s # r => req'[s] = Idle
  BY OneMoves
<1>2. ASSUME NEW s \in Reqs, req'[s] # Idle PROVE Alone(s)' /\ Current(s)'
  <2>1. s = r
    BY <1>1, <1>2
  <2>2. Alone(s)'
    BY <1>1, <2>1 DEF Alone
  <2>. QED BY <1>1, <1>2, <2>1, <2>2
<1>. QED BY <1>2 DEF SerialInv

\* A login opens a family of its own.
LEMMA LoginKeepsSerial ==
  ASSUME MCInv, NobodyOvertaken, serial, NEW r \in Reqs, Login(r)
  PROVE  SerialInv'
<1> USE DEF MCInv
<1>1. PICK n \in Tokens \ Issued, f \in Families :
        /\ \A t \in Issued : tok[t].family # f
        /\ tok' = [tok EXCEPT ![n] = [family |-> f, used |-> FALSE, parent |-> None]]
        /\ req' = req
  BY DEF Login
<1>2. /\ tok'[n] = [family |-> f, used |-> FALSE, parent |-> None]
      /\ \A t \in Tokens : t # n => tok'[t] = tok[t]
  BY <1>1 DEF Inv, TypeOK
<1>3. tok' # tok
  <2>1. tok'[n] \in Row
    BY <1>2 DEF Row
  <2>2. tok[n] = NoRow
    BY DEF Issued
  <2>. QED BY <2>1, <2>2, RowFacts
<1>4. \A q \in Reqs : req'[q] = Idle
  BY <1>1, <1>3 DEF NobodyOvertaken
<1>5. OneActivePerFamily'
  BY <1>1, <1>2 DEF SerialInv, OneActivePerFamily, Active, Issued
<1>. QED BY <1>4, <1>5 DEF SerialInv

\* A rotation of the active token makes its successor the active one.
LEMMA RotateKeepsSerial ==
  ASSUME MCInv, NobodyOvertaken, serial, NEW r \in Reqs, Rotate(r)
  PROVE  SerialInv'
<1> USE DEF MCInv
<1> DEFINE t == req[r].tok
<1>1. t \in Issued
  BY RotateShape
<1>2. PICK n \in Tokens \ Issued :
        /\ req' = [req EXCEPT ![r].at = "save", ![r].new = n]
        /\ Issued' = Issued \cup {n}
        /\ tok'[n] = [family |-> tok[t].family, used |-> FALSE, parent |-> t]
        /\ tok'[t] = [tok[t] EXCEPT !.used = TRUE]
        /\ \A u \in Issued \ {t} : tok'[u] = tok[u]
  BY RotateShape
<1>3. req[r] \in Request /\ req[r].at = "fresh" /\ Active(t)
  BY DEF Rotate, At, Inv, TypeOK, SerialInv, Current
<1> HIDE DEF t
<1>4. tok'[t].used /\ tok'[t].family = tok[t].family
  BY <1>1, <1>2, RowFacts DEF Inv, Row
<1>5. \A u \in Issued : ~ (Active(u)' /\ tok'[u].family = tok'[n].family)
  <2> SUFFICES ASSUME NEW u \in Issued, Active(u)', tok'[u].family = tok'[n].family
               PROVE  FALSE
    OBVIOUS
  <2>1. u # t
    BY <1>4 DEF Active
  <2>2. Active(u) /\ tok[u].family = tok[t].family
    BY <1>2, <2>1 DEF Active
  <2>. QED BY <1>1, <1>3, <2>1, <2>2 DEF SerialInv, OneActivePerFamily
<1>6. OneActivePerFamily'
  <2> SUFFICES ASSUME NEW u \in Issued', NEW v \in Issued', Active(u)', Active(v)',
                      tok'[u].family = tok'[v].family
               PROVE  u = v
    BY DEF OneActivePerFamily
  <2>1. CASE u = n \/ v = n
    BY <1>2, <1>5, <2>1
  <2>2. CASE u # n /\ v # n
    <3>1. u \in Issued \ {t} /\ v \in Issued \ {t}
      BY <1>2, <1>4, <2>2 DEF Active
    <3>2. tok'[u] = tok[u] /\ tok'[v] = tok[v]
      BY <1>2, <3>1
    <3>. QED BY <3>1, <3>2 DEF SerialInv, OneActivePerFamily, Active
  <2>. QED BY <2>1, <2>2
<1>7. ASSUME NEW q, q = [req[r] EXCEPT !.at = "save", !.new = n] PROVE SerialInv'
  <2>1. req' = [req EXCEPT ![r] = q] /\ q.at = "save"
    BY <1>2, <1>3, <1>7 DEF Request
  <2>2. q # req[r]
    BY <1>3, <2>1
  <2>3. Current(r)'
    BY <2>1, OneMoves, <2>2 DEF Current, At
  <2>. QED BY <1>6, <2>1, <2>2, <2>3, MoveKeepsSerial
<1>. QED BY <1>7

\* A request that starts relies on what it has just read.
LEMMA StartKeepsSerial ==
  ASSUME MCInv, NobodyOvertaken, serial, NEW r \in Reqs,
         \/ \E t \in Tokens : LoadToken(r, t)
         \/ \E t \in Tokens, op \in {"logout", "session"} : LoadSession(r, op, t)
         \/ \E op \in {"everywhere", "password"} : LoadFamilies(r, op)
  PROVE  SerialInv'
<1> USE DEF MCInv
<1>1. tok' = tok
  BY DEF LoadToken, LoadSession, LoadFamilies
<1>2. OneActivePerFamily' /\ ActiveFamilies' = ActiveFamilies /\ \A t : Active(t)' = Active(t)
  BY <1>1, SpendKeepsOne DEF SerialInv, ActiveFamilies, Issued, Active
<1>3. ActiveFamilies \in SUBSET Families
  BY RowFacts DEF Inv, Row, ActiveFamilies
<1>4. ASSUME NEW op \in {"rotate", "logout", "session", "everywhere", "password"},
             NEW pc \in {"fresh", "used", "loaded", "families"},
             NEW t \in Tokens \cup {None}, NEW fams \in SUBSET Families, Start(r, op, pc, t, fams),
             op = "rotate" /\ pc = "fresh" => Active(t),
             pc = "families" => fams = ActiveFamilies
      PROVE  SerialInv'
  <2> DEFINE q == [op |-> op, at |-> pc, tok |-> t, new |-> None, fams |-> fams, rows |-> {}]
  <2>1. q \in Request /\ q # Idle
    <3>1. q \in Request
      BY <1>4 DEF Request
    <3>. QED BY <3>1, TokenAssumption
  <2>2. /\ req' = [req EXCEPT ![r] = q] /\ q # req[r]
        /\ q.op = op /\ q.at = pc /\ q.tok = t /\ q.fams = fams
    BY <1>4, <2>1 DEF Start
  <2> HIDE DEF q
  <2>3. req'[r] = q
    BY <2>2, OneMoves
  <2>4. Current(r)'
    BY <1>2, <1>4, <2>2, <2>3 DEF Current, At
  <2>. QED BY <1>2, <2>2, <2>4, MoveKeepsSerial
<1> HIDE DEF ActiveFamilies
<1>5. CASE \E t \in Tokens : LoadToken(r, t)
  BY <1>4, <1>5 DEF LoadToken, Active, Issued
<1>6. CASE \E t \in Tokens, op \in {"logout", "session"} : LoadSession(r, op, t)
  BY <1>4, <1>6 DEF LoadSession
<1>7. CASE \E op \in {"everywhere", "password"} : LoadFamilies(r, op)
  BY <1>3, <1>4, <1>7 DEF LoadFamilies, Issued
<1>. QED BY <1>5, <1>6, <1>7

\* A request that ends leaves nothing to rely on.
LEMMA EndKeepsSerial ==
  ASSUME MCInv, NobodyOvertaken, serial, NEW r \in Reqs, Finish(r), req[r] # Idle,
         NEW rows, tok' = Spend(rows) \/ tok' = tok
  PROVE  SerialInv'
<1>1. OneActivePerFamily'
  BY SpendKeepsOne DEF MCInv, SerialInv
<1>. QED BY <1>1, MoveKeepsSerial DEF MCInv, Finish

\* The request of r after a step that leaves its op, token and families alone.
Moved(r, q, pc, rows) ==
  /\ req' = [req EXCEPT ![r] = q] /\ q # req[r] /\ req'[r] = q
  /\ q.op = req[r].op /\ q.at = pc /\ q.tok = req[r].tok
  /\ q.fams = req[r].fams /\ q.rows = rows

LEMMA MovedOn ==
  ASSUME Inv, NobodyOvertaken, NEW r \in Reqs, req[r] # Idle, NEW pc, pc # req[r].at, NEW rows,
         \/ req' = [req EXCEPT ![r] = [req[r] EXCEPT !.at = pc, !.rows = rows]]
         \/ rows = req[r].rows /\ req' = [req EXCEPT ![r].at = pc]
  PROVE  \E q : Moved(r, q, pc, rows)
<1>1. req[r] \in Request
  BY DEF Inv, TypeOK
<1>2. ASSUME NEW q, req' = [req EXCEPT ![r] = q],
             /\ q.op = req[r].op /\ q.at = pc /\ q.tok = req[r].tok
             /\ q.fams = req[r].fams /\ q.rows = rows
      PROVE  Moved(r, q, pc, rows)
  <2>1. q # req[r]
    BY <1>2
  <2>2. req'[r] = q
    BY <1>2, <2>1, OneMoves
  <2>. QED BY <1>2, <2>1, <2>2 DEF Moved
<1>3. CASE req' = [req EXCEPT ![r] = [req[r] EXCEPT !.at = pc, !.rows = rows]]
  <2> DEFINE q == [req[r] EXCEPT !.at = pc, !.rows = rows]
  <2>1. /\ q.op = req[r].op /\ q.at = pc /\ q.tok = req[r].tok
        /\ q.fams = req[r].fams /\ q.rows = rows
    BY <1>1 DEF Request
  <2>2. req' = [req EXCEPT ![r] = q]
    BY <1>3
  <2> HIDE DEF q
  <2>. QED BY <1>2, <2>1, <2>2
<1>4. CASE rows = req[r].rows /\ req' = [req EXCEPT ![r].at = pc]
  <2> DEFINE q == [req[r] EXCEPT !.at = pc]
  <2>1. /\ q.op = req[r].op /\ q.at = pc /\ q.tok = req[r].tok
        /\ q.fams = req[r].fams /\ q.rows = rows
    BY <1>1, <1>4 DEF Request
  <2>2. req' = [req EXCEPT ![r] = q]
    BY <1>4
  <2> HIDE DEF q
  <2>. QED BY <1>2, <2>1, <2>2
<1>. QED BY <1>3, <1>4

\* A request that goes on relies on what it had read and on what it reads.
LEMMA GoKeepsSerial ==
  ASSUME MCInv, NobodyOvertaken, serial, NEW r \in Reqs,
         CheckRetry(r) \/ RetryUnread(r) \/ ScanFamily(r) \/ BanSession(r) \/ ScanUser(r) \/ BanFamilies(r)
  PROVE  SerialInv'
<1> USE DEF MCInv
<1>1. UNCHANGED <<tok, grace>> /\ req[r] # Idle /\ req[r] \in Request
  BY DEF CheckRetry, RetryUnread, ScanFamily, BanSession, ScanUser, BanFamilies, At, Inv, TypeOK
<1>2. Alone(r) /\ Current(r) /\ OneActivePerFamily
  BY <1>1 DEF SerialInv
<1>3. /\ OneActivePerFamily' /\ ActiveFamilies' = ActiveFamilies
      /\ \A t : FamilyRows(t)' = FamilyRows(t)
      /\ \A q \in Reqs : UserRows(q)' = UserRows(q)
  BY <1>1, <1>2, SpendKeepsOne DEF ActiveFamilies, FamilyRows, UserRows, Issued, Active
<1>4. ASSUME NEW q, NEW pc, NEW rows, Moved(r, q, pc, rows), Current(r)' PROVE SerialInv'
  BY <1>3, <1>4, MoveKeepsSerial DEF Moved
<1> HIDE DEF ActiveFamilies
<1>5. CASE CheckRetry(r) \/ RetryUnread(r)
  <2>1. CASE Finish(r)
    BY <1>1, <2>1, EndKeepsSerial
  <2>2. CASE Go(r, "reuse")
    <3>1. PICK q : Moved(r, q, "reuse", req[r].rows)
      BY <1>1, <1>5, <2>2, MovedOn DEF CheckRetry, RetryUnread, Go, At
    <3>2. req[r].op = "rotate"
      BY <1>5 DEF CheckRetry, RetryUnread, At
    <3>3. Current(r)'
      BY <1>1, <3>1, <3>2 DEF Current, At, Moved
    <3>. QED BY <1>4, <3>1, <3>3
  <2>. QED BY <1>5, <2>1, <2>2 DEF CheckRetry, RetryUnread
<1>6. CASE ScanFamily(r)
  <2> DEFINE rows == FamilyRows(req[r].tok)
  <2>1. PICK q : Moved(r, q, "kill", rows)
    BY <1>1, <1>6, MovedOn DEF ScanFamily, At
  <2>2. req[r].op = "rotate"
    BY <1>6 DEF ScanFamily, At
  <2>3. Current(r)'
    BY <1>1, <1>3, <2>1, <2>2 DEF Current, At, Moved
  <2>. QED BY <1>4, <2>1, <2>3
<1>7. CASE BanSession(r)
  <2>1. PICK q : Moved(r, q, "banned", {req[r].tok})
    BY <1>1, <1>7, MovedOn DEF BanSession, At
  <2>2. /\ req[r].op \in {"logout", "session"}
        /\ req[r].op = "session" => tok[req[r].tok].family \in banned'
    BY <1>7 DEF BanSession, At
  <2>3. Current(r)'
    BY <1>1, <2>1, <2>2 DEF Current, At, Moved
  <2>. QED BY <1>4, <2>1, <2>3
<1>8. CASE ScanUser(r)
  <2> DEFINE rows == UserRows(r)
  <2>1. PICK q : Moved(r, q, "rows", rows)
    BY <1>1, <1>8, MovedOn DEF ScanUser, At
  <2>2. req[r].op \in {"everywhere", "password"} /\ ActiveFamilies \subseteq req[r].fams
    BY <1>2, <1>8 DEF ScanUser, At, Current
  <2>3. Current(r)'
    BY <1>1, <1>3, <2>1, <2>2 DEF Current, At, Moved
  <2>. QED BY <1>4, <2>1, <2>3
<1>9. CASE BanFamilies(r)
  <2>1. PICK q : Moved(r, q, "banned", req[r].rows)
    BY <1>1, <1>9, MovedOn DEF BanFamilies, Go, At
  <2>2. /\ req[r].op \in {"everywhere", "password"} /\ ActiveFamilies \subseteq req[r].fams
        /\ req[r].rows = UserRows(r) /\ req[r].fams \subseteq banned'
    BY <1>2, <1>9 DEF BanFamilies, At, Current
  <2>3. Current(r)'
    BY <1>1, <1>3, <2>1, <2>2 DEF Current, At, Moved
  <2>. QED BY <1>4, <2>1, <2>3
<1>. QED BY <1>5, <1>6, <1>7, <1>8, <1>9

\* The retry key of a token in its window is there or about to be.
LEMMA RetryStep ==
  ASSUME Inv, RetrySaved, SuccessorIssued, [Next]_vars
  PROVE  RetrySaved' /\ SuccessorIssued'
<1> DEFINE Saves(r) == At(r, "rotate", "save")
<1>1. ASSUME NEW r \in Reqs, NEW q, req' = [req EXCEPT ![r] = q], q # Idle => q.at # "save",
             \A t \in grace' : t \in grace /\ retry'[t] = retry[t] /\ (Saves(r) => t # req[r].tok)
      PROVE  RetrySaved' /\ SuccessorIssued'
  <2>1. \A s \in Reqs : Saves(s)' => s # r /\ Saves(s) /\ req'[s] = req[s]
    BY <1>1 DEF Inv, TypeOK, At
  <2>2. \A s \in Reqs : Saves(s) /\ s # r => Saves(s)' /\ req'[s] = req[s]
    BY <1>1 DEF Inv, TypeOK, At
  <2>. QED BY <1>1, <2>1, <2>2 DEF RetrySaved, SuccessorIssued
<1>2. ASSUME NEW r \in Reqs, \E t \in Tokens : LoadToken(r, t) \/ \E op : LoadSession(r, op, t)
      PROVE  RetrySaved' /\ SuccessorIssued'
  <2>1. PICK pc \in {"fresh", "used", "loaded"} : \E t, op : Start(r, op, pc, t, {})
    <3>1. CASE \E t \in Tokens : LoadToken(r, t)
      <4>1. PICK t : Start(r, "rotate", IF tok[t].used THEN "used" ELSE "fresh", t, {})
        BY <3>1 DEF LoadToken
      <4>2. Start(r, "rotate", "used", t, {}) \/ Start(r, "rotate", "fresh", t, {})
        BY <4>1
      <4>. QED BY <4>2
    <3>2. CASE \E t \in Tokens : \E op : LoadSession(r, op, t)
      <4>1. PICK t, op : Start(r, op, "loaded", t, {})
        BY <3>2 DEF LoadSession
      <4>. QED BY <4>1
    <3>. QED BY <1>2, <3>1, <3>2
  <2>. QED BY <1>1, <1>2, <2>1 DEF Start, LoadToken, LoadSession, At
<1>3. ASSUME NEW r \in Reqs, NEW op, LoadFamilies(r, op)
      PROVE  RetrySaved' /\ SuccessorIssued'
  <2>1. PICK t : Start(r, op, "families", t, ActiveFamilies)
    BY <1>3 DEF LoadFamilies
  <2>. QED BY <1>1, <1>3, <2>1 DEF Start, LoadFamilies, At
<1>4. ASSUME NEW r \in Reqs, Finish(r), UNCHANGED <<retry, grace>>, ~Saves(r)
      PROVE  RetrySaved' /\ SuccessorIssued'
  BY <1>1, <1>4 DEF Finish
<1>5. ASSUME NEW r \in Reqs, Rotate(r) PROVE RetrySaved' /\ SuccessorIssued'
  <2> DEFINE q(n) == [req[r] EXCEPT !.at = "save", !.new = n]
  <2>1. PICK n \in Tokens \ Issued :
          /\ req' = [req EXCEPT ![r].at = "save", ![r].new = n]
          /\ grace' = grace \cup {req[r].tok} /\ UNCHANGED retry
    BY <1>5 DEF Rotate
  <2>2. req[r] \in Request /\ req[r].op = "rotate" /\ req[r].at = "fresh" /\ req[r] # Idle
    BY <1>5 DEF Rotate, At, Inv, TypeOK
  <2>3. req' = [req EXCEPT ![r] = q(n)]
    BY <2>1
  <2>4. /\ q(n).at = "save" /\ q(n).op = "rotate" /\ q(n).new = n /\ q(n).tok = req[r].tok
        /\ q(n) \in Request
    BY <2>2 DEF Request
  <2> HIDE DEF q
  <2>5. \A s \in Reqs : s # r => req'[s] = req[s]
    BY <2>3 DEF Inv, TypeOK
  <2>6. Saves(r)' /\ req'[r] = q(n)
    BY <2>3, <2>4, TokenAssumption DEF Inv, TypeOK, At
  <2>7. \A s \in Reqs : Saves(s) => Saves(s)' /\ req'[s] = req[s]
    BY <2>2, <2>5 DEF At
  <2>8. RetrySaved'
    <3> SUFFICES ASSUME NEW t \in grace'
                 PROVE  retry[t] # None \/ \E s \in Reqs : Saves(s)' /\ req'[s].tok = t
      BY <2>1 DEF RetrySaved
    <3>1. CASE t = req[r].tok
      BY <2>4, <2>6, <3>1
    <3>2. CASE t \in grace /\ retry[t] = None
      <4>1. PICK s \in Reqs : Saves(s) /\ req[s].tok = t
        BY <3>2 DEF RetrySaved
      <4>. QED BY <2>7, <4>1
    <3>. QED BY <2>1, <3>1, <3>2
  <2>9. SuccessorIssued'
    BY <2>4, <2>5, <2>6 DEF SuccessorIssued, At
  <2>. QED BY <2>8, <2>9
<1>6. ASSUME NEW r \in Reqs, SaveRetry(r) PROVE RetrySaved' /\ SuccessorIssued'
  <2>1. /\ Saves(r) /\ req' = [req EXCEPT ![r] = Idle] /\ grace' = grace
        /\ retry' = [retry EXCEPT ![req[r].tok] = req[r].new]
    BY <1>6 DEF SaveRetry, Finish
  <2>2. req[r].new \in Tokens
    BY <2>1 DEF SuccessorIssued
  <2>3. \A t \in grace : t # req[r].tok => retry'[t] = retry[t]
    BY <2>1 DEF Inv, TypeOK
  <2>4. \A t \in grace : t = req[r].tok => retry'[t] # None
    BY <2>1, <2>2, TokenAssumption DEF Inv, TypeOK
  <2>5. \A s \in Reqs : s # r => req'[s] = req[s]
    BY <2>1 DEF Inv, TypeOK
  <2>6. req'[r] = Idle
    BY <2>1 DEF Inv, TypeOK
  <2>7. RetrySaved'
    BY <2>1, <2>3, <2>4, <2>5 DEF RetrySaved, At
  <2>8. SuccessorIssued'
    BY <2>5, <2>6 DEF SuccessorIssued, At
  <2>. QED BY <2>7, <2>8
<1>7. ASSUME NEW r \in Reqs, NEW pc, pc # "save", ~Saves(r), UNCHANGED <<retry, grace>>,
             req[r] # Idle, NEW rows,
             \/ req' = [req EXCEPT ![r] = [req[r] EXCEPT !.at = pc, !.rows = rows]]
             \/ req' = [req EXCEPT ![r].at = pc]
      PROVE  RetrySaved' /\ SuccessorIssued'
  <2>1. req[r] \in Request
    BY <1>7 DEF Inv, TypeOK
  <2>2. CASE req' = [req EXCEPT ![r] = [req[r] EXCEPT !.at = pc, !.rows = rows]]
    <3> DEFINE q == [req[r] EXCEPT !.at = pc, !.rows = rows]
    <3>1. q.at = pc
      BY <2>1 DEF Request
    <3>2. req' = [req EXCEPT ![r] = q]
      BY <2>2
    <3> HIDE DEF q
    <3>. QED BY <1>1, <1>7, <3>1, <3>2
  <2>3. CASE req' = [req EXCEPT ![r].at = pc]
    <3> DEFINE q == [req[r] EXCEPT !.at = pc]
    <3>1. q.at = pc
      BY <2>1 DEF Request
    <3>2. req' = [req EXCEPT ![r] = q]
      BY <2>3
    <3> HIDE DEF q
    <3>. QED BY <1>1, <1>7, <3>1, <3>2
  <2>. QED BY <1>7, <2>2, <2>3
<1>8. ASSUME NEW r \in Reqs, Abort(r) PROVE RetrySaved' /\ SuccessorIssued'
  <2>1. /\ req' = [req EXCEPT ![r] = Idle] /\ retry' = retry
        /\ grace' = IF req[r].at = "save" THEN grace \ {req[r].tok} ELSE grace
    BY <1>8 DEF Abort, Finish
  <2>2. \A t \in grace' : t \in grace /\ (Saves(r) => t # req[r].tok)
    BY <2>1 DEF At
  <2>. QED BY <1>1, <2>1, <2>2
<1>9. ASSUME NEW t \in Tokens, WindowCloses(t) PROVE RetrySaved' /\ SuccessorIssued'
  <2>1. req' = req /\ grace' = grace \ {t} /\ retry' = [retry EXCEPT ![t] = None]
    BY <1>9 DEF WindowCloses
  <2>2. \A u \in grace' : u \in grace /\ retry'[u] = retry[u]
    BY <2>1 DEF Inv, TypeOK
  <2>. QED BY <2>1, <2>2 DEF RetrySaved, SuccessorIssued, At
<1>10. ASSUME UNCHANGED <<req, retry, grace>> PROVE RetrySaved' /\ SuccessorIssued'
  BY <1>10 DEF RetrySaved, SuccessorIssued, At
<1>11. ASSUME NEW r \in Reqs, Handle(r) PROVE RetrySaved' /\ SuccessorIssued'
  <2>1. CASE Login(r)
    BY <1>10, <2>1 DEF Login
  <2>2. CASE KillFamily(r) \/ CommitEnd(r)
    BY <1>4, <2>2 DEF KillFamily, CommitEnd, At
  <2>3. CASE CheckRetry(r) \/ RetryUnread(r)
    BY <1>4, <1>7, <2>3 DEF CheckRetry, RetryUnread, Go, At
  <2>4. CASE ScanFamily(r)
    <3> DEFINE rows == FamilyRows(req[r].tok)
    <3>1. /\ ~Saves(r) /\ req[r] # Idle /\ UNCHANGED <<retry, grace>>
          /\ req' = [req EXCEPT ![r] = [req[r] EXCEPT !.at = "kill", !.rows = rows]]
      BY <2>4 DEF ScanFamily, At
    <3> HIDE DEF rows
    <3>. QED BY <1>7, <3>1
  <2>5. CASE ScanUser(r)
    <3> DEFINE rows == UserRows(r)
    <3>1. /\ ~Saves(r) /\ req[r] # Idle /\ UNCHANGED <<retry, grace>>
          /\ req' = [req EXCEPT ![r] = [req[r] EXCEPT !.at = "rows", !.rows = rows]]
      BY <2>5 DEF ScanUser, At
    <3> HIDE DEF rows
    <3>. QED BY <1>7, <3>1
  <2>6. CASE BanSession(r)
    <3>1. /\ ~Saves(r) /\ req[r] # Idle /\ UNCHANGED <<retry, grace>>
          /\ req' = [req EXCEPT ![r] = [req[r] EXCEPT !.at = "banned", !.rows = {req[r].tok}]]
      BY <2>6 DEF BanSession, At
    <3>. QED BY <1>7, <3>1
  <2>7. CASE BanFamilies(r)
    BY <1>7, <2>7 DEF BanFamilies, Go, At
  <2>. QED
    BY <1>2, <1>3, <1>5, <1>6, <1>8, <1>11, <2>1, <2>2, <2>3, <2>4, <2>5, <2>6, <2>7 DEF Handle
<1>12. CASE UNCHANGED vars
  BY <1>10, <1>12 DEF vars
<1>13. CASE \E f \in Families : BanEnds(f)
  BY <1>10, <1>13 DEF BanEnds
<1>. QED BY <1>9, <1>11, <1>12, <1>13 DEF Next

\* Requests may overlap as they like: a retry whose token was rotated within
\* five seconds, whose rotation has saved its answer and whose GET is answered
\* is never taken for a theft.
THEOREM RetriesAreServed == Spec => RetryServed
<1> DEFINE RetryInv == Inv /\ RetrySaved /\ SuccessorIssued
<1>1. Init => RetryInv
  BY InitInv DEF Init, RetrySaved, SuccessorIssued, At
<1>2. RetryInv /\ [Next]_vars => RetryInv'
  BY NextInv, RetryStep
<1>3. RetryInv /\ [Next]_vars =>
        [\A r \in Reqs : CheckRetry(r) /\ req[r].tok \in grace =>
           \/ req'[r] = Idle
           \/ \E q \in Reqs : At(q, "rotate", "save") /\ req[q].tok = req[r].tok]_vars
  <2> SUFFICES ASSUME RetryInv, NEW r \in Reqs, CheckRetry(r), req[r].tok \in grace,
                      ~\E q \in Reqs : At(q, "rotate", "save") /\ req[q].tok = req[r].tok
               PROVE  req'[r] = Idle
    OBVIOUS
  <2>1. retry[req[r].tok] # None
    BY DEF RetrySaved
  <2>. QED BY <2>1 DEF CheckRetry, RetryData, Finish, Inv, TypeOK
<1>. QED BY <1>1, <1>2, <1>3, PTL DEF Spec, RetryServed

\* While nobody is overtaken every request commits what it has read.
LEMMA SerialStep ==
  ASSUME MCInv, serial, NobodyOvertaken, [Next]_vars
  PROVE  SerialInv'
<1>1. ASSUME NEW r \in Reqs, Handle(r) PROVE SerialInv'
  <2>1. CASE SaveRetry(r) \/ Abort(r)
    BY <2>1, EndKeepsSerial DEF SaveRetry, Abort, At
  <2>2. CASE KillFamily(r) \/ CommitEnd(r)
    BY <2>2, EndKeepsSerial DEF KillFamily, CommitEnd, At
  <2>. QED
    BY <1>1, <2>1, <2>2, LoginKeepsSerial, RotateKeepsSerial, StartKeepsSerial, GoKeepsSerial
    DEF Handle
<1>2. ASSUME UNCHANGED <<tok, req>>, grace' \subseteq grace,
             \A r \in Reqs : req[r] # Idle /\ req[r].at = "banned" =>
               /\ req[r].fams \subseteq banned => req[r].fams \subseteq banned'
               /\ req[r].rows = {req[r].tok} /\ tok[req[r].tok].family \in banned
                    => tok[req[r].tok].family \in banned'
      PROVE  SerialInv'
  <2>1. OneActivePerFamily'
    BY <1>2, SpendKeepsOne DEF MCInv, SerialInv
  <2>2. ASSUME NEW r \in Reqs, req[r] # Idle PROVE Alone(r)' /\ Current(r)'
    <3>1. Alone(r) /\ Current(r)
      BY <2>2 DEF MCInv, SerialInv
    <3>2. /\ ActiveFamilies' = ActiveFamilies /\ UserRows(r)' = UserRows(r)
          /\ Active(req[r].tok)' = Active(req[r].tok)
          /\ FamilyRows(req[r].tok)' = FamilyRows(req[r].tok)
      BY <1>2 DEF ActiveFamilies, UserRows, FamilyRows, Issued, Active
    <3>. QED BY <1>2, <2>2, <3>1, <3>2 DEF Alone, Current, At
  <2>. QED BY <1>2, <2>1, <2>2 DEF SerialInv
<1>3. ASSUME NEW t \in Tokens, WindowCloses(t) PROVE SerialInv'
  BY <1>2, <1>3 DEF WindowCloses
<1>4. ASSUME NEW f \in Families, BanEnds(f) PROVE SerialInv'
  BY <1>2, <1>4 DEF BanEnds
<1>5. CASE UNCHANGED vars
  BY <1>2, <1>5 DEF vars
<1>. QED BY <1>1, <1>3, <1>4, <1>5 DEF Next

LEMMA MCNextInv == MCInv /\ [MCNext]_<<vars, serial>> => MCInv'
<1> SUFFICES ASSUME MCInv, [MCNext]_<<vars, serial>> PROVE MCInv'
  OBVIOUS
<1>1. [Next]_vars
  BY DEF MCNext, vars
<1>2. Inv' /\ RetrySaved' /\ SuccessorIssued'
  BY <1>1, NextInv, RetryStep DEF MCInv
<1>3. serial' => serial /\ NobodyOvertaken
  BY DEF MCNext, NobodyOvertaken, vars
<1>4. SerialInv'
  BY <1>1, <1>3, SerialStep DEF SerialInv
<1>. QED BY <1>2, <1>4 DEF MCInv

\* While requests come one at a time each commits what it has read.
THEOREM SerialRequests == MCSpec => []MCInv
  BY MCInitInv, MCNextInv, PTL DEF MCSpec

\* As long as requests do not overlap a session has one token that can be
\* rotated, however many are issued and whatever dies half-way.
THEOREM OneActive == MCSpec => []SerialOneActive
<1>1. MCInv => SerialOneActive
  BY DEF MCInv, SerialInv, SerialOneActive
<1>. QED BY <1>1, SerialRequests, PTL

\* As long as requests do not overlap, logout_everywhere and a password change
\* leave no token active and no family unbanned, for any number of sessions.
THEOREM LogoutEndsAll == MCSpec => SerialLogoutEndsAll
<1>1. MCInv => [serial => AllEnded /\ BannedWhenEnded]_vars
  <2> SUFFICES ASSUME MCInv, serial PROVE AllEnded /\ BannedWhenEnded
    OBVIOUS
  <2>1. ASSUME NEW r \in Reqs, NEW op, At(r, op, "banned"), CommitEnd(r)
        PROVE  /\ Current(r) /\ tok' = Spend(req[r].rows) /\ Issued' = Issued
               /\ \A t \in Issued : Active(t) /\ tok'[t].used => t \in req[r].rows
               /\ \A t \in Issued : t \in req[r].rows \/ ~Active(t) => tok'[t].used
    <3>1. Current(r) /\ tok' = Spend(req[r].rows)
      BY <2>1 DEF MCInv, SerialInv, At, CommitEnd
    <3>. QED BY <3>1, SpendShape DEF MCInv, Active, Issued
  <2>2. AllEnded
    <3> SUFFICES ASSUME NEW r \in Reqs, NEW op \in {"everywhere", "password"},
                        At(r, op, "banned"), CommitEnd(r), NEW t \in Tokens, tok'[t] # NoRow
                 PROVE  tok'[t].used
      BY DEF AllEnded, Ends, CommitEnd, At
    <3>1. t \in Issued
      BY <2>1 DEF Issued
    <3>2. req[r].rows = {u \in Issued : Active(u)}
      BY <2>1 DEF Current, UserRows
    <3>. QED BY <2>1, <3>1, <3>2
  <2>3. BannedWhenEnded
    <3> SUFFICES ASSUME NEW r \in Reqs, NEW op \in {"session", "everywhere", "password"},
                        At(r, op, "banned"), CommitEnd(r),
                        NEW t \in Issued, Active(t), tok'[t].used
                 PROVE  tok[t].family \in banned
      BY DEF BannedWhenEnded, Ends, CommitEnd, At
    <3>1. t \in req[r].rows
      BY <2>1
    <3>2. CASE op = "session"
      BY <2>1, <3>1, <3>2 DEF Current
    <3>3. CASE op # "session"
      <4>1. ActiveFamilies \subseteq banned
        BY <2>1, <3>3 DEF Current
      <4>. QED BY <4>1 DEF ActiveFamilies
    <3>. QED BY <3>2, <3>3
  <2>. QED BY <2>2, <2>3
<1>. QED BY <1>1, SerialRequests, PTL DEF SerialLogoutEndsAll

\* As long as requests do not overlap, a token used twice leaves none of its
\* family active, however long the chain of rotations is.
THEOREM ReuseEndsFamily == MCSpec => SerialReuseEndsFamily
<1>1. MCInv => [serial => FamilyEnded]_vars
  <2> SUFFICES ASSUME MCInv, serial, NEW r \in Reqs, KillFamily(r), NEW t \in Tokens,
                      tok'[t] # NoRow, tok'[t].family = tok[req[r].tok].family
               PROVE  tok'[t].used
    BY DEF FamilyEnded
  <2>1. tok' = Spend(req[r].rows) /\ req[r].rows = FamilyRows(req[r].tok)
    BY DEF KillFamily, MCInv, SerialInv, Current, At
  <2>2. t \in Issued /\ tok'[t].family = tok[t].family
    BY <2>1, SpendShape DEF MCInv, Issued
  <2>3. t \in req[r].rows
    BY <2>1, <2>2 DEF FamilyRows
  <2>. QED BY <2>1, <2>2, <2>3, SpendShape DEF MCInv
<1>. QED BY <1>1, SerialRequests, PTL DEF SerialReuseEndsFamily
====
