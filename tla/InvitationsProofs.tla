------------------------- MODULE InvitationsProofs -------------------------
(***************************************************************************)
(* What Invitations guarantees for every number of users, invitations and  *)
(* requests and every size of a batch: a user has one invitation to answer *)
(* at most, to accept one is to become a member, and only the expiry job   *)
(* overwrites an answer.                                                   *)
(***************************************************************************)
EXTENDS Invitations, TLAPS

-----------------------------------------------------------------------------
(* The inductive invariant                                                 *)

\* What the expiry job picked was due and is still, or went with the project,
\* which leaves no id to send an invitation under.
PickedIsDue ==
  job # Idle => \A i \in job : (inv[i] = NoRow => ~exists) /\ (inv[i] # NoRow => inv[i].due)

Inv == TypeOK /\ OnePendingPerTarget /\ PickedIsDue

\* A step that resolves at most i and answers no other invitation.
Resolves(i, s) ==
  /\ Pending(i)
  /\ inv' = [inv EXCEPT ![i].status = s]

\* The first state satisfies the invariant.
LEMMA InitInv == Init => Inv
BY InvitationAssumption
   DEF Init, Inv, TypeOK, OnePendingPerTarget, Pending, PickedIsDue

\* A step that leaves the invitations and the job alone keeps the rest of it.
LEMMA Elsewhere ==
  ASSUME Inv, TypeOK', UNCHANGED <<inv, job>>, exists' => exists
  PROVE  Inv'
BY DEF Inv, TypeOK, OnePendingPerTarget, Pending, PickedIsDue

\* To resolve a pending invitation leaves fewer of them, and its row in place.
LEMMA Resolved ==
  ASSUME Inv, NEW i \in Invites, NEW s \in InvitationStatus \ {"PENDING"}, Resolves(i, s),
         UNCHANGED <<exists, job>>
  PROVE  /\ inv' \in [Invites -> Row \cup {NoRow}]
         /\ OnePendingPerTarget' /\ PickedIsDue'
         /\ \A j \in Invites \ {i} : inv'[j] = inv[j]
         /\ inv'[i] # NoRow /\ inv'[i].status = s
<1>1. /\ inv[i] \in Row /\ inv[i].status = "PENDING"
      /\ inv'[i] = [inv[i] EXCEPT !.status = s]
      /\ inv'[i] \in Row /\ inv'[i] # NoRow
      /\ inv'[i].status = s /\ inv'[i].due = inv[i].due
  BY InvitationAssumption DEF Inv, TypeOK, Resolves, Pending, Row
<1>2. \A j \in Invites \ {i} : inv'[j] = inv[j]
  BY DEF Inv, TypeOK, Resolves
<1>3. inv' \in [Invites -> Row \cup {NoRow}]
  BY <1>1, <1>2 DEF Inv, TypeOK, Resolves
<1>4. \A j \in Invites : Pending(j)' => j # i /\ Pending(j) /\ inv'[j] = inv[j]
  BY <1>1, <1>2 DEF Pending
<1>5. OnePendingPerTarget'
  BY <1>4 DEF Inv, OnePendingPerTarget
<1>6. PickedIsDue'
  <2>1. job # Idle => job \subseteq Invites
    BY DEF Inv, TypeOK
  <2>2. inv[i] # NoRow /\ (inv[i].due => inv'[i].due)
    BY <1>1 DEF Resolves, Pending
  <2> SUFFICES ASSUME job # Idle, NEW j \in job
               PROVE  (inv'[j] = NoRow => ~exists) /\ (inv'[j] # NoRow => inv'[j].due)
    BY DEF PickedIsDue
  <2>3. (inv[j] = NoRow => ~exists) /\ (inv[j] # NoRow => inv[j].due)
    BY DEF Inv, PickedIsDue
  <2>4. CASE j = i
    BY <1>1, <2>2, <2>3, <2>4
  <2>5. CASE j # i
    BY <1>2, <2>1, <2>3, <2>5
  <2> QED
    BY <2>4, <2>5
<1> QED
  BY <1>1, <1>2, <1>3, <1>5, <1>6

\* A request that is received, or that ends, is of the type of requests.
LEMMA RequestType ==
  ASSUME TypeOK, NEW r \in Reqs
  PROVE  /\ \A q \in Request : Start(r, q) => req' \in [Reqs -> Request \cup {Idle}]
         /\ Finish(r) => req' \in [Reqs -> Request \cup {Idle}]
         /\ Doing(r, "send") => req[r].target \in Users /\ req[r].role \in InviteRoles
         /\ \A op \in {"accept", "reject", "revoke"} : Doing(r, op) => req[r].id \in Invites
BY DEF TypeOK, Start, Finish, Doing, Request

\* What the two reads begin.
LEMMA CheckInv ==
  ASSUME Inv, NEW r \in Reqs,
         \/ \E t \in Users, w \in InviteRoles : CheckNotMember(r, t, w)
         \/ \E i \in Invites, op \in {"accept", "reject", "revoke"} : CheckAvailable(r, op, i)
  PROVE  Inv' /\ UNCHANGED <<role, inv>>
<1>1. UNCHANGED <<exists, role, inv, job>> /\ \E q \in Request : Start(r, q)
  BY DEF CheckNotMember, CheckAvailable, Request
<1> QED
  BY <1>1, RequestType, Elsewhere DEF Inv, TypeOK

\* An invitation is sent under an id nothing uses, to somebody who has none.
LEMMA SendInv == ASSUME Inv, NEW r \in Reqs, Send(r) PROVE Inv' /\ UNCHANGED role
<1> DEFINE t == req[r].target
           row == [target |-> t, role |-> req[r].role, status |-> "PENDING", due |-> FALSE]
<1>1. /\ t \in Users /\ req[r].role \in InviteRoles
      /\ req' \in [Reqs -> Request \cup {Idle}] /\ UNCHANGED <<exists, role, job>>
  BY RequestType DEF Send, Inv
<1>2. CASE inv' = inv
  BY <1>1, <1>2, Elsewhere DEF Inv, TypeOK
<1>3. CASE inv' # inv
  <2>1. exists /\ PendingIndex(t)
    BY <1>3 DEF Send
  <2>2. PICK i \in Invites : inv[i] = NoRow /\ inv' = [inv EXCEPT ![i] = row]
    BY <1>3 DEF Send
  <2>3. row \in Row /\ row.target = t
    BY <1>1 DEF Row, InvitationStatus
  <2> HIDE DEF row
  <2>4. TypeOK'
    BY <1>1, <2>2, <2>3 DEF Inv, TypeOK
  <2>5. OnePendingPerTarget'
    BY <2>1, <2>2, <2>3 DEF Inv, TypeOK, OnePendingPerTarget, Pending, PendingIndex
  <2>6. PickedIsDue'
    BY <1>1, <2>1, <2>2 DEF Inv, TypeOK, PickedIsDue
  <2> QED
    BY <1>1, <2>4, <2>5, <2>6 DEF Inv
<1> QED
  BY <1>2, <1>3

\* An acceptance has no effect, or resolves a pending invitation of somebody
\* who is not a member and becomes one with the role it carries.
LEMMA AcceptIsOne ==
  ASSUME Inv, NEW r \in Reqs, Accept(r), ~ UNCHANGED <<role, inv>>
  PROVE  /\ req[r].id \in Invites /\ Resolves(req[r].id, "ACCEPTED")
         /\ inv[req[r].id] \in Row /\ role[inv[req[r].id].target] = NoRole
         /\ role' = [role EXCEPT ![inv[req[r].id].target] = inv[req[r].id].role]
BY RequestType DEF Accept, Resolves, Updatable, Pending, GrantedRole, Inv, TypeOK

LEMMA AcceptInv == ASSUME Inv, NEW r \in Reqs, Accept(r) PROVE Inv'
<1>1. req' \in [Reqs -> Request \cup {Idle}] /\ UNCHANGED <<exists, job>>
  BY RequestType DEF Accept, Inv
<1>2. CASE UNCHANGED <<role, inv>>
  BY <1>1, <1>2, Elsewhere DEF Inv, TypeOK
<1>3. CASE ~ UNCHANGED <<role, inv>>
  <2>1. role' \in [Users -> InviteRoles \cup {NoRole}]
    BY <1>3, AcceptIsOne DEF Inv, TypeOK, Row
  <2>2. inv' \in [Invites -> Row \cup {NoRow}] /\ OnePendingPerTarget' /\ PickedIsDue'
    BY <1>1, <1>3, AcceptIsOne, Resolved DEF InvitationStatus
  <2> QED
    BY <1>1, <2>1, <2>2 DEF Inv, TypeOK
<1> QED
  BY <1>2, <1>3

\* A rejection or a revocation has no effect, or resolves a pending invitation.
LEMMA RejectIsOne ==
  ASSUME Inv, NEW r \in Reqs, RejectOrRevoke(r), inv' # inv
  PROVE  /\ req[r].id \in Invites
         /\ \E s \in {"REJECTED", "REVOKED"} : Resolves(req[r].id, s)
BY RequestType DEF RejectOrRevoke, Resolves, Updatable, Inv

LEMMA RejectInv == ASSUME Inv, NEW r \in Reqs, RejectOrRevoke(r) PROVE Inv' /\ UNCHANGED role
<1>1. req' \in [Reqs -> Request \cup {Idle}] /\ UNCHANGED <<exists, role, job>>
  BY RequestType DEF RejectOrRevoke, Inv
<1>2. CASE inv' = inv
  BY <1>1, <1>2, Elsewhere DEF Inv, TypeOK
<1>3. CASE inv' # inv
  <2>1. inv' \in [Invites -> Row \cup {NoRow}] /\ OnePendingPerTarget' /\ PickedIsDue'
    BY <1>1, <1>3, RejectIsOne, Resolved DEF InvitationStatus
  <2> QED
    BY <1>1, <2>1 DEF Inv, TypeOK
<1> QED
  BY <1>1, <1>2, <1>3

\* Time and the jobs keep it: what lapses was pending, a batch is of rows that
\* are due, and no row of the batch is purged.
LEMMA TimeInv ==
  ASSUME Inv, (\E i \in Invites : Lapse(i) \/ PurgeOld(i)) \/ ExpireScan \/ ExpireUpdate
  PROVE  Inv' /\ UNCHANGED role
<1> USE DEF Inv, TypeOK, OnePendingPerTarget, Pending, PickedIsDue
<1>1. ASSUME NEW i \in Invites, Lapse(i) PROVE Inv' /\ UNCHANGED role
  <2>1. /\ inv[i] \in Row /\ inv' = [inv EXCEPT ![i] = [inv[i] EXCEPT !.due = TRUE]]
        /\ UNCHANGED <<exists, role, req, job>>
    BY <1>1 DEF Lapse
  <2> DEFINE row == [inv[i] EXCEPT !.due = TRUE]
  <2>2. /\ row \in Row /\ row.target = inv[i].target
        /\ row.status = inv[i].status /\ row.due
    BY <2>1 DEF Row
  <2> HIDE DEF row
  <2>3. inv' = [inv EXCEPT ![i] = row]
    BY <2>1 DEF row
  <2>4. inv[i] # NoRow /\ inv[i].status = "PENDING"
    BY <1>1 DEF Lapse
  <2>5. TypeOK'
    BY <2>1, <2>2, <2>3
  <2>6. OnePendingPerTarget'
    BY <2>2, <2>3, <2>4
  <2>7. inv'[i] # NoRow /\ inv'[i].due /\ \A j \in Invites \ {i} : inv'[j] = inv[j]
    BY <2>2, <2>3, InvitationAssumption
  <2>8. PickedIsDue'
    BY <2>1, <2>4, <2>7
  <2> QED
    BY <2>1, <2>5, <2>6, <2>8
<1>2. ASSUME NEW i \in Invites, PurgeOld(i) PROVE Inv' /\ UNCHANGED role
  BY <1>2 DEF PurgeOld
<1>3. CASE ExpireScan
  <2>1. PICK batch \in SUBSET {i \in Invites : Expirable(i)} : job' = batch
    BY <1>3 DEF ExpireScan
  <2>2. UNCHANGED <<exists, role, inv, req>>
    BY <1>3 DEF ExpireScan
  <2> QED
    BY <2>1, <2>2 DEF Expirable
<1>4. CASE ExpireUpdate
  <2>1. /\ job' = Idle /\ UNCHANGED <<exists, role, req>>
        /\ inv' = [i \in Invites |-> IF i \in job /\ inv[i] # NoRow
                                     THEN [inv[i] EXCEPT !.status = "EXPIRED"] ELSE inv[i]]
    BY <1>4 DEF ExpireUpdate
  <2>2. ASSUME NEW i \in Invites
        PROVE  /\ inv'[i] \in Row \cup {NoRow}
               /\ Pending(i)' => inv'[i] = inv[i]
    BY <2>1, InvitationAssumption DEF Row, InvitationStatus
  <2>3. TypeOK'
    BY <2>1, <2>2
  <2>4. OnePendingPerTarget'
    BY <2>2
  <2> QED
    BY <2>1, <2>3, <2>4
<1> QED
  BY <1>1, <1>2, <1>3, <1>4

\* Who leaves, and the end of the project, keep it.
LEMMA GoesInv ==
  ASSUME Inv, (\E u \in Users : MemberGoes(u)) \/ ProjectGoes
  PROVE  Inv' /\ \A u \in Users : role'[u] \in {role[u], NoRole}
<1> USE DEF Inv, TypeOK, OnePendingPerTarget, Pending, PickedIsDue
<1>1. CASE \E u \in Users : MemberGoes(u)
  BY <1>1 DEF MemberGoes
<1>2. CASE ProjectGoes
  BY <1>2 DEF ProjectGoes
<1> QED
  BY <1>1, <1>2

\* Every step keeps it.
LEMMA NextInv == Inv /\ [Next]_vars => Inv'
<1> SUFFICES ASSUME Inv, [Next]_vars PROVE Inv'
  OBVIOUS
<1>1. CASE \E r \in Reqs : HandleRequest(r)
  BY <1>1, CheckInv, SendInv, AcceptInv, RejectInv DEF HandleRequest
<1>2. CASE UNCHANGED vars
  BY <1>2, Elsewhere DEF vars, Inv, TypeOK
<1> QED
  BY <1>1, <1>2, TimeInv, GoesInv DEF Next

-----------------------------------------------------------------------------
\* Every variable keeps its type, and the invariant holds always.
THEOREM TypeCorrect == Spec => []TypeOK
<1>1. Inv => TypeOK
  BY DEF Inv
<1> QED
  BY InitInv, NextInv, <1>1, PTL DEF Spec

LEMMA Invariant == Spec => []Inv
BY InitInv, NextInv, PTL DEF Spec

\* For any number of requests: ix_unique_project_invite leaves a user at most
\* one invitation to answer, and no update makes a resolved one pending again.
THEOREM OnePending == Spec => []OnePendingPerTarget
<1>1. Inv => OnePendingPerTarget
  BY DEF Inv
<1> QED
  BY Invariant, <1>1, PTL

\* What a step that accepts nothing does to the properties below.
LEMMA NobodyJoins ==
  ASSUME Inv, [Next]_vars, \A r \in Reqs : Accept(r) => UNCHANGED <<role, inv>>
  PROVE  /\ \A u \in Users : ~ Joins(u)
         /\ \A i \in Invites : ~ IsAccepted(i)
<1>1. CASE UNCHANGED <<role, inv>>
  BY <1>1 DEF Joins, IsAccepted, Pending
<1>2. ASSUME NEW r \in Reqs, HandleRequest(r), ~ UNCHANGED <<role, inv>>
      PROVE  UNCHANGED role /\ \A i \in Invites : ~ IsAccepted(i)
  <2>1. Send(r) \/ RejectOrRevoke(r)
    BY <1>2, CheckInv DEF HandleRequest
  <2>2. CASE Send(r)
    <3>1. \A i \in Invites : inv[i] # NoRow => inv'[i] = inv[i]
      BY <2>2 DEF Send, Inv, TypeOK
    <3> QED
      BY <2>2, <3>1 DEF Send, IsAccepted, Pending
  <2>3. CASE RejectOrRevoke(r)
    <3>1. PICK i \in Invites, s \in {"REJECTED", "REVOKED"} : Resolves(i, s)
      BY <1>2, <2>3, RejectIsOne, RejectInv
    <3>2. UNCHANGED <<exists, role, job>>
      BY <2>3 DEF RejectOrRevoke
    <3> QED
      BY <3>1, <3>2, Resolved DEF InvitationStatus, IsAccepted, Pending
  <2> QED
    BY <2>1, <2>2, <2>3
<1>3. CASE (\E i \in Invites : Lapse(i) \/ PurgeOld(i)) \/ ExpireScan \/ ExpireUpdate
  <2>1. UNCHANGED role
    BY <1>3, TimeInv
  <2>2. ASSUME NEW j \in Invites, IsAccepted(j) PROVE FALSE
    BY <1>3, <2>2 DEF Lapse, PurgeOld, ExpireScan, ExpireUpdate, IsAccepted, Pending,
       Inv, TypeOK, Row
  <2> QED
    BY <2>1, <2>2 DEF Joins
<1>4. CASE (\E u \in Users : MemberGoes(u)) \/ ProjectGoes
  BY <1>4, GoesInv DEF MemberGoes, ProjectGoes, Joins, IsAccepted, Pending
<1> QED
  BY <1>1, <1>2, <1>3, <1>4 DEF Next, vars, Joins

\* For any number of requests: whoever becomes a member spends, in one step
\* with it, a pending invitation of his own and gets its role; accept_invitation
\* is one transaction.
THEOREM AcceptanceIsOne == Spec => AcceptanceIsMembership
<1>1. ASSUME Inv, [Next]_vars
      PROVE  /\ \A u \in Users : Joins(u) =>
                  \E i \in Invites : IsAccepted(i) /\ inv[i].target = u /\ role'[u] = inv[i].role
             /\ \A i \in Invites : IsAccepted(i) => Joins(inv[i].target)
  <2>1. CASE \A r \in Reqs : Accept(r) => UNCHANGED <<role, inv>>
    BY <1>1, <2>1, NobodyJoins
  <2>2. ASSUME NEW r \in Reqs, Accept(r), ~ UNCHANGED <<role, inv>>
        PROVE  /\ \A u \in Users : Joins(u) =>
                    \E i \in Invites : IsAccepted(i) /\ inv[i].target = u /\ role'[u] = inv[i].role
               /\ \A i \in Invites : IsAccepted(i) => Joins(inv[i].target)
    <3> DEFINE i == req[r].id
    <3>1. /\ i \in Invites /\ Resolves(i, "ACCEPTED")
          /\ inv[i] \in Row /\ role[inv[i].target] = NoRole
          /\ role' = [role EXCEPT ![inv[i].target] = inv[i].role]
      BY <1>1, <2>2, AcceptIsOne
    <3> HIDE DEF i
    <3>2. /\ \A j \in Invites \ {i} : inv'[j] = inv[j]
          /\ inv'[i] # NoRow /\ inv'[i].status = "ACCEPTED" /\ Pending(i)
      BY <1>1, <2>2, <3>1, Resolved DEF Accept, InvitationStatus, Resolves
    <3>3. /\ inv[i].target \in Users /\ inv[i].role # NoRole
          /\ role \in [Users -> InviteRoles \cup {NoRole}]
      BY <1>1, <3>1, InvitationAssumption DEF Inv, TypeOK, Row
    <3>4. \A u \in Users : Joins(u) => u = inv[i].target /\ role'[u] = inv[i].role
      BY <3>1, <3>3 DEF Joins
    <3>5. Joins(inv[i].target) /\ IsAccepted(i)
      BY <3>1, <3>2, <3>3 DEF Joins, IsAccepted
    <3>6. \A j \in Invites : IsAccepted(j) => j = i
      BY <3>2 DEF IsAccepted, Pending
    <3> QED
      BY <3>1, <3>4, <3>5, <3>6
  <2> QED
    BY <2>1, <2>2
<1> QED
  BY <1>1, Invariant, PTL DEF Spec, AcceptanceIsMembership

\* For any number of requests: an answer is final, but for the expiry job,
\* which overwrites only what was due when it looked.
THEOREM AnswersAreFinal == Spec => AnsweredOnce
<1>1. ASSUME Inv, [Next]_vars, NEW i \in Invites,
             inv[i] # NoRow, ~Pending(i), inv'[i] # NoRow, inv'[i].status # inv[i].status
      PROVE  inv'[i].status = "EXPIRED" /\ inv[i].due /\ job # Idle /\ i \in job
  <2>1. ExpireUpdate
    <3>1. ASSUME NEW r \in Reqs, HandleRequest(r) PROVE FALSE
      <4>1. CASE Send(r)
        BY <1>1, <4>1 DEF Send, Inv, TypeOK
      <4>2. CASE Accept(r) \/ RejectOrRevoke(r)
        <5>1. PICK j \in Invites, s \in InvitationStatus \ {"PENDING"} : Resolves(j, s)
          BY <1>1, <4>2, AcceptIsOne, RejectIsOne DEF InvitationStatus
        <5>2. i # j /\ UNCHANGED <<exists, job>>
          BY <1>1, <4>2, <5>1 DEF Resolves, Accept, RejectOrRevoke
        <5> QED
          BY <1>1, <5>1, <5>2, Resolved
      <4> QED
        BY <1>1, <3>1, <4>1, <4>2, CheckInv DEF HandleRequest
    <3>2. ~ \E j \in Invites : Lapse(j) \/ PurgeOld(j)
      BY <1>1 DEF Lapse, PurgeOld, Pending, Inv, TypeOK
    <3>3. ~ ExpireScan /\ ~ (\E u \in Users : MemberGoes(u)) /\ ~ ProjectGoes /\ ~ UNCHANGED vars
      BY <1>1 DEF ExpireScan, MemberGoes, ProjectGoes, vars
    <3> QED
      BY <1>1, <3>1, <3>2, <3>3 DEF Next
  <2> QED
    BY <1>1, <2>1 DEF ExpireUpdate, Inv, TypeOK, PickedIsDue, Row
<1>2. Inv /\ [Next]_vars =>
        \A i \in Invites :
          inv[i] # NoRow /\ ~Pending(i) /\ inv'[i] # NoRow /\ inv'[i].status # inv[i].status
          => inv'[i].status = "EXPIRED" /\ inv[i].due /\ job # Idle /\ i \in job
  BY <1>1
<1> QED
  BY <1>2, Invariant, PTL DEF Spec, AnsweredOnce
=============================================================================
