--------------------------- MODULE OrganizationProofs ---------------------------
(***************************************************************************)
(* Type correctness and who administers and joins the organization, for    *)
(* any people, rows, lifetimes and bounds.                                 *)
(***************************************************************************)
EXTENDS OrganizationAdministration, SequenceTheorems, TLAPS

\* A function on the indices of a sequence is a sequence.
LEMMA SameDomain ==
  ASSUME NEW R, NEW S, NEW seq \in Seq(R), NEW f \in [DOMAIN seq -> S]
  PROVE  f \in Seq(S)
<1>1. Len(seq) \in Nat /\ DOMAIN seq = 1 .. Len(seq)
  BY LenProperties
<1>2. QED
  BY <1>1, SeqDef

LEMMA OneLessType ==
  ASSUME NEW n \in Nat, NEW k \in 0 .. n
  PROVE  OneLess(k) \in 0 .. n
BY DEF OneLess

LEMMA NewRowsType ==
  /\ NewToken \in TokenRow
  /\ NewEvent \in EventRow
BY BoundAssumption DEF NewToken, NewEvent, TokenRow, EventRow

LEMMA RevokedTokensType ==
  ASSUME OrgTypeOK, NEW i \in InvitationId, NEW G
  PROVE  RevokedTokens(i, G) \in Seq(TokenRow)
<1>1. token[i] \in Seq(TokenRow)
  BY DEF OrgTypeOK
<1>2. ASSUME NEW g \in DOMAIN token[i]
      PROVE  (IF g \in G /\ token[i][g].state = "LIVE"
                THEN [token[i][g] EXCEPT !.state = "REVOKED"]
                ELSE token[i][g]) \in TokenRow
  <2>1. token[i][g] \in TokenRow
    BY <1>1
  <2>2. [token[i][g] EXCEPT !.state = "REVOKED"] \in TokenRow
    BY <2>1 DEF TokenRow
  <2>3. QED
    BY <2>1, <2>2
<1>3. RevokedTokens(i, G) \in [DOMAIN token[i] -> TokenRow]
  BY <1>2 DEF RevokedTokens
<1>4. QED
  BY <1>1, <1>3, SameDomain

LEMMA ObsoleteEventsType ==
  ASSUME OrgTypeOK, NEW i \in InvitationId, NEW G
  PROVE  ObsoleteEvents(i, G) \in Seq(EventRow)
<1>1. event[i] \in Seq(EventRow)
  BY DEF OrgTypeOK
<1>2. ASSUME NEW g \in DOMAIN event[i]
      PROVE  event[i][g] \in EventRow /\ Obsolete(event[i][g]) \in EventRow
  <2>1. event[i][g] \in EventRow
    BY <1>1
  <2>2. Obsolete(event[i][g]) \in EventRow
    <3>1. 0 \in 0 .. LeaseTtl
      BY BoundAssumption
    <3>2. QED
      BY <2>1, <3>1 DEF Obsolete, EventRow
  <2>3. QED
    BY <2>1, <2>2
<1>3. ASSUME NEW g \in DOMAIN event[i]
      PROVE  (IF g \in G /\ event[i][g].status \in {"PENDING", "PROCESSING"}
                         /\ ~IsLeased(event[i][g])
                THEN Obsolete(event[i][g])
                ELSE event[i][g]) \in EventRow
  BY <1>2
<1>4. ObsoleteEvents(i, G) \in [DOMAIN event[i] -> EventRow]
  BY <1>3 DEF ObsoleteEvents
<1>5. QED
  BY <1>1, <1>4, SameDomain

LEMMA RevokeTokensType ==
  ASSUME OrgTypeOK, NEW i \in InvitationId, NEW G, RevokeTokens(i, G)
  PROVE  /\ token' \in [InvitationId -> Seq(TokenRow)]
         /\ event' \in [InvitationId -> Seq(EventRow)]
BY RevokedTokensType, ObsoleteEventsType DEF RevokeTokens, OrgTypeOK

\* No step breaks the type of a row.
LEMMA OrgTypesKept ==
  ASSUME OrgTypeOK, [OrgNext]_orgVars
  PROVE  OrgTypeOK'
<1> USE BoundAssumption
<1>1. ASSUME NEW m \in MemberId, NEW email \in User, NEW role \in Role,
             NEW i \in InvitationId, Invite(m, email, role, i)
      PROVE  OrgTypeOK'
  <2>1. invitation' \in [InvitationId -> InvitationRow \cup {FreeInvitation}]
    <3> SUFFICES ASSUME NEW x \in InvitationId
                 PROVE  invitation'[x] \in InvitationRow \cup {FreeInvitation}
      BY <1>1 DEF Invite
    <3>1. CASE x = i
      BY <1>1, <3>1 DEF Invite, InvitationRow
    <3>2. CASE x # i /\ x \in PendingFor(email)
      <4>1. invitation[x] \in InvitationRow
        BY <3>2 DEF PendingFor, OrgTypeOK, FreeInvitation
      <4>2. [invitation[x] EXCEPT !.status = "EXPIRED"] \in InvitationRow
        BY <4>1 DEF InvitationRow
      <4>3. QED
        BY <1>1, <3>2, <4>2 DEF Invite
    <3>3. CASE x # i /\ x \notin PendingFor(email)
      BY <1>1, <3>3 DEF Invite, OrgTypeOK
    <3>4. QED
      BY <3>1, <3>2, <3>3
  <2>2. <<NewToken>> \in Seq(TokenRow) /\ <<NewEvent>> \in Seq(EventRow)
    BY NewRowsType
  <2>3. QED
    BY <1>1, <2>1, <2>2 DEF Invite, OrgTypeOK
<1>2. ASSUME NEW m \in MemberId, NEW i \in InvitationId, Resend(m, i)
      PROVE  OrgTypeOK'
  <2>1. invitation[i] \in InvitationRow
    BY <1>2 DEF Resend, OrgTypeOK, FreeInvitation
  <2>2. [invitation[i] EXCEPT !.left = InvitationTtl] \in InvitationRow
    BY <2>1 DEF InvitationRow
  <2>3. invitation' \in [InvitationId -> InvitationRow \cup {FreeInvitation}]
    BY <1>2, <2>2 DEF Resend, OrgTypeOK
  <2>4. Append(RevokedTokens(i, DOMAIN token[i]), NewToken) \in Seq(TokenRow)
    BY RevokedTokensType, NewRowsType
  <2>5. Append(ObsoleteEvents(i, DOMAIN token[i]), NewEvent) \in Seq(EventRow)
    BY ObsoleteEventsType, NewRowsType
  <2>6. QED
    BY <1>2, <2>3, <2>4, <2>5 DEF Resend, OrgTypeOK
<1>3. ASSUME NEW m \in MemberId, NEW i \in InvitationId, RevokeInvitation(m, i)
      PROVE  OrgTypeOK'
  <2>1. invitation[i] \in InvitationRow
    BY <1>3 DEF RevokeInvitation, OrgTypeOK, FreeInvitation
  <2>2. [invitation[i] EXCEPT !.status = "REVOKED"] \in InvitationRow
    BY <2>1 DEF InvitationRow
  <2>3. QED
    BY <1>3, <2>2, RevokeTokensType DEF RevokeInvitation, OrgTypeOK
<1>4. ASSUME NEW m \in MemberId, NEW i \in InvitationId, ExpireByAdmin(m, i)
      PROVE  OrgTypeOK'
  <2>1. invitation[i] \in InvitationRow
    BY <1>4 DEF ExpireByAdmin, OrgTypeOK, FreeInvitation
  <2>2. [invitation[i] EXCEPT !.status = "EXPIRED"] \in InvitationRow
    BY <2>1 DEF InvitationRow
  <2>3. QED
    BY <1>4, <2>2 DEF ExpireByAdmin, OrgTypeOK
<1>5. ASSUME NEW m \in MemberId, Leave(m)
      PROVE  OrgTypeOK'
  <2>1. member[m] \in MemberRow
    BY <1>5 DEF Leave, Acts, OrgTypeOK, FreeMember
  <2>2. [member[m] EXCEPT !.status = "LEFT"] \in MemberRow
    BY <2>1 DEF MemberRow
  <2>3. QED
    BY <1>5, <2>2 DEF Leave, OrgTypeOK
<1>6. ASSUME NEW m \in MemberId, NEW target \in MemberId, NEW retain \in BOOLEAN,
             Transfer(m, target, retain)
      PROVE  OrgTypeOK'
  <2>1. member[m] \in MemberRow /\ member[target] \in MemberRow
    BY <1>6 DEF Transfer, Manages, Acts, OrgTypeOK, FreeMember
  <2>2. /\ [member[target] EXCEPT !.role = "ADMIN"] \in MemberRow
        /\ [member[m] EXCEPT !.role = "PROFESSIONAL_MEMBER"] \in MemberRow
    BY <2>1 DEF MemberRow, Role
  <2>3. member' \in [MemberId -> MemberRow \cup {FreeMember}]
    BY <1>6, <2>2 DEF Transfer, OrgTypeOK
  <2>4. QED
    BY <1>6, <2>3 DEF Transfer, OrgTypeOK
<1>7. ASSUME NEW m \in MemberId, NEW target \in MemberId, NEW role \in Role,
             ChangeRole(m, target, role)
      PROVE  OrgTypeOK'
  <2>1. member[target] \in MemberRow
    BY <1>7 DEF ChangeRole, Commands, OrgTypeOK, FreeMember
  <2>2. [member[target] EXCEPT !.role = role] \in MemberRow
    BY <2>1 DEF MemberRow
  <2>3. QED
    BY <1>7, <2>2 DEF ChangeRole, OrgTypeOK
<1>8. ASSUME NEW m \in MemberId, NEW target \in MemberId, RevokeMember(m, target)
      PROVE  OrgTypeOK'
  <2>1. member[target] \in MemberRow
    BY <1>8 DEF RevokeMember, Commands, OrgTypeOK, FreeMember
  <2>2. [member[target] EXCEPT !.status = "REVOKED"] \in MemberRow
    BY <2>1 DEF MemberRow
  <2>3. QED
    BY <1>8, <2>2 DEF RevokeMember, OrgTypeOK
<1>9. ASSUME NEW i \in InvitationId, NEW g \in DOMAIN token[i], Answer(i, g)
      PROVE  OrgTypeOK'
  <2>1. /\ invitation[i] \in InvitationRow
        /\ token[i] \in Seq(TokenRow)
        /\ token[i][g] \in TokenRow
    BY <1>9 DEF Answer, Accept, Reject, ExpireByAnswer, Answers, OrgTypeOK, FreeInvitation
  <2>2. /\ [invitation[i] EXCEPT !.status = "ACCEPTED"] \in InvitationRow
        /\ [invitation[i] EXCEPT !.status = "REJECTED"] \in InvitationRow
        /\ [invitation[i] EXCEPT !.status = "EXPIRED"] \in InvitationRow
    BY <2>1 DEF InvitationRow
  <2>3. [token[i] EXCEPT ![g].state = "CONSUMED"] \in Seq(TokenRow)
    <3>1. [token[i][g] EXCEPT !.state = "CONSUMED"] \in TokenRow
      BY <2>1 DEF TokenRow
    <3>2. QED
      BY <2>1, <3>1
  <2>4. ASSUME NEW m \in MemberId, Accept(i, g, m)
        PROVE  OrgTypeOK'
    <3>1. [status |-> "ACTIVE", user |-> invitation[i].email,
           role |-> invitation[i].role, invitation |-> i] \in MemberRow
      BY <2>1 DEF InvitationRow, MemberRow
    <3>2. QED
      BY <2>2, <2>3, <2>4, <3>1 DEF Accept, OrgTypeOK
  <2>5. CASE Reject(i, g)
    BY <2>2, <2>3, <2>5 DEF Reject, OrgTypeOK
  <2>6. CASE ExpireByAnswer(i, g)
    BY <2>2, <2>6, RevokeTokensType DEF ExpireByAnswer, OrgTypeOK
  <2>7. QED
    BY <1>9, <2>4, <2>5, <2>6 DEF Answer
<1>10. ASSUME NEW u \in User, SetAccount(u)
       PROVE  OrgTypeOK'
  BY <1>10 DEF SetAccount, OrgTypeOK
<1>11. CASE SetOrganization
  BY <1>11 DEF SetOrganization, OrgTypeOK
<1>12. CASE Tick
  <2>1. invitation' \in [InvitationId -> InvitationRow \cup {FreeInvitation}]
    <3> SUFFICES ASSUME NEW i \in InvitationId, invitation[i].status # "FREE"
                 PROVE  [invitation[i] EXCEPT !.left = OneLess(@)] \in InvitationRow
      BY <1>12 DEF Tick, OrgTypeOK
    <3>1. invitation[i] \in InvitationRow
      BY DEF OrgTypeOK, FreeInvitation
    <3>2. OneLess(invitation[i].left) \in 0 .. InvitationTtl
      BY <3>1, OneLessType DEF InvitationRow
    <3>3. QED
      BY <3>1, <3>2 DEF InvitationRow
  <2>2. token' \in [InvitationId -> Seq(TokenRow)]
    <3> SUFFICES ASSUME NEW i \in InvitationId
                 PROVE  [g \in DOMAIN token[i] |-> [token[i][g] EXCEPT !.left = OneLess(@)]]
                          \in Seq(TokenRow)
      BY <1>12 DEF Tick
    <3>1. token[i] \in Seq(TokenRow)
      BY DEF OrgTypeOK
    <3>2. ASSUME NEW g \in DOMAIN token[i]
          PROVE  [token[i][g] EXCEPT !.left = OneLess(@)] \in TokenRow
      <4>1. token[i][g] \in TokenRow
        BY <3>1
      <4>2. OneLess(token[i][g].left) \in 0 .. InvitationTtl
        BY <4>1, OneLessType DEF TokenRow
      <4>3. QED
        BY <4>1, <4>2 DEF TokenRow
    <3>3. QED
      BY <3>1, <3>2, SameDomain
  <2>3. event' \in [InvitationId -> Seq(EventRow)]
    <3> SUFFICES ASSUME NEW i \in InvitationId
                 PROVE  [g \in DOMAIN event[i] |->
                           [event[i][g] EXCEPT !.lease = OneLess(@), !.wait = OneLess(@)]]
                          \in Seq(EventRow)
      BY <1>12 DEF Tick
    <3>1. event[i] \in Seq(EventRow)
      BY DEF OrgTypeOK
    <3>2. ASSUME NEW g \in DOMAIN event[i]
          PROVE  [event[i][g] EXCEPT !.lease = OneLess(@), !.wait = OneLess(@)] \in EventRow
      <4>1. event[i][g] \in EventRow
        BY <3>1
      <4>2. /\ OneLess(event[i][g].lease) \in 0 .. LeaseTtl
            /\ OneLess(event[i][g].wait) \in 0 .. Backoff
        BY <4>1, OneLessType DEF EventRow
      <4>3. QED
        BY <4>1, <4>2 DEF EventRow
    <3>3. QED
      BY <3>1, <3>2, SameDomain
  <2>4. QED
    BY <1>12, <2>1, <2>2, <2>3 DEF Tick, OrgTypeOK
<1>13. CASE UNCHANGED orgVars
  BY <1>13 DEF orgVars, OrgTypeOK
<1>14. QED
  BY <1>1, <1>2, <1>3, <1>4, <1>5, <1>6, <1>7, <1>8, <1>9, <1>10, <1>11, <1>12, <1>13
  DEF OrgNext, Command

LEMMA OrgTypesInitially == OrgInit => OrgTypeOK
BY BoundAssumption DEF OrgInit, OrgTypeOK, MemberRow, FreeMember, FreeInvitation, Role

\* Every row of the organization keeps its type, and no time that is left
\* becomes negative or grows beyond its lifetime.
THEOREM OrgTypeCorrectness == OrgSpec => []OrgTypeOK
BY OrgTypesInitially, OrgTypesKept, PTL DEF OrgSpec

(***************************************************************************)
(* Administrators.                                                         *)
(***************************************************************************)
LEMMA AdministratorIsThere ==
  ASSUME NEW a \in MemberId, IsActiveAdmin(a), member'[a] = member[a]
  PROVE  AlwaysAnAdmin'
BY DEF IsActiveAdmin, AlwaysAnAdmin

LEMMA AdministratorInitially == OrgInit => AlwaysAnAdmin
BY DEF OrgInit, AlwaysAnAdmin, IsActiveAdmin

LEMMA AdministratorStays ==
  OrgTypeOK /\ AlwaysAnAdmin /\ [OrgNext]_orgVars => AlwaysAnAdmin'
<1> SUFFICES ASSUME OrgTypeOK, AlwaysAnAdmin, [OrgNext]_orgVars
             PROVE  AlwaysAnAdmin'
  OBVIOUS
<1>1. CASE member' = member
  BY <1>1 DEF AlwaysAnAdmin, IsActiveAdmin
<1>2. ASSUME NEW m \in MemberId, Leave(m)
      PROVE  AlwaysAnAdmin'
  <2>1. PICK a \in MemberId \ {m} : IsActiveAdmin(a)
    BY <1>2 DEF Leave, AnotherAdmin
  <2>2. member'[a] = member[a]
    BY <1>2, <2>1 DEF Leave
  <2>3. QED
    BY <2>1, <2>2, AdministratorIsThere
<1>3. ASSUME NEW m \in MemberId, NEW target \in MemberId, NEW retain \in BOOLEAN,
             Transfer(m, target, retain)
      PROVE  AlwaysAnAdmin'
  <2>1. member'[target] = [member[target] EXCEPT !.role = "ADMIN"]
    BY <1>3 DEF Transfer
  <2>2. member[target] \in MemberRow /\ member[target].status = "ACTIVE"
    BY <1>3 DEF Transfer, OrgTypeOK, FreeMember
  <2>3. QED
    BY <2>1, <2>2 DEF MemberRow, AlwaysAnAdmin, IsActiveAdmin
<1>4. ASSUME NEW m \in MemberId, NEW target \in MemberId, NEW role \in Role,
             ChangeRole(m, target, role)
      PROVE  AlwaysAnAdmin'
  <2>1. IsActiveAdmin(m) /\ member'[m] = member[m]
    BY <1>4 DEF ChangeRole, Commands, Manages, Acts, IsActiveAdmin, OrgTypeOK
  <2>2. QED
    BY <2>1, AdministratorIsThere
<1>5. ASSUME NEW m \in MemberId, NEW target \in MemberId, RevokeMember(m, target)
      PROVE  AlwaysAnAdmin'
  <2>1. IsActiveAdmin(m) /\ member'[m] = member[m]
    BY <1>5 DEF RevokeMember, Commands, Manages, Acts, IsActiveAdmin, OrgTypeOK
  <2>2. QED
    BY <2>1, AdministratorIsThere
<1>6. ASSUME NEW i \in InvitationId, NEW g \in DOMAIN token[i], NEW m \in MemberId,
             Accept(i, g, m)
      PROVE  AlwaysAnAdmin'
  <2>1. PICK a \in MemberId : IsActiveAdmin(a)
    BY DEF AlwaysAnAdmin
  <2>2. member'[a] = member[a]
    BY <1>6, <2>1 DEF Accept, IsActiveAdmin
  <2>3. QED
    BY <2>1, <2>2, AdministratorIsThere
<1>7. QED
  BY <1>1, <1>2, <1>3, <1>4, <1>5, <1>6
  DEF OrgNext, Command, Answer, Invite, Resend, RevokeInvitation, ExpireByAdmin, Reject,
      ExpireByAnswer, SetAccount, SetOrganization, Tick, orgVars

\* The organization always has an active administrator: whoever leaves, is
\* demoted or revoked leaves another behind (ensureAnotherAdmin), the
\* administrator who commands somebody else remains, and a transfer makes one.
THEOREM AdministratorRemains == OrgSpec => []AlwaysAnAdmin
BY AdministratorInitially, AdministratorStays, OrgTypeCorrectness, PTL DEF OrgSpec

(***************************************************************************)
(* Memberships.  OneActiveMembership is not inductive: that an invitation  *)
(* admits one member only needs that it is ACCEPTED once it has.           *)
(***************************************************************************)
MembersWereInvited ==
  \A m \in MemberId :
    member[m].status # "FREE" /\ member[m].invitation # NoInvitation
      => invitation[member[m].invitation].status = "ACCEPTED"

MembershipInv == OneActiveMembership /\ MembersWereInvited

\* What no step but an acceptance does to memberships: nobody joins, and an
\* accepted invitation stays accepted.
NobodyJoins ==
  /\ \A m \in MemberId : member'[m].status # "FREE" =>
       /\ member[m].status # "FREE"
       /\ member'[m].user = member[m].user
       /\ member'[m].invitation = member[m].invitation
       /\ member'[m].status = "ACTIVE" => member[m].status = "ACTIVE"
  /\ \A i \in InvitationId : invitation[i].status = "ACCEPTED"
       => invitation'[i].status = "ACCEPTED"

LEMMA MembershipsAgreeWithoutJoining ==
  ASSUME OrgTypeOK, MembershipInv, NobodyJoins
  PROVE  MembershipInv'
<1>1. OneActiveMembership'
  BY DEF MembershipInv, OneActiveMembership, NobodyJoins
<1>2. MembersWereInvited'
  <2> SUFFICES ASSUME NEW m \in MemberId, member'[m].status # "FREE",
                      member'[m].invitation # NoInvitation
               PROVE  invitation'[member'[m].invitation].status = "ACCEPTED"
    BY DEF MembersWereInvited
  <2>1. /\ member[m].status # "FREE"
        /\ member'[m].invitation = member[m].invitation
    BY DEF NobodyJoins
  <2>2. member[m] \in MemberRow
    BY <2>1 DEF OrgTypeOK, FreeMember
  <2>3. member[m].invitation \in InvitationId
    BY <2>1, <2>2 DEF MemberRow
  <2>4. QED
    BY <2>1, <2>3 DEF MembershipInv, MembersWereInvited, NobodyJoins
<1>3. QED
  BY <1>1, <1>2 DEF MembershipInv

LEMMA OnlyAcceptJoins ==
  ASSUME OrgTypeOK, [OrgNext]_orgVars
  PROVE  \/ NobodyJoins
         \/ \E i \in InvitationId : \E g \in DOMAIN token[i] : \E m \in MemberId :
              Accept(i, g, m)
<1>1. ASSUME member' = member, invitation' = invitation
      PROVE  NobodyJoins
  BY <1>1 DEF NobodyJoins
<1>2. ASSUME NEW m \in MemberId, NEW email \in User, NEW role \in Role,
             NEW i \in InvitationId, Invite(m, email, role, i)
      PROVE  NobodyJoins
  BY <1>2 DEF Invite, PendingFor, NobodyJoins
<1>3. ASSUME NEW i \in InvitationId, invitation[i].status # "ACCEPTED", member' = member,
             \A x \in InvitationId \ {i} : invitation'[x] = invitation[x]
      PROVE  NobodyJoins
  BY <1>3 DEF NobodyJoins
<1>4. ASSUME NEW m \in MemberId, Leave(m)
      PROVE  NobodyJoins
  <2>1. member[m] \in MemberRow /\ member[m].status = "ACTIVE"
    BY <1>4 DEF Leave, Acts, OrgTypeOK, FreeMember
  <2>2. QED
    BY <1>4, <2>1 DEF Leave, NobodyJoins, OrgTypeOK, MemberRow
<1>5. ASSUME NEW m \in MemberId, NEW target \in MemberId, NEW retain \in BOOLEAN,
             Transfer(m, target, retain)
      PROVE  NobodyJoins
  <2>1. /\ member[m] \in MemberRow /\ member[m].status = "ACTIVE"
        /\ member[target] \in MemberRow /\ member[target].status = "ACTIVE"
    BY <1>5 DEF Transfer, Manages, Acts, OrgTypeOK, FreeMember
  <2>2. QED
    BY <1>5, <2>1 DEF Transfer, NobodyJoins, OrgTypeOK, MemberRow
<1>6. ASSUME NEW m \in MemberId, NEW target \in MemberId, NEW role \in Role,
             ChangeRole(m, target, role)
      PROVE  NobodyJoins
  <2>1. member[target] \in MemberRow /\ member[target].status = "ACTIVE"
    BY <1>6 DEF ChangeRole, Commands, OrgTypeOK, FreeMember
  <2>2. QED
    BY <1>6, <2>1 DEF ChangeRole, NobodyJoins, OrgTypeOK, MemberRow
<1>7. ASSUME NEW m \in MemberId, NEW target \in MemberId, RevokeMember(m, target)
      PROVE  NobodyJoins
  <2>1. member[target] \in MemberRow /\ member[target].status = "ACTIVE"
    BY <1>7 DEF RevokeMember, Commands, OrgTypeOK, FreeMember
  <2>2. QED
    BY <1>7, <2>1 DEF RevokeMember, NobodyJoins, OrgTypeOK, MemberRow
<1>8. CASE Tick
  <2> SUFFICES ASSUME NEW i \in InvitationId, invitation[i].status = "ACCEPTED"
               PROVE  invitation'[i].status = "ACCEPTED"
    BY <1>8 DEF Tick, NobodyJoins
  <2>1. invitation[i] \in InvitationRow
    BY DEF OrgTypeOK, FreeInvitation
  <2>2. QED
    BY <1>8, <2>1 DEF Tick, InvitationRow
<1>9. ASSUME NEW m \in MemberId, Command(m)
      PROVE  NobodyJoins
  <2>1. ASSUME NEW i \in InvitationId,
               Resend(m, i) \/ RevokeInvitation(m, i) \/ ExpireByAdmin(m, i)
        PROVE  NobodyJoins
    <3>1. /\ invitation[i].status = "PENDING"
          /\ member' = member
          /\ \A x \in InvitationId \ {i} : invitation'[x] = invitation[x]
      BY <2>1 DEF Resend, RevokeInvitation, ExpireByAdmin, OrgTypeOK
    <3>2. QED
      BY <3>1, <1>3
  <2>2. QED
    BY <1>2, <1>4, <1>5, <1>6, <1>7, <1>9, <2>1 DEF Command
<1>10. ASSUME NEW i \in InvitationId, NEW g \in DOMAIN token[i],
              Reject(i, g) \/ ExpireByAnswer(i, g)
       PROVE  NobodyJoins
  <2>1. /\ invitation[i].status = "PENDING"
        /\ member' = member
        /\ \A x \in InvitationId \ {i} : invitation'[x] = invitation[x]
    BY <1>10 DEF Reject, ExpireByAnswer, Answers, OrgTypeOK
  <2>2. QED
    BY <2>1, <1>3
<1>11. QED
  BY <1>1, <1>8, <1>9, <1>10 DEF OrgNext, Answer, SetAccount, SetOrganization, orgVars

LEMMA MembershipInitially == OrgInit => MembershipInv
BY DEF OrgInit, MembershipInv, OneActiveMembership, MembersWereInvited, FreeMember,
       NoInvitation

LEMMA MembershipStays ==
  OrgTypeOK /\ MembershipInv /\ [OrgNext]_orgVars => MembershipInv'
<1> SUFFICES ASSUME OrgTypeOK, MembershipInv, [OrgNext]_orgVars
             PROVE  MembershipInv'
  OBVIOUS
<1>1. CASE NobodyJoins
  BY <1>1, MembershipsAgreeWithoutJoining
<1>2. ASSUME NEW i \in InvitationId, NEW g \in DOMAIN token[i], NEW m \in MemberId,
             Accept(i, g, m)
      PROVE  MembershipInv'
  <2>1. /\ member[m].status = "FREE"
        /\ invitation[i].status = "PENDING"
        /\ \A x \in MemberId : member[x].status = "ACTIVE"
                               => member[x].user # invitation[i].email
    BY <1>2 DEF Accept, Answers
  <2>2. /\ member'[m] = [status |-> "ACTIVE", user |-> invitation[i].email,
                         role |-> invitation[i].role, invitation |-> i]
        /\ \A x \in MemberId \ {m} : member'[x] = member[x]
    BY <1>2 DEF Accept, OrgTypeOK
  <2>3. \A x \in MemberId : member[x].status # "FREE" /\ member[x].invitation = i
                             => i = NoInvitation
    BY <2>1 DEF MembershipInv, MembersWereInvited
  <2>4. OneActiveMembership'
    BY <2>1, <2>2, <2>3 DEF MembershipInv, OneActiveMembership
  <2>5. MembersWereInvited'
    <3> SUFFICES ASSUME NEW x \in MemberId, member'[x].status # "FREE",
                        member'[x].invitation # NoInvitation
                 PROVE  invitation'[member'[x].invitation].status = "ACCEPTED"
      BY DEF MembersWereInvited
    <3>1. invitation[i] \in InvitationRow
      BY <2>1 DEF OrgTypeOK, FreeInvitation
    <3>2. /\ invitation'[i].status = "ACCEPTED"
          /\ \A y \in InvitationId \ {i} : invitation'[y] = invitation[y]
      BY <1>2, <3>1 DEF Accept, OrgTypeOK, InvitationRow
    <3>3. CASE x = m
      BY <2>2, <3>2, <3>3
    <3>4. CASE x # m
      <4>1. /\ member'[x] = member[x]
            /\ member[x] \in MemberRow
        BY <2>2, <3>4 DEF OrgTypeOK, FreeMember
      <4>2. /\ member[x].invitation \in InvitationId
            /\ invitation[member[x].invitation].status = "ACCEPTED"
        BY <4>1 DEF MembershipInv, MembersWereInvited, MemberRow
      <4>3. QED
        BY <4>1, <4>2, <3>2
    <3>5. QED
      BY <3>3, <3>4
  <2>6. QED
    BY <2>4, <2>5 DEF MembershipInv
<1>3. QED
  BY <1>1, <1>2, OnlyAcceptJoins

LEMMA MembershipInvariant == OrgSpec => []MembershipInv
BY MembershipInitially, MembershipStays, OrgTypeCorrectness, PTL DEF OrgSpec

\* Nobody is an active member twice and no invitation admits two members:
\* respond looks for an active membership under the lock of the organization,
\* and an invitation that has admitted somebody is no longer pending.
THEOREM MembershipIsUnique == OrgSpec => []OneActiveMembership
<1>1. MembershipInv => OneActiveMembership
  BY DEF MembershipInv
<1>2. QED
  BY <1>1, MembershipInvariant, PTL
=============================================================================
