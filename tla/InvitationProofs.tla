---------------------------- MODULE InvitationProofs ----------------------------
(***************************************************************************)
(* Invitations, their tokens, their events and the members that joined by  *)
(* them agree, for any people, rows, lifetimes and bounds.                 *)
(***************************************************************************)
EXTENDS OrganizationProofs

-----------------------------------------------------------------------------
(* Tokens and events as sequences *)

LEMMA RowsAreSequences ==
  ASSUME OrgTypeOK, NEW i \in InvitationId
  PROVE  /\ token[i] \in Seq(TokenRow) /\ Latest(i) \in Nat
         /\ DOMAIN token[i] = 1 .. Latest(i)
         /\ \A g \in DOMAIN token[i] : token[i][g] \in TokenRow
         /\ event[i] \in Seq(EventRow) /\ Len(event[i]) \in Nat
         /\ DOMAIN event[i] = 1 .. Len(event[i])
         /\ \A g \in DOMAIN event[i] : event[i][g] \in EventRow
<1>1. token[i] \in Seq(TokenRow) /\ event[i] \in Seq(EventRow)
  BY DEF OrgTypeOK
<1>2. QED
  BY <1>1, LenProperties, ElementOfSeq DEF Latest

\* A function on the indices of a sequence has its length.
LEMMA SameLength ==
  ASSUME NEW R, NEW S, NEW seq \in Seq(R), NEW f \in [DOMAIN seq -> S]
  PROVE  Len(f) = Len(seq) /\ DOMAIN f = DOMAIN seq
<1>1. f \in Seq(S)
  BY SameDomain
<1>2. /\ Len(seq) \in Nat /\ DOMAIN seq = 1 .. Len(seq)
      /\ Len(f) \in Nat /\ DOMAIN f = 1 .. Len(f)
  BY <1>1, LenProperties
<1>3. DOMAIN f = DOMAIN seq
  OBVIOUS
<1>4. QED
  BY <1>2, <1>3

LEMMA RevokedTokensEffect ==
  ASSUME OrgTypeOK, NEW i \in InvitationId, NEW G
  PROVE  /\ Len(RevokedTokens(i, G)) = Latest(i)
         /\ \A g \in DOMAIN token[i] :
              /\ RevokedTokens(i, G)[g].left = token[i][g].left
              /\ g \in G /\ token[i][g].state = "LIVE"
                   => RevokedTokens(i, G)[g].state = "REVOKED"
              /\ ~(g \in G /\ token[i][g].state = "LIVE")
                   => RevokedTokens(i, G)[g].state = token[i][g].state
<1>1. /\ token[i] \in Seq(TokenRow)
      /\ \A g \in DOMAIN token[i] : token[i][g] \in TokenRow
  BY RowsAreSequences
<1>2. Len(RevokedTokens(i, G)) = Latest(i)
  <2>1. RevokedTokens(i, G) \in [DOMAIN token[i] -> TokenRow]
    <3>1. ASSUME NEW g \in DOMAIN token[i]
          PROVE  [token[i][g] EXCEPT !.state = "REVOKED"] \in TokenRow
      BY <1>1 DEF TokenRow
    <3>2. QED
      BY <1>1, <3>1 DEF RevokedTokens
  <2>2. QED
    BY <1>1, <2>1, SameLength DEF Latest
<1>3. ASSUME NEW g \in DOMAIN token[i]
      PROVE  /\ RevokedTokens(i, G)[g].left = token[i][g].left
             /\ g \in G /\ token[i][g].state = "LIVE"
                  => RevokedTokens(i, G)[g].state = "REVOKED"
             /\ ~(g \in G /\ token[i][g].state = "LIVE")
                  => RevokedTokens(i, G)[g].state = token[i][g].state
  BY <1>1 DEF RevokedTokens, TokenRow
<1>4. QED
  BY <1>2, <1>3

LEMMA ObsoleteEventsEffect ==
  ASSUME OrgTypeOK, NEW i \in InvitationId, NEW G
  PROVE  /\ Len(ObsoleteEvents(i, G)) = Len(event[i])
         /\ \A g \in DOMAIN event[i] :
              \/ ObsoleteEvents(i, G)[g] = event[i][g]
              \/ /\ g \in G
                 /\ event[i][g].status \in {"PENDING", "PROCESSING"}
                 /\ ~IsLeased(event[i][g])
                 /\ ObsoleteEvents(i, G)[g] = Obsolete(event[i][g])
                 /\ ObsoleteEvents(i, G)[g].status = "OBSOLETE"
                 /\ ObsoleteEvents(i, G)[g].attempt = event[i][g].attempt
<1>1. /\ event[i] \in Seq(EventRow)
      /\ \A g \in DOMAIN event[i] : event[i][g] \in EventRow
  BY RowsAreSequences
<1>2. ASSUME NEW g \in DOMAIN event[i]
      PROVE  /\ Obsolete(event[i][g]).status = "OBSOLETE"
             /\ Obsolete(event[i][g]).attempt = event[i][g].attempt
             /\ Obsolete(event[i][g]) \in EventRow
  <2>1. 0 \in 0 .. LeaseTtl
    BY BoundAssumption
  <2>2. QED
    BY <1>1, <2>1 DEF Obsolete, EventRow
<1>3. ObsoleteEvents(i, G) \in [DOMAIN event[i] -> EventRow]
  BY <1>1, <1>2 DEF ObsoleteEvents
<1>4. Len(ObsoleteEvents(i, G)) = Len(event[i])
  BY <1>1, <1>3, SameLength
<1>5. ASSUME NEW g \in DOMAIN event[i]
      PROVE  \/ ObsoleteEvents(i, G)[g] = event[i][g]
             \/ /\ g \in G
                /\ event[i][g].status \in {"PENDING", "PROCESSING"}
                /\ ~IsLeased(event[i][g])
                /\ ObsoleteEvents(i, G)[g] = Obsolete(event[i][g])
  BY DEF ObsoleteEvents
<1>6. QED
  BY <1>2, <1>4, <1>5

-----------------------------------------------------------------------------
(* Steps *)

\* What a step makes of one invitation, its tokens and its events: nothing, or one
\* of what follows.
Kept(i) ==
  /\ invitation'[i] = invitation[i]
  /\ token'[i] = token[i]
  /\ event'[i] = event[i]

Made(i) ==
  \E m \in MemberId, email \in User, role \in Role : Invite(m, email, role, i)

Overdue(i) ==
  /\ invitation[i].status = "PENDING" /\ invitation[i].left = 0
  /\ invitation'[i] = [invitation[i] EXCEPT !.status = "EXPIRED"]
  /\ token'[i] = token[i]
  /\ event'[i] = event[i]

Renewed(i) ==
  /\ organization = "ACTIVE"
  /\ invitation[i].status = "PENDING" /\ invitation[i].left > 0
  /\ invitation'[i] = [invitation[i] EXCEPT !.left = InvitationTtl]
  /\ token'[i] = Append(RevokedTokens(i, DOMAIN token[i]), NewToken)
  /\ event'[i] = Append(ObsoleteEvents(i, DOMAIN token[i]), NewEvent)

Withdrawn(i) ==
  /\ organization = "ACTIVE"
  /\ invitation[i].status = "PENDING" /\ invitation[i].left > 0
  /\ invitation'[i] = [invitation[i] EXCEPT !.status = "REVOKED"]
  /\ token'[i] = RevokedTokens(i, DOMAIN token[i])
  /\ event'[i] = ObsoleteEvents(i, DOMAIN token[i])

Answered(i) ==
  /\ organization = "ACTIVE"
  /\ \E g \in DOMAIN token[i] :
       /\ Answers(i, g) /\ InTime(i, g)
       /\ token'[i] = [token[i] EXCEPT ![g].state = "CONSUMED"]
       /\ event'[i] = event[i]
       /\ \/ Reject(i, g)
          \/ \E m \in MemberId : Accept(i, g, m)

Missed(i) ==
  \E g \in DOMAIN token[i] :
    /\ Answers(i, g) /\ ~InTime(i, g)
    /\ invitation'[i] = [invitation[i] EXCEPT !.status = "EXPIRED"]
    /\ token'[i] = RevokedTokens(i, {g})
    /\ event'[i] = ObsoleteEvents(i, {g})

Aged(i) ==
  /\ invitation[i].status = "FREE" => invitation'[i] = invitation[i]
  /\ invitation[i].status # "FREE"
       => invitation'[i] = [invitation[i] EXCEPT !.left = OneLess(@)]
  /\ token'[i] = [g \in DOMAIN token[i] |-> [token[i][g] EXCEPT !.left = OneLess(@)]]
  /\ event'[i] = [g \in DOMAIN event[i] |->
                    [event[i][g] EXCEPT !.lease = OneLess(@), !.wait = OneLess(@)]]

RowsStep(i) ==
  \/ Kept(i) \/ Made(i) \/ Overdue(i) \/ Renewed(i)
  \/ Withdrawn(i) \/ Answered(i) \/ Missed(i) \/ Aged(i)

LEMMA EveryStepIsARowsStep ==
  ASSUME OrgTypeOK, [OrgNext]_orgVars, NEW i \in InvitationId
  PROVE  RowsStep(i)
<1>1. ASSUME UNCHANGED <<invitation, token, event>>
      PROVE  RowsStep(i)
  BY <1>1 DEF RowsStep, Kept
<1>2. ASSUME NEW m \in MemberId, NEW email \in User, NEW role \in Role,
             NEW x \in InvitationId, Invite(m, email, role, x)
      PROVE  RowsStep(i)
  <2>1. CASE x = i
    BY <1>2, <2>1 DEF RowsStep, Made
  <2>2. CASE x # i /\ i \in PendingFor(email)
    BY <1>2, <2>2 DEF RowsStep, Overdue, Invite, PendingFor, OrgTypeOK
  <2>3. CASE x # i /\ i \notin PendingFor(email)
    BY <1>2, <2>3 DEF RowsStep, Kept, Invite, OrgTypeOK
  <2>4. QED
    BY <2>1, <2>2, <2>3
<1>3. ASSUME NEW m \in MemberId, NEW x \in InvitationId, Resend(m, x)
      PROVE  RowsStep(i)
  BY <1>3 DEF RowsStep, Renewed, Kept, Resend, Manages, Acts, OrgTypeOK
<1>4. ASSUME NEW m \in MemberId, NEW x \in InvitationId, RevokeInvitation(m, x)
      PROVE  RowsStep(i)
  BY <1>4 DEF RowsStep, Withdrawn, Kept, RevokeInvitation, RevokeTokens, Manages, Acts, OrgTypeOK
<1>5. ASSUME NEW m \in MemberId, NEW x \in InvitationId, ExpireByAdmin(m, x)
      PROVE  RowsStep(i)
  BY <1>5 DEF RowsStep, Overdue, Kept, ExpireByAdmin, OrgTypeOK
<1>6. ASSUME NEW m \in MemberId, Command(m)
      PROVE  RowsStep(i)
  BY <1>1, <1>2, <1>3, <1>4, <1>5, <1>6 DEF Command, Leave, Transfer, ChangeRole, RevokeMember
<1>7. ASSUME NEW x \in InvitationId, NEW g \in DOMAIN token[x], NEW m \in MemberId,
             Accept(x, g, m)
      PROVE  RowsStep(i)
  <2>1. CASE x = i
    BY <1>7, <2>1 DEF RowsStep, Answered, Accept, OrgTypeOK
  <2>2. CASE x # i
    BY <1>7, <2>2 DEF RowsStep, Kept, Accept, OrgTypeOK
  <2>3. QED
    BY <2>1, <2>2
<1>8. ASSUME NEW x \in InvitationId, NEW g \in DOMAIN token[x], Reject(x, g)
      PROVE  RowsStep(i)
  <2>1. CASE x = i
    BY <1>8, <2>1 DEF RowsStep, Answered, Reject, OrgTypeOK
  <2>2. CASE x # i
    BY <1>8, <2>2 DEF RowsStep, Kept, Reject, OrgTypeOK
  <2>3. QED
    BY <2>1, <2>2
<1>9. ASSUME NEW x \in InvitationId, NEW g \in DOMAIN token[x], ExpireByAnswer(x, g)
      PROVE  RowsStep(i)
  BY <1>9 DEF RowsStep, Missed, Kept, ExpireByAnswer, RevokeTokens, OrgTypeOK
<1>10. ASSUME NEW x \in InvitationId, NEW g \in DOMAIN token[x], Answer(x, g)
       PROVE  RowsStep(i)
  BY <1>7, <1>8, <1>9, <1>10 DEF Answer
<1>11. CASE Tick
  BY <1>11 DEF RowsStep, Aged, Tick
<1>12. QED
  BY <1>1, <1>6, <1>10, <1>11 DEF OrgNext, SetAccount, SetOrganization, orgVars

-----------------------------------------------------------------------------
(* The invariant *)

\* Every generation has its token and its event.  Only the newest token may be
\* other than revoked, and what it is follows from the state of the invitation.
TokensAgree(i) ==
  /\ invitation[i].status = "FREE" => Latest(i) = 0
  /\ invitation[i].status # "FREE" => Latest(i) > 0
  /\ Len(event[i]) = Latest(i)
  /\ \A g \in DOMAIN token[i] : token[i][g].state # "REVOKED" => g = Latest(i)
  /\ invitation[i].status = "PENDING" =>
       /\ token[i][Latest(i)].state = "LIVE"
       /\ token[i][Latest(i)].left = invitation[i].left
  /\ invitation[i].status \in {"ACCEPTED", "REJECTED"} =>
       token[i][Latest(i)].state = "CONSUMED"
  /\ invitation[i].status = "REVOKED" => token[i][Latest(i)].state = "REVOKED"
  /\ invitation[i].status = "EXPIRED" =>
       \/ token[i][Latest(i)].state = "REVOKED"
       \/ token[i][Latest(i)].state = "LIVE" /\ token[i][Latest(i)].left = 0

InvitationsAgree == \A i \in InvitationId : TokensAgree(i)

LEMMA KeptAgrees ==
  ASSUME NEW i \in InvitationId, TokensAgree(i), Kept(i)
  PROVE  TokensAgree(i)'
BY DEF Kept, TokensAgree, Latest

LEMMA MadeAgrees ==
  ASSUME OrgTypeOK, NEW i \in InvitationId, TokensAgree(i), Made(i)
  PROVE  TokensAgree(i)'
<1>1. PICK m \in MemberId, email \in User, role \in Role : Invite(m, email, role, i)
  BY DEF Made
<1>2. /\ invitation'[i] = [status |-> "PENDING", email |-> email, role |-> role,
                           left |-> InvitationTtl]
      /\ token'[i] = <<NewToken>>
      /\ event'[i] = <<NewEvent>>
  BY <1>1 DEF Invite, OrgTypeOK
<1>3. Latest(i)' = 1 /\ Len(event'[i]) = 1
  BY <1>2 DEF Latest
<1>4. /\ token'[i][1].state = "LIVE"
      /\ token'[i][1].left = InvitationTtl
      /\ DOMAIN token'[i] = {1}
  BY <1>2 DEF NewToken
<1>5. QED
  BY <1>2, <1>3, <1>4 DEF TokensAgree

LEMMA OverdueAgrees ==
  ASSUME OrgTypeOK, NEW i \in InvitationId, TokensAgree(i), Overdue(i)
  PROVE  TokensAgree(i)'
<1>1. invitation[i] \in InvitationRow
  BY DEF Overdue, OrgTypeOK, FreeInvitation
<1>2. invitation'[i].status = "EXPIRED" /\ invitation'[i].left = 0
  BY <1>1 DEF Overdue, InvitationRow
<1>3. Latest(i)' = Latest(i) /\ token'[i] = token[i] /\ event'[i] = event[i]
  BY DEF Overdue, Latest
<1>4. QED
  BY <1>2, <1>3 DEF Overdue, TokensAgree

\* While an invitation is pending its older tokens are revoked.
LEMMA OnlyLatestLives ==
  ASSUME OrgTypeOK, NEW i \in InvitationId, TokensAgree(i),
         invitation[i].status = "PENDING"
  PROVE  /\ Latest(i) \in DOMAIN token[i]
         /\ token[i][Latest(i)].state = "LIVE"
         /\ \A g \in DOMAIN token[i] \ {Latest(i)} : token[i][g].state = "REVOKED"
<1>1. Latest(i) \in Nat /\ DOMAIN token[i] = 1 .. Latest(i)
  BY RowsAreSequences
<1>2. QED
  BY <1>1 DEF TokensAgree

LEMMA RenewedAgrees ==
  ASSUME OrgTypeOK, NEW i \in InvitationId, TokensAgree(i), Renewed(i)
  PROVE  TokensAgree(i)'
<1> DEFINE revoked == RevokedTokens(i, DOMAIN token[i])
           obsolete == ObsoleteEvents(i, DOMAIN token[i])
<1>1. invitation[i] \in InvitationRow
  BY DEF Renewed, OrgTypeOK, FreeInvitation
<1>2. invitation'[i].status = "PENDING" /\ invitation'[i].left = InvitationTtl
  BY <1>1 DEF Renewed, InvitationRow
<1>3. /\ revoked \in Seq(TokenRow) /\ Len(revoked) = Latest(i)
      /\ obsolete \in Seq(EventRow) /\ Len(obsolete) = Len(event[i])
  BY RevokedTokensType, RevokedTokensEffect, ObsoleteEventsType, ObsoleteEventsEffect
<1>4. /\ Latest(i) \in Nat /\ Len(event[i]) \in Nat
      /\ DOMAIN token[i] = 1 .. Latest(i)
  BY RowsAreSequences
<1>5. \A g \in DOMAIN token[i] : revoked[g].state = "REVOKED"
  BY OnlyLatestLives, RevokedTokensEffect DEF Renewed
<1> HIDE DEF revoked, obsolete
<1>6. token'[i] = Append(revoked, NewToken) /\ event'[i] = Append(obsolete, NewEvent)
  BY DEF Renewed, revoked, obsolete
<1>7. NewToken \in TokenRow /\ NewEvent \in EventRow
  BY NewRowsType
<1>8. /\ Latest(i)' = Latest(i) + 1
      /\ DOMAIN token'[i] = 1 .. Latest(i) + 1
      /\ token'[i][Latest(i) + 1] = NewToken
      /\ \A g \in 1 .. Latest(i) : token'[i][g] = revoked[g]
  BY <1>3, <1>6, <1>7, AppendProperties DEF Latest
<1>9. Len(event'[i]) = Len(event[i]) + 1
  BY <1>3, <1>6, <1>7, AppendProperties
<1>10. NewToken.state = "LIVE" /\ NewToken.left = InvitationTtl
  BY DEF NewToken
<1>11. ASSUME NEW g \in DOMAIN token'[i], token'[i][g].state # "REVOKED"
       PROVE  g = Latest(i)'
  BY <1>4, <1>5, <1>8, <1>11
<1>12. Len(event'[i]) = Latest(i)' /\ Latest(i)' > 0
  BY <1>4, <1>8, <1>9 DEF TokensAgree
<1>13. QED
  BY <1>2, <1>8, <1>10, <1>11, <1>12 DEF TokensAgree

LEMMA RevokedAgrees ==
  ASSUME OrgTypeOK, NEW i \in InvitationId, TokensAgree(i), NEW G,
         invitation[i].status = "PENDING", Latest(i) \in G,
         invitation'[i].status \in {"REVOKED", "EXPIRED"},
         token'[i] = RevokedTokens(i, G), event'[i] = ObsoleteEvents(i, G)
  PROVE  TokensAgree(i)'
<1>1. Latest(i)' = Latest(i) /\ Len(event'[i]) = Len(event[i])
  BY RevokedTokensEffect, ObsoleteEventsEffect DEF Latest
<1>2. DOMAIN token'[i] = DOMAIN token[i]
  BY DEF RevokedTokens
<1>3. \A g \in DOMAIN token[i] : token'[i][g].state = "REVOKED"
  BY OnlyLatestLives, RevokedTokensEffect
<1>4. Latest(i) \in DOMAIN token[i]
  BY OnlyLatestLives
<1>5. QED
  BY <1>1, <1>2, <1>3, <1>4 DEF TokensAgree

LEMMA WithdrawnAgrees ==
  ASSUME OrgTypeOK, NEW i \in InvitationId, TokensAgree(i), Withdrawn(i)
  PROVE  TokensAgree(i)'
<1>1. invitation[i] \in InvitationRow
  BY DEF Withdrawn, OrgTypeOK, FreeInvitation
<1>2. invitation'[i].status = "REVOKED"
  BY <1>1 DEF Withdrawn, InvitationRow
<1>3. QED
  BY <1>2, OnlyLatestLives, RevokedAgrees DEF Withdrawn

LEMMA MissedAgrees ==
  ASSUME OrgTypeOK, NEW i \in InvitationId, TokensAgree(i), Missed(i)
  PROVE  TokensAgree(i)'
<1>1. PICK g \in DOMAIN token[i] :
        /\ Answers(i, g) /\ ~InTime(i, g)
        /\ invitation'[i] = [invitation[i] EXCEPT !.status = "EXPIRED"]
        /\ token'[i] = RevokedTokens(i, {g})
        /\ event'[i] = ObsoleteEvents(i, {g})
  BY DEF Missed
<1>2. invitation[i].status = "PENDING" /\ g = Latest(i)
  BY <1>1 DEF Answers
<1>3. invitation[i] \in InvitationRow
  BY <1>2 DEF OrgTypeOK, FreeInvitation
<1>4. invitation'[i].status = "EXPIRED"
  BY <1>1, <1>3 DEF InvitationRow
<1>5. QED
  BY <1>1, <1>2, <1>4, RevokedAgrees

LEMMA AnsweredAgrees ==
  ASSUME OrgTypeOK, NEW i \in InvitationId, TokensAgree(i), Answered(i)
  PROVE  TokensAgree(i)'
<1>1. PICK g \in DOMAIN token[i] :
        /\ Answers(i, g) /\ InTime(i, g)
        /\ token'[i] = [token[i] EXCEPT ![g].state = "CONSUMED"]
        /\ event'[i] = event[i]
        /\ \/ Reject(i, g)
           \/ \E m \in MemberId : Accept(i, g, m)
  BY DEF Answered
<1>2. invitation[i].status = "PENDING" /\ g = Latest(i)
  BY <1>1 DEF Answers
<1>3. invitation[i] \in InvitationRow
  BY <1>2 DEF OrgTypeOK, FreeInvitation
<1>4. invitation'[i].status \in {"ACCEPTED", "REJECTED"}
  BY <1>1, <1>3 DEF Reject, Accept, InvitationRow, OrgTypeOK
<1>5. /\ token[i] \in Seq(TokenRow) /\ Latest(i) \in Nat
      /\ DOMAIN token[i] = 1 .. Latest(i)
      /\ token[i][g] \in TokenRow
  BY RowsAreSequences
<1>6. Latest(i)' = Latest(i) /\ DOMAIN token'[i] = DOMAIN token[i]
  <2>1. [token[i][g] EXCEPT !.state = "CONSUMED"] \in TokenRow
    BY <1>5 DEF TokenRow
  <2>2. token'[i] \in [DOMAIN token[i] -> TokenRow]
    BY <1>1, <1>5, <2>1, RowsAreSequences
  <2>3. QED
    BY <1>5, <2>2, SameLength DEF Latest
<1>7. /\ token'[i][g].state = "CONSUMED"
      /\ \A x \in DOMAIN token[i] \ {g} : token'[i][x] = token[i][x]
  BY <1>1, <1>5 DEF TokenRow
<1>8. \A x \in DOMAIN token'[i] : token'[i][x].state # "REVOKED" => x = Latest(i)'
  BY <1>2, <1>6, <1>7 DEF TokensAgree
<1>9. QED
  BY <1>1, <1>2, <1>4, <1>5, <1>6, <1>7, <1>8 DEF TokensAgree

LEMMA AgedAgrees ==
  ASSUME OrgTypeOK, NEW i \in InvitationId, TokensAgree(i), Aged(i)
  PROVE  TokensAgree(i)'
<1>1. /\ token[i] \in Seq(TokenRow) /\ event[i] \in Seq(EventRow)
      /\ Latest(i) \in Nat /\ DOMAIN token[i] = 1 .. Latest(i)
      /\ \A g \in DOMAIN token[i] : token[i][g] \in TokenRow
      /\ \A g \in DOMAIN event[i] : event[i][g] \in EventRow
  BY RowsAreSequences
<1>2. ASSUME NEW g \in DOMAIN token[i]
      PROVE  /\ token'[i][g].state = token[i][g].state
             /\ token'[i][g].left = OneLess(token[i][g].left)
  <2>1. token'[i][g] = [token[i][g] EXCEPT !.left = OneLess(token[i][g].left)]
    BY DEF Aged
  <2>2. QED
    BY <1>1, <2>1 DEF TokenRow
<1>3. Latest(i)' = Latest(i) /\ DOMAIN token'[i] = DOMAIN token[i]
  <2> DEFINE Any == {token'[i][g] : g \in DOMAIN token[i]}
  <2>1. token'[i] \in [DOMAIN token[i] -> Any]
    BY DEF Aged
  <2>2. QED
    BY <1>1, <2>1, SameLength DEF Latest
<1>4. Len(event'[i]) = Len(event[i])
  <2> DEFINE Any == {event'[i][g] : g \in DOMAIN event[i]}
  <2>1. event'[i] \in [DOMAIN event[i] -> Any]
    BY DEF Aged
  <2>2. QED
    BY <1>1, <2>1, SameLength
<1>5. CASE invitation[i].status = "FREE"
  <2>1. invitation'[i] = invitation[i]
    BY <1>5 DEF Aged
  <2>2. Latest(i) = 0 /\ DOMAIN token'[i] = {}
    BY <1>1, <1>3, <1>5 DEF TokensAgree
  <2>3. QED
    BY <1>3, <1>4, <1>5, <2>1, <2>2 DEF TokensAgree
<1>6. CASE invitation[i].status # "FREE"
  <2>1. invitation[i] \in InvitationRow
    BY <1>6 DEF OrgTypeOK, FreeInvitation
  <2>2. /\ invitation'[i].status = invitation[i].status
        /\ invitation'[i].left = OneLess(invitation[i].left)
    BY <1>6, <2>1 DEF Aged, InvitationRow
  <2>3. Latest(i) \in DOMAIN token[i]
    BY <1>1, <1>6 DEF TokensAgree
  <2>4. OneLess(0) = 0
    BY DEF OneLess
  <2>5. QED
    BY <1>2, <1>3, <1>4, <2>2, <2>3, <2>4 DEF TokensAgree
<1>7. QED
  BY <1>5, <1>6

LEMMA TokensAgreeInitially == OrgInit => InvitationsAgree
<1> SUFFICES ASSUME OrgInit, NEW i \in InvitationId
             PROVE  TokensAgree(i)
  BY DEF InvitationsAgree
<1>1. invitation[i].status = "FREE" /\ token[i] = <<>> /\ event[i] = <<>>
  BY DEF OrgInit, FreeInvitation
<1>2. Latest(i) = 0 /\ Len(event[i]) = 0 /\ DOMAIN token[i] = {}
  BY <1>1 DEF Latest
<1>3. QED
  BY <1>1, <1>2 DEF TokensAgree

LEMMA TokensAgreeAfterwards ==
  ASSUME OrgTypeOK, InvitationsAgree, [OrgNext]_orgVars
  PROVE  InvitationsAgree'
<1> SUFFICES ASSUME NEW i \in InvitationId
             PROVE  TokensAgree(i)'
  BY DEF InvitationsAgree
<1>1. TokensAgree(i) /\ RowsStep(i)
  BY EveryStepIsARowsStep DEF InvitationsAgree
<1>2. QED
  BY <1>1, KeptAgrees, MadeAgrees, OverdueAgrees, RenewedAgrees, WithdrawnAgrees,
     AnsweredAgrees, MissedAgrees, AgedAgrees DEF RowsStep

-----------------------------------------------------------------------------
(* What every step does to an invitation and to its tokens *)

\* An invitation that was made keeps its address and role and gets no more time once it has
\* none left, and one that is over stays as it is.  Only invite makes one, only an
\* acceptance accepts one, and of a suspended organization an invitation only
\* expires.
Continues(i) ==
  /\ invitation[i].status # "FREE" =>
       /\ invitation'[i].status # "FREE"
       /\ invitation'[i].email = invitation[i].email
       /\ invitation'[i].role = invitation[i].role
       /\ invitation[i].left = 0 => invitation'[i].left = 0
  /\ Ended(i) => invitation'[i].status = invitation[i].status
  /\ invitation'[i].status = "PENDING" =>
       invitation[i].status = "PENDING" \/ Made(i)
  /\ invitation'[i].status = "ACCEPTED" =>
       \/ invitation[i].status = "ACCEPTED"
       \/ \E g \in DOMAIN token[i] : \E m \in MemberId : Accept(i, g, m)
  /\ organization = "SUSPENDED" /\ invitation'[i].status # invitation[i].status
       => invitation'[i].status = "EXPIRED"

LEMMA InvitationsContinue ==
  ASSUME OrgTypeOK, [OrgNext]_orgVars, NEW i \in InvitationId
  PROVE  Continues(i)
<1>1. RowsStep(i)
  BY EveryStepIsARowsStep
<1>2. invitation[i].status # "FREE" => invitation[i] \in InvitationRow
  BY DEF OrgTypeOK, FreeInvitation
<1>3. CASE Kept(i)
  BY <1>3 DEF Kept, Continues
<1>4. CASE Made(i)
  <2>1. PICK m \in MemberId, email \in User, role \in Role : Invite(m, email, role, i)
    BY <1>4 DEF Made
  <2>2. /\ invitation[i].status = "FREE" /\ organization = "ACTIVE"
        /\ invitation'[i].status = "PENDING"
    BY <2>1 DEF Invite, Manages, Acts, OrgTypeOK
  <2>3. QED
    BY <1>4, <2>2 DEF Continues, Ended
<1>5. ASSUME invitation[i].status = "PENDING", NEW status,
             invitation'[i] = [invitation[i] EXCEPT !.status = status],
             status \in {"PENDING", "REJECTED", "REVOKED", "EXPIRED"},
             organization = "SUSPENDED" => status = "EXPIRED"
      PROVE  Continues(i)
  BY <1>2, <1>5 DEF Continues, Ended, InvitationRow
<1>6. CASE Overdue(i) \/ Withdrawn(i) \/ Missed(i)
  BY <1>5, <1>6 DEF Overdue, Withdrawn, Missed, Answers
<1>7. CASE Renewed(i)
  BY <1>2, <1>7, BoundAssumption DEF Renewed, Continues, Ended, InvitationRow
<1>8. CASE Answered(i)
  <2>1. PICK g \in DOMAIN token[i] : /\ Answers(i, g)
                                    /\ \/ Reject(i, g)
                                       \/ \E m \in MemberId : Accept(i, g, m)
    BY <1>8 DEF Answered
  <2>2. organization = "ACTIVE" /\ invitation[i].status = "PENDING"
    BY <1>8, <2>1 DEF Answered, Answers
  <2>3. CASE Reject(i, g)
    BY <1>2, <2>2, <2>3 DEF Reject, Continues, Ended, InvitationRow, OrgTypeOK
  <2>4. ASSUME NEW m \in MemberId, Accept(i, g, m)
        PROVE  Continues(i)
    <3>1. invitation'[i] = [invitation[i] EXCEPT !.status = "ACCEPTED"]
      BY <2>4 DEF Accept, OrgTypeOK
    <3>2. QED
      BY <1>2, <2>2, <2>4, <3>1 DEF Continues, Ended, InvitationRow
  <2>5. QED
    BY <2>1, <2>3, <2>4
<1>9. CASE Aged(i)
  BY <1>2, <1>9 DEF Aged, Continues, Ended, InvitationRow, OneLess
<1>10. QED
  BY <1>1, <1>3, <1>4, <1>6, <1>7, <1>8, <1>9 DEF RowsStep

\* A token never comes back to life nor gets more time, and a token is only
\* superseded by a newer one.
TokensContinue(i) ==
  /\ Latest(i)' >= Latest(i)
  /\ \A g \in DOMAIN token[i] :
       /\ g \in DOMAIN token'[i]
       /\ token[i][g].state # "LIVE" => token'[i][g].state = token[i][g].state
       /\ token'[i][g].left <= token[i][g].left

LEMMA EveryTokenContinues ==
  ASSUME OrgTypeOK, OrgTypeOK', InvitationsAgree, [OrgNext]_orgVars, NEW i \in InvitationId
  PROVE  TokensContinue(i)
<1>1. RowsStep(i) /\ TokensAgree(i)
  BY EveryStepIsARowsStep DEF InvitationsAgree
<1>2. /\ token[i] \in Seq(TokenRow) /\ Latest(i) \in Nat
      /\ DOMAIN token[i] = 1 .. Latest(i)
      /\ \A g \in DOMAIN token[i] : token[i][g] \in TokenRow
      /\ \A g \in DOMAIN token[i] : token[i][g].left \in Nat
  <2>1. \A g \in DOMAIN token[i] : token[i][g] \in TokenRow
    BY RowsAreSequences
  <2>2. \A g \in DOMAIN token[i] : token[i][g].left \in Nat
    BY <2>1, BoundAssumption DEF TokenRow
  <2>3. QED
    BY <2>1, <2>2, RowsAreSequences
<1>3. token'[i] \in Seq(TokenRow) /\ Latest(i)' \in Nat /\ DOMAIN token'[i] = 1 .. Latest(i)'
  <2>1. token'[i] \in Seq(TokenRow)
    BY DEF OrgTypeOK
  <2>2. QED
    BY <2>1, LenProperties DEF Latest
<1>4. ASSUME token'[i] = token[i]
      PROVE  TokensContinue(i)
  BY <1>2, <1>4 DEF TokensContinue, Latest
<1>5. ASSUME NEW G, token'[i] = RevokedTokens(i, G)
      PROVE  TokensContinue(i)
  <2>1. Latest(i)' = Latest(i) /\ DOMAIN token'[i] = DOMAIN token[i]
    BY <1>5, RevokedTokensEffect DEF RevokedTokens, Latest
  <2>2. QED
    BY <1>2, <1>5, <2>1, RevokedTokensEffect DEF TokensContinue
<1>6. CASE Made(i)
  <2>1. Latest(i) = 0
    BY <1>1, <1>6 DEF Made, Invite, TokensAgree
  <2>2. QED
    BY <1>2, <1>3, <2>1 DEF TokensContinue
<1>7. CASE Renewed(i)
  <2> DEFINE revoked == RevokedTokens(i, DOMAIN token[i])
  <2>1. revoked \in Seq(TokenRow) /\ Len(revoked) = Latest(i)
    BY RevokedTokensType, RevokedTokensEffect
  <2>2. /\ Latest(i)' = Latest(i) + 1
        /\ \A g \in 1 .. Latest(i) : token'[i][g] = revoked[g]
    BY <1>7, <2>1, NewRowsType, AppendProperties DEF Renewed, Latest
  <2>3. \A g \in DOMAIN token[i] :
          /\ revoked[g].left = token[i][g].left
          /\ token[i][g].state # "LIVE" => revoked[g].state = token[i][g].state
    BY RevokedTokensEffect
  <2> HIDE DEF revoked
  <2>4. QED
    BY <1>2, <1>3, <2>2, <2>3 DEF TokensContinue
<1>8. CASE Answered(i)
  <2>1. PICK g \in DOMAIN token[i] :
          /\ Answers(i, g)
          /\ token'[i] = [token[i] EXCEPT ![g].state = "CONSUMED"]
    BY <1>8 DEF Answered
  <2>2. /\ \A x \in DOMAIN token[i] \ {g} : token'[i][x] = token[i][x]
        /\ token'[i][g].left = token[i][g].left
        /\ token[i][g].state = "LIVE"
        /\ DOMAIN token'[i] = DOMAIN token[i]
    BY <1>2, <2>1 DEF TokenRow, Answers
  <2>3. Latest(i)' >= Latest(i)
    BY <1>2, <1>3, <2>2
  <2>4. QED
    BY <1>2, <2>2, <2>3 DEF TokensContinue
<1>9. CASE Aged(i)
  <2>1. ASSUME NEW g \in DOMAIN token[i]
        PROVE  /\ g \in DOMAIN token'[i]
               /\ token'[i][g].state = token[i][g].state
               /\ token'[i][g].left <= token[i][g].left
    <3>1. /\ token'[i][g] = [token[i][g] EXCEPT !.left = OneLess(token[i][g].left)]
          /\ g \in DOMAIN token'[i]
      BY <1>9 DEF Aged
    <3>2. OneLess(token[i][g].left) <= token[i][g].left
      BY <1>2 DEF OneLess
    <3>3. QED
      BY <1>2, <3>1, <3>2 DEF TokenRow
  <2>2. Latest(i)' >= Latest(i)
    BY <1>2, <1>3, <2>1
  <2>3. QED
    BY <2>1, <2>2 DEF TokensContinue
<1>10. QED
  BY <1>1, <1>4, <1>5, <1>6, <1>7, <1>8, <1>9
  DEF RowsStep, Kept, Overdue, Withdrawn, Missed

-----------------------------------------------------------------------------
(* Members *)

\* Who joined by an invitation has its address, and the invitation is accepted;
\* and by every accepted invitation somebody has joined.
Joined(m, i) ==
  /\ member[m].status # "FREE"
  /\ member[m].invitation = i
  /\ member[m].user = invitation[i].email

MembersAgree ==
  /\ MembersWereInvited
  /\ \A i \in InvitationId : invitation[i].status = "ACCEPTED" =>
       \E m \in MemberId : Joined(m, i)

\* A membership keeps its person and its invitation for ever, one that is over
\* does not change at all, and new ones come from acceptances.
MemberContinues(m) ==
  /\ member[m].status # "FREE" =>
       /\ member'[m].status # "FREE"
       /\ member'[m].user = member[m].user
       /\ member'[m].invitation = member[m].invitation
  /\ member[m].status \in {"LEFT", "REVOKED"} => member'[m] = member[m]
  /\ organization = "SUSPENDED" => member'[m] = member[m]
  /\ ~IsActiveAdmin(m) /\ IsActiveAdmin(m)' => account[member'[m].user] = "ACTIVE"

LEMMA MembersContinue ==
  ASSUME OrgTypeOK, [OrgNext]_orgVars, NEW x \in MemberId
  PROVE  MemberContinues(x)
<1>1. ASSUME member' = member
      PROVE  MemberContinues(x)
  BY <1>1 DEF MemberContinues, IsActiveAdmin
<1>2. \A m \in MemberId : member[m].status # "FREE" => member[m] \in MemberRow
  BY DEF OrgTypeOK, FreeMember
<1>3. ASSUME NEW m \in MemberId, Leave(m)
      PROVE  MemberContinues(x)
  <2>1. /\ organization = "ACTIVE" /\ member[m].status = "ACTIVE"
        /\ member' = [member EXCEPT ![m].status = "LEFT"]
    BY <1>3 DEF Leave, Acts
  <2>2. QED
    BY <1>2, <2>1 DEF MemberContinues, IsActiveAdmin, MemberRow, OrgTypeOK
<1>4. ASSUME NEW m \in MemberId, NEW target \in MemberId, NEW retain \in BOOLEAN,
             Transfer(m, target, retain)
      PROVE  MemberContinues(x)
  <2>1. /\ organization = "ACTIVE"
        /\ member[m].status = "ACTIVE" /\ member[m].role = "ADMIN"
        /\ member[target].status = "ACTIVE"
        /\ account[member[target].user] = "ACTIVE"
    BY <1>4 DEF Transfer, Manages, Acts
  <2>2. \/ x = target /\ member'[x] = [member[x] EXCEPT !.role = "ADMIN"]
        \/ x = m /\ member'[x] = [member[x] EXCEPT !.role = "PROFESSIONAL_MEMBER"]
        \/ member'[x] = member[x]
    BY <1>4 DEF Transfer
  <2>3. QED
    BY <1>2, <2>1, <2>2 DEF MemberContinues, IsActiveAdmin, MemberRow
<1>5. ASSUME NEW m \in MemberId, NEW target \in MemberId, NEW role \in Role,
             ChangeRole(m, target, role)
      PROVE  MemberContinues(x)
  <2>1. /\ organization = "ACTIVE" /\ member[target].status = "ACTIVE"
        /\ role = "ADMIN" => account[member[target].user] = "ACTIVE"
        /\ member' = [member EXCEPT ![target].role = role]
    BY <1>5 DEF ChangeRole, Commands, Manages, Acts
  <2>2. QED
    BY <1>2, <2>1 DEF MemberContinues, IsActiveAdmin, MemberRow, OrgTypeOK
<1>6. ASSUME NEW m \in MemberId, NEW target \in MemberId, RevokeMember(m, target)
      PROVE  MemberContinues(x)
  <2>1. /\ organization = "ACTIVE" /\ member[target].status = "ACTIVE"
        /\ member' = [member EXCEPT ![target].status = "REVOKED"]
    BY <1>6 DEF RevokeMember, Commands, Manages, Acts
  <2>2. QED
    BY <1>2, <2>1 DEF MemberContinues, IsActiveAdmin, MemberRow, OrgTypeOK
<1>7. ASSUME NEW i \in InvitationId, NEW g \in DOMAIN token[i], NEW m \in MemberId,
             Accept(i, g, m)
      PROVE  MemberContinues(x)
  <2>1. /\ organization = "ACTIVE" /\ member[m].status = "FREE"
        /\ account[invitation[i].email] = "ACTIVE"
        /\ \/ x # m /\ member'[x] = member[x]
           \/ x = m /\ member'[x].user = invitation[i].email
    BY <1>7 DEF Accept, OrgTypeOK
  <2>2. QED
    BY <2>1 DEF MemberContinues, IsActiveAdmin
<1>8. QED
  BY <1>1, <1>3, <1>4, <1>5, <1>6, <1>7
  DEF OrgNext, Command, Answer, Invite, Resend, RevokeInvitation, ExpireByAdmin, Reject,
      ExpireByAnswer, SetAccount, SetOrganization, Tick, orgVars

LEMMA MembersAgreeAfterwards ==
  ASSUME OrgTypeOK, InvitationsAgree, MembershipInv, MembershipInv', MembersAgree,
         [OrgNext]_orgVars
  PROVE  MembersAgree'
<1>1. MembersWereInvited'
  BY DEF MembershipInv
<1>2. ASSUME NEW i \in InvitationId, invitation'[i].status = "ACCEPTED"
      PROVE  \E m \in MemberId : Joined(m, i)'
  <2>1. Continues(i)
    BY InvitationsContinue
  <2>2. CASE invitation[i].status = "ACCEPTED"
    <3>1. PICK m \in MemberId : Joined(m, i)
      BY <2>2 DEF MembersAgree
    <3>2. MemberContinues(m)
      BY MembersContinue
    <3>3. QED
      BY <2>1, <2>2, <3>1, <3>2 DEF Joined, Continues, MemberContinues
  <2>3. ASSUME NEW g \in DOMAIN token[i], NEW m \in MemberId, Accept(i, g, m)
        PROVE  Joined(m, i)'
    <3>1. invitation[i] \in InvitationRow
      BY <2>3 DEF Accept, Answers, OrgTypeOK, FreeInvitation
    <3>2. /\ member'[m] = [status |-> "ACTIVE", user |-> invitation[i].email,
                           role |-> invitation[i].role, invitation |-> i]
          /\ invitation'[i] = [invitation[i] EXCEPT !.status = "ACCEPTED"]
      BY <2>3 DEF Accept, OrgTypeOK
    <3>3. QED
      BY <3>1, <3>2 DEF Joined, InvitationRow
  <2>4. QED
    BY <1>2, <2>1, <2>2, <2>3 DEF Continues
<1>3. QED
  BY <1>1, <1>2 DEF MembersAgree

-----------------------------------------------------------------------------
(* What every step of the commands does to events *)

\* Their attempts are not touched, only those without a lease are dropped, and
\* what is recorded is pending.
EventsContinue(i) ==
  /\ \A g \in DOMAIN event[i] :
       /\ g \in DOMAIN event'[i]
       /\ event'[i][g].attempt = event[i][g].attempt
       /\ \/ event'[i][g].status = event[i][g].status
          \/ /\ event[i][g].status \in {"PENDING", "PROCESSING"}
             /\ ~IsLeased(event[i][g])
             /\ event'[i][g].status = "OBSOLETE"
  /\ \A g \in DOMAIN event'[i] \ DOMAIN event[i] : event'[i][g] = NewEvent

LEMMA EveryEventContinues ==
  ASSUME OrgTypeOK, InvitationsAgree, [OrgNext]_orgVars, NEW i \in InvitationId
  PROVE  EventsContinue(i)
<1>1. RowsStep(i) /\ TokensAgree(i)
  BY EveryStepIsARowsStep DEF InvitationsAgree
<1>2. /\ event[i] \in Seq(EventRow) /\ Len(event[i]) \in Nat
      /\ DOMAIN event[i] = 1 .. Len(event[i])
      /\ \A g \in DOMAIN event[i] : event[i][g] \in EventRow
  BY RowsAreSequences
<1>3. ASSUME event'[i] = event[i]
      PROVE  EventsContinue(i)
  BY <1>3 DEF EventsContinue
<1>4. ASSUME NEW G, event'[i] = ObsoleteEvents(i, G)
      PROVE  EventsContinue(i)
  <2>1. DOMAIN event'[i] = DOMAIN event[i]
    BY <1>4 DEF ObsoleteEvents
  <2>2. QED
    BY <1>4, <2>1, ObsoleteEventsEffect DEF EventsContinue
<1>5. CASE Made(i)
  <2>1. event'[i] = <<NewEvent>>
    BY <1>5 DEF Made, Invite, OrgTypeOK
  <2>2. Len(event[i]) = 0
    BY <1>1, <1>5 DEF Made, Invite, TokensAgree
  <2>3. QED
    BY <1>2, <2>1, <2>2 DEF EventsContinue
<1>6. CASE Renewed(i)
  <2> DEFINE obsolete == ObsoleteEvents(i, DOMAIN token[i])
  <2>1. obsolete \in Seq(EventRow) /\ Len(obsolete) = Len(event[i])
    BY ObsoleteEventsType, ObsoleteEventsEffect
  <2>2. event'[i] = Append(obsolete, NewEvent)
    BY <1>6 DEF Renewed
  <2>3. \A g \in DOMAIN event[i] :
          /\ obsolete[g].attempt = event[i][g].attempt
          /\ \/ obsolete[g].status = event[i][g].status
             \/ /\ event[i][g].status \in {"PENDING", "PROCESSING"}
                /\ ~IsLeased(event[i][g])
                /\ obsolete[g].status = "OBSOLETE"
    BY ObsoleteEventsEffect
  <2> HIDE DEF obsolete
  <2>4. \A g \in 1 .. Len(event[i]) : event'[i][g] = obsolete[g]
    BY <2>1, <2>2, NewRowsType, AppendProperties
  <2>5. event'[i] \in Seq(EventRow) /\ Len(event'[i]) = Len(event[i]) + 1
    BY <2>1, <2>2, NewRowsType, AppendProperties
  <2>6. event'[i][Len(event[i]) + 1] = NewEvent
    BY <2>1, <2>2, NewRowsType, AppendProperties
  <2>7. DOMAIN event'[i] = 1 .. Len(event[i]) + 1
    BY <2>5, LenProperties
  <2>8. QED
    BY <1>2, <2>3, <2>4, <2>6, <2>7 DEF EventsContinue
<1>7. CASE Aged(i)
  <2>1. ASSUME NEW g \in DOMAIN event[i]
        PROVE  /\ event'[i][g].attempt = event[i][g].attempt
               /\ event'[i][g].status = event[i][g].status
    <3>1. event'[i][g] = [event[i][g] EXCEPT !.lease = OneLess(event[i][g].lease),
                                             !.wait = OneLess(event[i][g].wait)]
      BY <1>7 DEF Aged
    <3>2. QED
      BY <1>2, <3>1 DEF EventRow
  <2>2. DOMAIN event'[i] = DOMAIN event[i]
    BY <1>7 DEF Aged
  <2>3. QED
    BY <2>1, <2>2 DEF EventsContinue
<1>8. QED
  BY <1>1, <1>3, <1>4, <1>5, <1>6, <1>7
  DEF RowsStep, Kept, Overdue, Withdrawn, Missed, Answered

-----------------------------------------------------------------------------
(* Events, as long as only the commands close them *)

DroppedAgree ==
  \A i \in InvitationId : \A g \in DOMAIN event[i] :
    event[i][g].status = "OBSOLETE" => token[i][g].state = "REVOKED"

LEMMA DroppedAgreeAfterwards ==
  ASSUME OrgTypeOK, OrgTypeOK', InvitationsAgree, DroppedAgree, [OrgNext]_orgVars
  PROVE  DroppedAgree'
<1> SUFFICES ASSUME NEW i \in InvitationId, NEW g \in DOMAIN event'[i],
                    event'[i][g].status = "OBSOLETE"
             PROVE  token'[i][g].state = "REVOKED"
  BY DEF DroppedAgree
<1>1. RowsStep(i) /\ TokensAgree(i) /\ TokensContinue(i)
  BY EveryStepIsARowsStep, EveryTokenContinues DEF InvitationsAgree
<1>2. /\ DOMAIN token[i] = 1 .. Latest(i) /\ Latest(i) \in Nat
      /\ event[i] \in Seq(EventRow) /\ DOMAIN event[i] = 1 .. Len(event[i])
      /\ DOMAIN event[i] = DOMAIN token[i]
      /\ \A x \in DOMAIN event[i] : event[i][x] \in EventRow
  BY <1>1, RowsAreSequences DEF TokensAgree
<1>3. ASSUME g \in DOMAIN event[i], event[i][g].status = "OBSOLETE"
      PROVE  token'[i][g].state = "REVOKED"
  BY <1>1, <1>2, <1>3 DEF DroppedAgree, TokensContinue
<1>4. ASSUME event'[i] = event[i]
      PROVE  token'[i][g].state = "REVOKED"
  BY <1>3, <1>4
<1>5. ASSUME invitation[i].status = "PENDING", NEW G,
             g \in DOMAIN event[i], ObsoleteEvents(i, G)[g].status = "OBSOLETE"
      PROVE  RevokedTokens(i, G)[g].state = "REVOKED"
  <2>1. CASE event[i][g].status = "OBSOLETE"
    <3>1. token[i][g].state = "REVOKED"
      BY <1>5, <2>1 DEF DroppedAgree
    <3>2. QED
      BY <1>2, <1>5, <3>1, RevokedTokensEffect
  <2>2. CASE event[i][g].status # "OBSOLETE"
    <3>1. g \in G
      BY <1>5, <2>2, ObsoleteEventsEffect
    <3>2. token[i][g].state \in {"LIVE", "REVOKED"}
      BY <1>1, <1>2, <1>5, OnlyLatestLives
    <3>3. QED
      BY <1>2, <1>5, <3>1, <3>2, RevokedTokensEffect
  <2>3. QED
    BY <2>1, <2>2
<1>6. CASE Made(i)
  <2>1. event'[i] = <<NewEvent>>
    BY <1>6 DEF Made, Invite, OrgTypeOK
  <2>2. QED
    BY <2>1 DEF NewEvent
<1>7. CASE Renewed(i)
  <2> DEFINE revoked == RevokedTokens(i, DOMAIN token[i])
             obsolete == ObsoleteEvents(i, DOMAIN token[i])
  <2>1. /\ revoked \in Seq(TokenRow) /\ Len(revoked) = Latest(i)
        /\ obsolete \in Seq(EventRow) /\ Len(obsolete) = Len(event[i])
    BY RevokedTokensType, RevokedTokensEffect, ObsoleteEventsType, ObsoleteEventsEffect
  <2>2. /\ token'[i] = Append(revoked, NewToken)
        /\ event'[i] = Append(obsolete, NewEvent)
        /\ invitation[i].status = "PENDING"
    BY <1>7 DEF Renewed
  <2>3. ASSUME g \in DOMAIN event[i], obsolete[g].status = "OBSOLETE"
        PROVE  revoked[g].state = "REVOKED"
    BY <1>5, <2>2, <2>3
  <2> HIDE DEF revoked, obsolete
  <2>4. /\ \A x \in 1 .. Latest(i) : token'[i][x] = revoked[x]
        /\ \A x \in 1 .. Len(event[i]) : event'[i][x] = obsolete[x]
        /\ event'[i][Len(event[i]) + 1] = NewEvent
        /\ DOMAIN event'[i] = 1 .. Len(event[i]) + 1
    <3>1. \A x \in 1 .. Latest(i) : token'[i][x] = revoked[x]
      BY <2>1, <2>2, NewRowsType, AppendProperties
    <3>2. \A x \in 1 .. Len(event[i]) : event'[i][x] = obsolete[x]
      BY <2>1, <2>2, NewRowsType, AppendProperties
    <3>3. event'[i] \in Seq(EventRow) /\ Len(event'[i]) = Len(event[i]) + 1
      BY <2>1, <2>2, NewRowsType, AppendProperties
    <3>4. event'[i][Len(event[i]) + 1] = NewEvent
      BY <2>1, <2>2, NewRowsType, AppendProperties
    <3>5. QED
      BY <3>1, <3>2, <3>3, <3>4, LenProperties
  <2>5. NewEvent.status # "OBSOLETE"
    BY DEF NewEvent
  <2>6. Len(event[i]) = Latest(i)
    BY <1>1 DEF TokensAgree
  <2>7. g \in DOMAIN event[i]
    BY <1>2, <2>4, <2>5, <2>6
  <2>8. QED
    BY <1>2, <2>3, <2>4, <2>6, <2>7
<1>8. CASE Withdrawn(i)
  <2>1. DOMAIN event'[i] = DOMAIN event[i]
    BY <1>8 DEF Withdrawn, ObsoleteEvents
  <2>2. QED
    BY <1>5, <1>8, <2>1 DEF Withdrawn
<1>9. CASE Missed(i)
  <2>1. PICK x \in DOMAIN token[i] : /\ Answers(i, x)
                                    /\ token'[i] = RevokedTokens(i, {x})
                                    /\ event'[i] = ObsoleteEvents(i, {x})
    BY <1>9 DEF Missed
  <2>2. DOMAIN event'[i] = DOMAIN event[i] /\ invitation[i].status = "PENDING"
    BY <2>1 DEF ObsoleteEvents, Answers
  <2>3. QED
    BY <1>5, <2>1, <2>2
<1>10. CASE Aged(i)
  <2>1. /\ DOMAIN event'[i] = DOMAIN event[i]
        /\ event'[i][g] = [event[i][g] EXCEPT !.lease = OneLess(event[i][g].lease),
                                              !.wait = OneLess(event[i][g].wait)]
    BY <1>10 DEF Aged
  <2>2. event[i][g].status = "OBSOLETE"
    BY <1>2, <2>1 DEF EventRow
  <2>3. QED
    BY <1>3, <2>1, <2>2
<1>11. QED
  BY <1>1, <1>4, <1>6, <1>7, <1>8, <1>9, <1>10 DEF RowsStep, Kept, Overdue, Answered

-----------------------------------------------------------------------------
(* Theorems *)

\* The invariant holds in every state of the organization.
LEMMA InvitationsAlwaysAgree == OrgSpec => []InvitationsAgree
BY TokensAgreeInitially, TokensAgreeAfterwards, OrgTypeCorrectness, PTL DEF OrgSpec

\* Invitations, tokens, events and members agree, whatever administrators do and
\* whoever answers with which token.
THEOREM AnswersAlwaysAgree == OrgSpec => []AnswersAgree
<1> DEFINE Inv == MembersAgree /\ DroppedAgree
<1>1. OrgInit => Inv
  <2> SUFFICES ASSUME OrgInit
               PROVE  Inv
    OBVIOUS
  <2>1. DroppedAgree
    BY DEF OrgInit, DroppedAgree
  <2>2. MembersAgree
    BY DEF OrgInit, MembersAgree, MembersWereInvited, FreeMember, FreeInvitation, NoInvitation
  <2>3. QED
    BY <2>1, <2>2
<1>2. OrgTypeOK /\ OrgTypeOK' /\ InvitationsAgree /\ MembershipInv /\ MembershipInv'
        /\ Inv /\ [OrgNext]_orgVars => Inv'
  BY MembersAgreeAfterwards, DroppedAgreeAfterwards
<1>3. OrgTypeOK /\ InvitationsAgree /\ Inv => AnswersAgree
  <2> SUFFICES ASSUME OrgTypeOK, InvitationsAgree, Inv,
                      NEW i \in InvitationId, invitation[i].status # "FREE"
               PROVE  /\ invitation[i].status = "ACCEPTED" <=>
                           \E m \in MemberId : Joined(m, i)
                      /\ invitation[i].status \in {"ACCEPTED", "REJECTED"} <=>
                           \E g \in DOMAIN token[i] : token[i][g].state = "CONSUMED"
                      /\ \A g \in DOMAIN token[i] : token[i][g].state # "REVOKED" => g = Latest(i)
                      /\ \A g \in DOMAIN event[i] :
                           event[i][g].status = "OBSOLETE" => token[i][g].state = "REVOKED"
    BY DEF AnswersAgree, Joined
  <2>1. /\ TokensAgree(i)
        /\ Latest(i) \in DOMAIN token[i]
        /\ invitation[i] \in InvitationRow
    BY RowsAreSequences DEF InvitationsAgree, TokensAgree, OrgTypeOK, FreeInvitation
  <2>2. ASSUME NEW m \in MemberId, Joined(m, i)
        PROVE  invitation[i].status = "ACCEPTED"
    BY <2>2, NoInvitationAssumption DEF Joined, MembersAgree, MembersWereInvited
  <2>3. invitation[i].status = "ACCEPTED" => \E m \in MemberId : Joined(m, i)
    BY DEF MembersAgree
  <2>4. ASSUME NEW g \in DOMAIN token[i], token[i][g].state = "CONSUMED"
        PROVE  invitation[i].status \in {"ACCEPTED", "REJECTED"}
    <3>1. g = Latest(i)
      BY <2>1, <2>4 DEF TokensAgree
    <3>2. QED
      BY <2>1, <2>4, <3>1 DEF TokensAgree, InvitationRow
  <2>5. invitation[i].status \in {"ACCEPTED", "REJECTED"} =>
          \E g \in DOMAIN token[i] : token[i][g].state = "CONSUMED"
    BY <2>1 DEF TokensAgree
  <2>6. QED
    BY <2>1, <2>2, <2>3, <2>4, <2>5 DEF TokensAgree, DroppedAgree
<1>4. OrgSpec => []MembershipInv
  BY MembershipInvariant
<1>5. QED
  BY <1>1, <1>2, <1>3, <1>4, InvitationsAlwaysAgree, OrgTypeCorrectness, PTL DEF OrgSpec

\* A pending invitation can be answered until its time is over, and nothing else
\* can: resend extends both times, and whatever ends an invitation ends its token.
THEOREM PendingAreAnswerable == OrgSpec => []PendingCanBeAnswered
<1>1. OrgTypeOK /\ InvitationsAgree => PendingCanBeAnswered
  <2> SUFFICES ASSUME OrgTypeOK, InvitationsAgree, NEW i \in InvitationId
               PROVE  /\ invitation[i].status = "PENDING" =>
                           /\ token[i][Latest(i)].state = "LIVE"
                           /\ token[i][Latest(i)].left = invitation[i].left
                      /\ \A g \in DOMAIN token[i] :
                           token[i][g].state = "LIVE" /\ token[i][g].left > 0
                             => invitation[i].status = "PENDING"
    BY DEF PendingCanBeAnswered
  <2>1. /\ TokensAgree(i)
        /\ DOMAIN token[i] = 1 .. Latest(i)
    BY RowsAreSequences DEF InvitationsAgree
  <2>2. ASSUME NEW g \in DOMAIN token[i], token[i][g].state = "LIVE", token[i][g].left > 0
        PROVE  invitation[i].status = "PENDING"
    <3>1. g = Latest(i) /\ invitation[i].status # "FREE"
      BY <2>1, <2>2 DEF TokensAgree
    <3>2. invitation[i] \in InvitationRow
      BY <3>1 DEF OrgTypeOK, FreeInvitation
    <3>3. QED
      BY <2>1, <2>2, <3>1, <3>2 DEF TokensAgree, InvitationRow
  <2>3. QED
    BY <2>1, <2>2 DEF TokensAgree
<1>2. QED
  BY <1>1, InvitationsAlwaysAgree, OrgTypeCorrectness, PTL

LEMMA PendingInitially == OrgInit => OnePendingInvitation
BY DEF OrgInit, OnePendingInvitation, PendingFor, FreeInvitation

LEMMA PendingStaysUnique ==
  OrgTypeOK /\ OnePendingInvitation /\ [OrgNext]_orgVars => OnePendingInvitation'
<1> SUFFICES ASSUME OrgTypeOK, OnePendingInvitation, [OrgNext]_orgVars,
                    NEW x \in InvitationId, NEW y \in InvitationId,
                    invitation'[x].status = "PENDING", invitation'[y].status = "PENDING",
                    invitation'[x].email = invitation'[y].email
             PROVE  x = y
  BY DEF OnePendingInvitation, PendingFor
<1>1. ASSUME NEW i \in InvitationId, Made(i), NEW z \in InvitationId,
             invitation'[z].status = "PENDING",
             invitation'[z].email = invitation'[i].email
      PROVE  z = i
  <2>1. PICK m \in MemberId, email \in User, role \in Role : Invite(m, email, role, i)
    BY <1>1 DEF Made
  <2>2. invitation'[i].email = email
    BY <2>1 DEF Invite
  <2>3. SUFFICES ASSUME z # i
                 PROVE  FALSE
    OBVIOUS
  <2>4. CASE z \in PendingFor(email)
    <3>1. invitation[z] \in InvitationRow
      BY <2>4 DEF PendingFor, OrgTypeOK, FreeInvitation
    <3>2. invitation'[z] = [invitation[z] EXCEPT !.status = "EXPIRED"]
      BY <2>1, <2>3, <2>4 DEF Invite
    <3>3. QED
      BY <1>1, <3>1, <3>2 DEF InvitationRow
  <2>5. CASE z \notin PendingFor(email)
    <3>1. invitation'[z] = invitation[z]
      BY <2>1, <2>3, <2>5 DEF Invite
    <3>2. QED
      BY <1>1, <2>2, <2>5, <3>1 DEF PendingFor
  <2>6. QED
    BY <2>4, <2>5
<1>2. Continues(x) /\ Continues(y)
  BY InvitationsContinue
<1>3. CASE Made(x) \/ Made(y)
  BY <1>1, <1>3
<1>4. CASE ~Made(x) /\ ~Made(y)
  <2>1. /\ invitation[x].status = "PENDING" /\ invitation'[x].email = invitation[x].email
        /\ invitation[y].status = "PENDING" /\ invitation'[y].email = invitation[y].email
    BY <1>2, <1>4 DEF Continues
  <2>2. invitation[x].email \in User
    BY <2>1 DEF OrgTypeOK, FreeInvitation, InvitationRow
  <2>3. QED
    BY <2>1, <2>2 DEF OnePendingInvitation, PendingFor
<1>5. QED
  BY <1>3, <1>4

\* No address has two pending invitations: invite ends the overdue ones, and
\* nothing else makes one pending.
THEOREM PendingIsUnique == OrgSpec => []OnePendingInvitation
BY PendingInitially, PendingStaysUnique, OrgTypeCorrectness, PTL DEF OrgSpec

\* Memberships, invitations and tokens that have ended never come back.
THEOREM TheEndedStayEnded == OrgSpec => EndedStaysEnded
<1>1. OrgTypeOK /\ OrgTypeOK' /\ InvitationsAgree /\ [OrgNext]_orgVars =>
        [/\ \A m \in MemberId : member[m].status \in {"LEFT", "REVOKED"} => member'[m] = member[m]
         /\ \A i \in InvitationId :
              /\ Ended(i) => invitation'[i].status = invitation[i].status
              /\ \A g \in DOMAIN token[i] :
                   token[i][g].state # "LIVE" => token'[i][g].state = token[i][g].state]_orgVars
  BY MembersContinue, InvitationsContinue, EveryTokenContinues
  DEF MemberContinues, Continues, TokensContinue
<1>2. QED
  BY <1>1, InvitationsAlwaysAgree, OrgTypeCorrectness, PTL DEF OrgSpec, EndedStaysEnded

\* Nobody joins but by a pending invitation of the own address and role.
THEOREM JoiningIsAlwaysInvited == OrgSpec => JoiningIsInvited
<1>1. OrgTypeOK /\ [OrgNext]_orgVars =>
        [\A m \in MemberId : Joins(m) =>
           /\ organization = "ACTIVE"
           /\ account[member'[m].user] = "ACTIVE"
           /\ \E i \in InvitationId :
                /\ invitation[i].status = "PENDING" /\ invitation[i].left > 0
                /\ invitation[i].email = member'[m].user
                /\ invitation[i].role = member'[m].role]_orgVars
  <2> SUFFICES ASSUME OrgTypeOK, [OrgNext]_orgVars, NEW m \in MemberId, Joins(m)
               PROVE  /\ organization = "ACTIVE"
                      /\ account[member'[m].user] = "ACTIVE"
                      /\ \E i \in InvitationId :
                           /\ invitation[i].status = "PENDING" /\ invitation[i].left > 0
                           /\ invitation[i].email = member'[m].user
                           /\ invitation[i].role = member'[m].role
    OBVIOUS
  <2>1. CASE NobodyJoins
    BY <2>1 DEF NobodyJoins, Joins
  <2>2. ASSUME NEW i \in InvitationId, NEW g \in DOMAIN token[i], NEW x \in MemberId,
               Accept(i, g, x)
        PROVE  /\ organization = "ACTIVE"
               /\ account[member'[m].user] = "ACTIVE"
               /\ invitation[i].status = "PENDING" /\ invitation[i].left > 0
               /\ invitation[i].email = member'[m].user
               /\ invitation[i].role = member'[m].role
    <3>1. x = m
      BY <2>2 DEF Accept, Joins, OrgTypeOK
    <3>2. member'[m] = [status |-> "ACTIVE", user |-> invitation[i].email,
                        role |-> invitation[i].role, invitation |-> i]
      BY <2>2, <3>1 DEF Accept, OrgTypeOK
    <3>3. QED
      BY <2>2, <3>2 DEF Accept, Answers, InTime
  <2>3. QED
    BY <2>1, <2>2, OnlyAcceptJoins
<1>2. QED
  BY <1>1, OrgTypeCorrectness, PTL DEF OrgSpec, JoiningIsInvited

\* A suspension of the organization freezes its members and lets invitations only
\* expire; nobody makes a suspended user an administrator.
THEOREM SuspensionAlwaysFreezes == OrgSpec => SuspensionFreezes
<1>1. OrgTypeOK /\ [OrgNext]_orgVars =>
        [/\ organization = "SUSPENDED" =>
              /\ member' = member
              /\ \A i \in InvitationId : invitation'[i].status # invitation[i].status
                   => invitation'[i].status = "EXPIRED"
         /\ \A m \in MemberId : ~IsActiveAdmin(m) /\ IsActiveAdmin(m)'
              => account[member'[m].user] = "ACTIVE"]_orgVars
  <2> SUFFICES ASSUME OrgTypeOK, OrgTypeOK', [OrgNext]_orgVars
               PROVE  /\ organization = "SUSPENDED" =>
                           /\ member' = member
                           /\ \A i \in InvitationId :
                                invitation'[i].status # invitation[i].status
                                  => invitation'[i].status = "EXPIRED"
                      /\ \A m \in MemberId : ~IsActiveAdmin(m) /\ IsActiveAdmin(m)'
                           => account[member'[m].user] = "ACTIVE"
    BY OrgTypesKept
  <2>1. ASSUME organization = "SUSPENDED"
        PROVE  member' = member
    <3>1. \A m \in MemberId : member'[m] = member[m]
      BY <2>1, MembersContinue DEF MemberContinues
    <3>2. member \in [MemberId -> MemberRow \cup {FreeMember}]
          /\ member' \in [MemberId -> MemberRow \cup {FreeMember}]
      BY DEF OrgTypeOK
    <3>3. QED
      BY <3>1, <3>2
  <2>2. QED
    BY <2>1, InvitationsContinue, MembersContinue DEF Continues, MemberContinues
<1>2. QED
  BY <1>1, OrgTypeCorrectness, PTL DEF OrgSpec, SuspensionFreezes

-----------------------------------------------------------------------------
(* The refinement of Membership *)

\* Invitations lapse, unless one is made.
LEMMA InvitationsLapse ==
  ASSUME OrgTypeOK, OrgTypeOK', [OrgNext]_orgVars, \A i \in InvitationId : ~Made(i)
  PROVE  Invited' \subseteq Invited
<1> SUFFICES ASSUME NEW i \in InvitationId, Stands(i)'
             PROVE  <<invitation'[i].email, invitation'[i].role>> \in Invited
  BY DEF Invited
<1>1. Continues(i)
  BY InvitationsContinue
<1>2. invitation[i].status = "PENDING" /\ invitation[i] \in InvitationRow
  BY <1>1 DEF Continues, Stands, OrgTypeOK, FreeInvitation
<1>3. invitation'[i] \in InvitationRow
  BY DEF Stands, OrgTypeOK, FreeInvitation
<1>4. invitation[i].left > 0
  BY <1>1, <1>2, <1>3 DEF Continues, Stands, InvitationRow
<1>5. QED
  BY <1>1, <1>2, <1>4 DEF Continues, Stands, Invited

LEMMA InviteRefines ==
  ASSUME OrgTypeOK, NEW m \in MemberId, NEW email \in User, NEW role \in Role,
         NEW i \in InvitationId, Invite(m, email, role, i)
  PROVE  /\ \A r \in Role : <<email, r>> \notin Invited
         /\ Invited' = Invited \cup {<<email, role>>}
<1>1. /\ \A x \in PendingFor(email) : invitation[x].left = 0
      /\ invitation[i].status = "FREE"
      /\ invitation' = [x \in InvitationId |->
                          IF x = i THEN [status |-> "PENDING", email |-> email, role |-> role,
                                         left |-> InvitationTtl]
                          ELSE IF x \in PendingFor(email)
                            THEN [invitation[x] EXCEPT !.status = "EXPIRED"]
                            ELSE invitation[x]]
  BY DEF Invite
<1>2. \A r \in Role : <<email, r>> \notin Invited
  BY <1>1 DEF Invited, Stands, PendingFor
<1>3. Stands(i)' /\ <<invitation'[i].email, invitation'[i].role>> = <<email, role>>
  BY <1>1, BoundAssumption DEF Stands
<1>4. ASSUME NEW x \in InvitationId, x # i, Stands(x) \/ Stands(x)'
      PROVE  invitation'[x] = invitation[x]
  <2>1. invitation[x].status # "FREE"
    BY <1>1, <1>4 DEF Stands, PendingFor
  <2>2. invitation[x] \in InvitationRow
    BY <2>1 DEF OrgTypeOK, FreeInvitation
  <2>3. x \notin PendingFor(email)
    <3>1. SUFFICES ASSUME x \in PendingFor(email)
                   PROVE  FALSE
      OBVIOUS
    <3>2. invitation[x].left = 0 /\ invitation'[x] = [invitation[x] EXCEPT !.status = "EXPIRED"]
      BY <1>1, <1>4, <3>1
    <3>3. QED
      BY <1>4, <2>2, <3>2 DEF Stands, InvitationRow
  <2>4. QED
    BY <1>1, <1>4, <2>3
<1>5. ~Stands(i)
  BY <1>1 DEF Stands
<1>6. \A x \in InvitationId : x # i => (Stands(x) <=> Stands(x)')
  BY <1>4 DEF Stands
<1>7. QED
  BY <1>2, <1>3, <1>4, <1>5, <1>6 DEF Invited

LEMMA AcceptRefines ==
  ASSUME OrgTypeOK, OneActiveMembership, OnePendingInvitation,
         NEW i \in InvitationId, NEW g \in DOMAIN token[i], NEW m \in MemberId, Accept(i, g, m)
  PROVE  OrgAbstract!Join(invitation[i].email, invitation[i].role)
<1> DEFINE u == invitation[i].email
           r == invitation[i].role
<1>1. /\ Stands(i) /\ organization = "ACTIVE" /\ account[u] = "ACTIVE"
      /\ u \notin Members
      /\ member[m].status = "FREE"
      /\ UNCHANGED <<account, organization>>
  BY DEF Accept, Answers, InTime, Stands, Members
<1>2. invitation[i] \in InvitationRow /\ u \in User /\ r \in Role
  BY <1>1 DEF Stands, OrgTypeOK, FreeInvitation, InvitationRow
<1>3. /\ member'[m] = [status |-> "ACTIVE", user |-> u, role |-> r, invitation |-> i]
      /\ \A x \in MemberId \ {m} : member'[x] = member[x]
  BY DEF Accept, OrgTypeOK
<1>4. /\ ~Stands(i)'
      /\ \A x \in InvitationId \ {i} : invitation'[x] = invitation[x]
  BY <1>2 DEF Accept, Stands, OrgTypeOK, InvitationRow
<1>5. <<u, r>> \in Invited
  BY <1>1 DEF Invited
<1>6. Invited' = Invited \ {<<u, r>>}
  <2>1. ASSUME NEW x \in InvitationId, Stands(x), x # i
        PROVE  invitation[x].email # u
    BY <1>1, <1>2, <2>1 DEF Stands, OnePendingInvitation, PendingFor
  <2>2. \A x \in InvitationId : Stands(x)' <=> x # i /\ Stands(x)
    BY <1>4 DEF Stands
  <2>3. QED
    BY <1>1, <1>4, <2>1, <2>2 DEF Invited
<1>7. Members' = Members \cup {u}
  BY <1>1, <1>3 DEF Members
<1>8. Admins' = IF r = "ADMIN" THEN Admins \cup {u} ELSE Admins
  <2>1. \A x \in MemberId \ {m} : IsActiveAdmin(x)' <=> IsActiveAdmin(x)
    BY <1>3 DEF IsActiveAdmin
  <2>2. /\ ~IsActiveAdmin(m)
        /\ IsActiveAdmin(m)' <=> r = "ADMIN"
    BY <1>1, <1>3 DEF IsActiveAdmin
  <2>3. CASE r = "ADMIN"
    BY <1>3, <2>1, <2>2, <2>3 DEF Admins
  <2>4. CASE r # "ADMIN"
    BY <1>3, <2>1, <2>2, <2>4 DEF Admins
  <2>5. QED
    BY <2>3, <2>4
<1>9. People' = People /\ u \in People
  BY <1>1, <1>2 DEF People
<1>10. QED
  BY <1>1, <1>5, <1>6, <1>7, <1>8, <1>9 DEF OrgAbstract!Join

\* A person is an active member by one row only.
LEMMA OneRowEach ==
  ASSUME OrgTypeOK, OneActiveMembership, NEW m \in MemberId, member[m].status = "ACTIVE"
  PROVE  /\ member[m] \in MemberRow
         /\ member[m].user \in Members
         /\ member[m].user \in Admins <=> member[m].role = "ADMIN"
         /\ \A x \in MemberId : member[x].status = "ACTIVE" /\ member[x].user = member[m].user => x = m
<1>1. member[m] \in MemberRow
  BY DEF OrgTypeOK, FreeMember
<1>2. \A x \in MemberId : member[x].status = "ACTIVE" /\ member[x].user = member[m].user => x = m
  BY DEF OneActiveMembership
<1>3. QED
  BY <1>1, <1>2 DEF Members, Admins, IsActiveAdmin

\* What becomes of members and administrators when one row changes.
LEMMA MemberGoes ==
  ASSUME OrgTypeOK, OneActiveMembership, NEW m \in MemberId, member[m].status = "ACTIVE",
         NEW status \in {"LEFT", "REVOKED"}, member' = [member EXCEPT ![m].status = status]
  PROVE  /\ Members' = Members \ {member[m].user}
         /\ Admins' = Admins \ {member[m].user}
<1>1. /\ member[m] \in MemberRow
      /\ \A x \in MemberId : member[x].status = "ACTIVE" /\ member[x].user = member[m].user => x = m
  BY OneRowEach
<1>2. /\ member'[m].status # "ACTIVE"
      /\ \A x \in MemberId \ {m} : member'[x] = member[x]
  BY <1>1 DEF OrgTypeOK, MemberRow
<1>3. Members' = Members \ {member[m].user}
  BY <1>1, <1>2 DEF Members
<1>4. Admins' = Admins \ {member[m].user}
  BY <1>1, <1>2 DEF Admins, IsActiveAdmin
<1>5. QED
  BY <1>3, <1>4

LEMMA RolesChange ==
  ASSUME OrgTypeOK, OneActiveMembership, NEW m \in MemberId, member[m].status = "ACTIVE",
         NEW role \in Role, member'[m] = [member[m] EXCEPT !.role = role],
         \A x \in MemberId \ {m} : member'[x] = member[x]
  PROVE  /\ Members' = Members
         /\ Admins' = IF role = "ADMIN" THEN Admins \cup {member[m].user}
                                        ELSE Admins \ {member[m].user}
<1>1. /\ member[m] \in MemberRow
      /\ \A x \in MemberId : member[x].status = "ACTIVE" /\ member[x].user = member[m].user => x = m
  BY OneRowEach
<1>2. /\ member'[m].status = "ACTIVE" /\ member'[m].role = role
      /\ \A x \in MemberId : member'[x].user = member[x].user /\ member'[x].status = member[x].status
  BY <1>1 DEF MemberRow
<1>3. Members' = Members
  BY <1>2 DEF Members
<1>4. Admins' = IF role = "ADMIN" THEN Admins \cup {member[m].user}
                                ELSE Admins \ {member[m].user}
  <2>1. \A x \in MemberId \ {m} : IsActiveAdmin(x)' <=> IsActiveAdmin(x)
    BY DEF IsActiveAdmin
  <2>2. IsActiveAdmin(m)' <=> role = "ADMIN"
    BY <1>2 DEF IsActiveAdmin
  <2>3. \A x \in MemberId : IsActiveAdmin(x) /\ x # m => member[x].user # member[m].user
    BY <1>1 DEF IsActiveAdmin
  <2>4. CASE role = "ADMIN"
    BY <1>2, <2>1, <2>2, <2>3, <2>4 DEF Admins
  <2>5. CASE role # "ADMIN"
    BY <1>2, <2>1, <2>2, <2>3, <2>5 DEF Admins
  <2>6. QED
    BY <2>4, <2>5
<1>5. QED
  BY <1>3, <1>4

\* Who manages the organization administers it.
LEMMA ManagersAdminister ==
  ASSUME OrgTypeOK, OneActiveMembership, NEW m \in MemberId, Manages(m)
  PROVE  /\ OrgAbstract!Administers(member[m].user)
         /\ member[m].user \in Admins
         /\ \A x \in MemberId \ {m} : member[x].status = "ACTIVE" => member[x].user # member[m].user
<1>1. member[m].status = "ACTIVE" /\ account[member[m].user] = "ACTIVE"
      /\ organization = "ACTIVE" /\ member[m].role = "ADMIN"
  BY DEF Manages, Acts
<1>2. /\ member[m] \in MemberRow
      /\ member[m].user \in Admins
      /\ \A x \in MemberId : member[x].status = "ACTIVE" /\ member[x].user = member[m].user => x = m
  BY <1>1, OneRowEach
<1>3. member[m].user \in People
  BY <1>1, <1>2 DEF People, MemberRow
<1>4. QED
  BY <1>1, <1>2, <1>3 DEF OrgAbstract!Administers

LEMMA LeaveRefines ==
  ASSUME OrgTypeOK, OneActiveMembership, NEW m \in MemberId, Leave(m)
  PROVE  OrgAbstract!Leave(member[m].user)
<1>1. /\ member[m].status = "ACTIVE" /\ account[member[m].user] = "ACTIVE"
      /\ organization = "ACTIVE"
      /\ member' = [member EXCEPT ![m].status = "LEFT"]
      /\ UNCHANGED <<account, organization, invitation>>
  BY DEF Leave, Acts
<1>2. /\ member[m] \in MemberRow
      /\ member[m].user \in Members
      /\ \A x \in MemberId : member[x].status = "ACTIVE" /\ member[x].user = member[m].user => x = m
  BY <1>1, OneRowEach
<1>3. member[m].user \in People
  BY <1>1, <1>2 DEF People, MemberRow
<1>4. Admins # {member[m].user}
  <2>1. PICK a \in MemberId \ {m} : IsActiveAdmin(a)
    BY DEF Leave, AnotherAdmin
  <2>2. member[a].user \in Admins /\ member[a].user # member[m].user
    BY <1>2, <2>1 DEF Admins, IsActiveAdmin
  <2>3. QED
    BY <2>2
<1>5. /\ Members' = Members \ {member[m].user}
      /\ Admins' = Admins \ {member[m].user}
  BY <1>1, MemberGoes
<1>6. People' = People /\ Invited' = Invited
  BY <1>1 DEF People, Invited, Stands
<1>7. QED
  BY <1>1, <1>2, <1>3, <1>4, <1>5, <1>6 DEF OrgAbstract!Leave

LEMMA RevokeMemberRefines ==
  ASSUME OrgTypeOK, OneActiveMembership, NEW m \in MemberId, NEW target \in MemberId,
         RevokeMember(m, target)
  PROVE  OrgAbstract!Dismiss(member[m].user, member[target].user)
<1>1. /\ Manages(m) /\ target # m /\ member[target].status = "ACTIVE"
      /\ member' = [member EXCEPT ![target].status = "REVOKED"]
      /\ UNCHANGED <<account, organization, invitation>>
  BY DEF RevokeMember, Commands
<1>2. /\ OrgAbstract!Administers(member[m].user)
      /\ member[target].user # member[m].user
  BY <1>1, ManagersAdminister
<1>3. member[target].user \in Members
  BY <1>1, OneRowEach
<1>4. /\ Members' = Members \ {member[target].user}
      /\ Admins' = Admins \ {member[target].user}
  BY <1>1, MemberGoes
<1>5. People' = People /\ Invited' = Invited
  BY <1>1 DEF People, Invited, Stands
<1>6. QED
  BY <1>1, <1>2, <1>3, <1>4, <1>5 DEF OrgAbstract!Dismiss

LEMMA ChangeRoleRefines ==
  ASSUME OrgTypeOK, OneActiveMembership, NEW m \in MemberId, NEW target \in MemberId,
         NEW role \in Role, ChangeRole(m, target, role)
  PROVE  \/ OrgAbstract!Appoint(member[m].user, member[target].user)
         \/ OrgAbstract!Demote(member[m].user, member[target].user)
<1>1. /\ Manages(m) /\ target # m /\ member[target].status = "ACTIVE"
      /\ member[target].role # role
      /\ role = "ADMIN" => account[member[target].user] = "ACTIVE"
      /\ member' = [member EXCEPT ![target].role = role]
      /\ UNCHANGED <<account, organization, invitation>>
  BY DEF ChangeRole, Commands
<1>2. /\ OrgAbstract!Administers(member[m].user)
      /\ member[target].user # member[m].user
  BY <1>1, ManagersAdminister
<1>3. /\ member[target] \in MemberRow
      /\ member[target].user \in Members
      /\ member[target].user \in Admins <=> member[target].role = "ADMIN"
  BY <1>1, OneRowEach
<1>4. /\ Members' = Members
      /\ Admins' = IF role = "ADMIN" THEN Admins \cup {member[target].user}
                                     ELSE Admins \ {member[target].user}
  BY <1>1, RolesChange DEF OrgTypeOK
<1>5. People' = People /\ Invited' = Invited
  BY <1>1 DEF People, Invited, Stands
<1>6. CASE role = "ADMIN"
  <2>1. member[target].user \in People
    BY <1>1, <1>3, <1>6 DEF People, MemberRow
  <2>2. QED
    BY <1>1, <1>2, <1>3, <1>4, <1>5, <1>6, <2>1 DEF OrgAbstract!Appoint
<1>7. CASE role # "ADMIN"
  <2>1. member[target].role = "ADMIN"
    BY <1>1, <1>3, <1>7 DEF MemberRow, Role
  <2>2. QED
    BY <1>1, <1>2, <1>3, <1>4, <1>5, <1>7, <2>1 DEF OrgAbstract!Demote
<1>8. QED
  BY <1>6, <1>7

LEMMA TransferRefines ==
  ASSUME OrgTypeOK, OneActiveMembership, NEW m \in MemberId, NEW target \in MemberId,
         NEW retain \in BOOLEAN, Transfer(m, target, retain)
  PROVE  \/ OrgAbstract!Appoint(member[m].user, member[target].user)
         \/ OrgAbstract!HandOver(member[m].user, member[target].user)
<1>1. /\ Manages(m) /\ target # m
      /\ member[target].status = "ACTIVE" /\ account[member[target].user] = "ACTIVE"
      /\ ~(retain /\ member[target].role = "ADMIN")
      /\ UNCHANGED <<account, organization, invitation>>
  BY DEF Transfer
<1>2. /\ OrgAbstract!Administers(member[m].user)
      /\ member[m].status = "ACTIVE"
      /\ member[target].user # member[m].user
  BY <1>1, ManagersAdminister DEF Manages, Acts
<1>3. /\ member[target] \in MemberRow
      /\ member[target].user \in Members
      /\ member[target].user \in Admins <=> member[target].role = "ADMIN"
  BY <1>1, OneRowEach
<1>4. member[target].user \in People
  BY <1>1, <1>3 DEF People, MemberRow
<1>5. People' = People /\ Invited' = Invited
  BY <1>1 DEF People, Invited, Stands
<1>6. CASE retain
  <2>1. /\ member'[target] = [member[target] EXCEPT !.role = "ADMIN"]
        /\ \A x \in MemberId \ {target} : member'[x] = member[x]
    BY <1>6 DEF Transfer
  <2>2. "ADMIN" \in Role
    BY DEF Role
  <2>3. Members' = Members /\ Admins' = Admins \cup {member[target].user}
    BY <1>1, <2>1, <2>2, RolesChange
  <2>4. QED
    BY <1>1, <1>2, <1>3, <1>4, <1>5, <1>6, <2>3 DEF OrgAbstract!Appoint
<1>7. CASE ~retain
  <2>1. /\ member'[target] = [member[target] EXCEPT !.role = "ADMIN"]
        /\ member'[m] = [member[m] EXCEPT !.role = "PROFESSIONAL_MEMBER"]
        /\ \A x \in MemberId : x # target /\ x # m => member'[x] = member[x]
    BY <1>1, <1>7 DEF Transfer
  <2>2. /\ member[m] \in MemberRow
        /\ \A x \in MemberId : member[x].status = "ACTIVE" /\ member[x].user = member[m].user => x = m
    BY <1>2, OneRowEach
  <2>3. /\ \A x \in MemberId : member'[x].user = member[x].user /\ member'[x].status = member[x].status
        /\ member'[target].role = "ADMIN" /\ member'[m].role # "ADMIN"
    BY <1>3, <2>1, <2>2 DEF MemberRow
  <2>4. Members' = Members
    BY <2>3 DEF Members
  <2>5. /\ IsActiveAdmin(target)' /\ ~IsActiveAdmin(m)'
        /\ \A x \in MemberId : x # target /\ x # m => (IsActiveAdmin(x)' <=> IsActiveAdmin(x))
    BY <1>1, <2>1, <2>3 DEF IsActiveAdmin
  <2>6. \A x \in MemberId : IsActiveAdmin(x) /\ x # m => member[x].user # member[m].user
    BY <2>2 DEF IsActiveAdmin
  <2>7. Admins' = (Admins \ {member[m].user}) \cup {member[target].user}
    BY <1>2, <2>3, <2>5, <2>6 DEF Admins
  <2>8. QED
    BY <1>1, <1>2, <1>3, <1>4, <1>5, <2>4, <2>7 DEF OrgAbstract!HandOver
<1>8. QED
  BY <1>6, <1>7

LEMMA LapseRefines ==
  ASSUME OrgTypeOK, OrgTypeOK', [OrgNext]_orgVars, UNCHANGED <<account, organization, member>>,
         \A i \in InvitationId : ~Made(i)
  PROVE  OrgAbstract!Lapse
<1>1. Invited' \subseteq Invited
  BY InvitationsLapse
<1>2. People' = People /\ Members' = Members /\ Admins' = Admins
  BY DEF People, Members, Admins, IsActiveAdmin
<1>3. QED
  BY <1>1, <1>2 DEF OrgAbstract!Lapse

LEMMA MembershipStep ==
  ASSUME OrgTypeOK, OrgTypeOK', OneActiveMembership, OnePendingInvitation, [OrgNext]_orgVars
  PROVE  OrgAbstract!Next
<1>1. ASSUME NEW m \in MemberId, NEW email \in User, NEW role \in Role,
             NEW i \in InvitationId, Invite(m, email, role, i)
      PROVE  OrgAbstract!Next
  <2>1. Manages(m) /\ UNCHANGED <<account, organization, member>>
    BY <1>1 DEF Invite
  <2>2. /\ OrgAbstract!Administers(member[m].user)
        /\ member[m].user \in Admins
    BY <2>1, ManagersAdminister
  <2>3. PICK by \in Admins : by = member[m].user
    BY <2>2
  <2>4. /\ \A r \in Role : <<email, r>> \notin Invited
        /\ Invited' = Invited \cup {<<email, role>>}
    BY <1>1, InviteRefines
  <2>5. People' = People /\ Members' = Members /\ Admins' = Admins
    BY <2>1 DEF People, Members, Admins, IsActiveAdmin
  <2>6. OrgAbstract!Invite(by, email, role)
    BY <2>1, <2>2, <2>3, <2>4, <2>5 DEF OrgAbstract!Invite, OrgAbstract!Administers
  <2>7. QED
    BY <2>6 DEF OrgAbstract!Next
<1>2. ASSUME UNCHANGED <<account, organization, member>>
      PROVE  OrgAbstract!Next
  <2>1. CASE \E i \in InvitationId : Made(i)
    BY <1>1, <2>1 DEF Made
  <2>2. CASE \A i \in InvitationId : ~Made(i)
    BY <1>2, <2>2, LapseRefines DEF OrgAbstract!Next
  <2>3. QED
    BY <2>1, <2>2
<1>3. ASSUME NEW m \in MemberId, Leave(m)
      PROVE  OrgAbstract!Next
  <2>1. PICK u \in Members : u = member[m].user
    BY <1>3, OneRowEach DEF Leave, Acts
  <2>2. OrgAbstract!Leave(u)
    BY <1>3, <2>1, LeaveRefines DEF OrgAbstract!Leave
  <2>3. QED
    BY <2>2 DEF OrgAbstract!Next
<1>4. ASSUME NEW m \in MemberId, NEW target \in MemberId,
             Manages(m), member[target].status = "ACTIVE"
      PROVE  \E by \in Admins, u \in Members : by = member[m].user /\ u = member[target].user
  BY <1>4, ManagersAdminister, OneRowEach
<1>5. ASSUME NEW m \in MemberId, NEW target \in MemberId, RevokeMember(m, target)
      PROVE  OrgAbstract!Next
  <2>1. PICK by \in Admins, u \in Members : by = member[m].user /\ u = member[target].user
    BY <1>4, <1>5 DEF RevokeMember, Commands
  <2>2. OrgAbstract!Dismiss(by, u)
    BY <1>5, <2>1, RevokeMemberRefines DEF OrgAbstract!Dismiss, OrgAbstract!Administers
  <2>3. QED
    BY <2>2 DEF OrgAbstract!Next
<1>6. ASSUME NEW m \in MemberId, NEW target \in MemberId, NEW role \in Role,
             ChangeRole(m, target, role)
      PROVE  OrgAbstract!Next
  <2>1. PICK by \in Admins, u \in Members : by = member[m].user /\ u = member[target].user
    BY <1>4, <1>6 DEF ChangeRole, Commands
  <2>2. OrgAbstract!Appoint(by, u) \/ OrgAbstract!Demote(by, u)
    BY <1>6, <2>1, ChangeRoleRefines
    DEF OrgAbstract!Appoint, OrgAbstract!Demote, OrgAbstract!Administers
  <2>3. QED
    BY <2>2 DEF OrgAbstract!Next
<1>7. ASSUME NEW m \in MemberId, NEW target \in MemberId, NEW retain \in BOOLEAN,
             Transfer(m, target, retain)
      PROVE  OrgAbstract!Next
  <2>1. PICK by \in Admins, u \in Members : by = member[m].user /\ u = member[target].user
    BY <1>4, <1>7 DEF Transfer
  <2>2. OrgAbstract!Appoint(by, u) \/ OrgAbstract!HandOver(by, u)
    BY <1>7, <2>1, TransferRefines
    DEF OrgAbstract!Appoint, OrgAbstract!HandOver, OrgAbstract!Administers
  <2>3. QED
    BY <2>2 DEF OrgAbstract!Next
<1>8. ASSUME NEW i \in InvitationId, NEW g \in DOMAIN token[i], NEW m \in MemberId,
             Accept(i, g, m)
      PROVE  OrgAbstract!Next
  <2>1. invitation[i].email \in User /\ invitation[i].role \in Role
    BY <1>8 DEF Accept, Answers, OrgTypeOK, FreeInvitation, InvitationRow
  <2>2. PICK u \in User, role \in Role : u = invitation[i].email /\ role = invitation[i].role
    BY <2>1
  <2>3. OrgAbstract!Join(u, role)
    BY <1>8, <2>2, AcceptRefines DEF OrgAbstract!Join
  <2>4. QED
    BY <2>3 DEF OrgAbstract!Next
<1>9. CASE SetOrganization \/ \E u \in User : SetAccount(u)
  <2>1. UNCHANGED <<member, invitation>>
    BY <1>9 DEF SetOrganization, SetAccount
  <2>2. Members' = Members /\ Admins' = Admins /\ Invited' = Invited
    BY <2>1 DEF Members, Admins, IsActiveAdmin, Invited, Stands
  <2>3. People' \subseteq User
    BY DEF People
  <2>4. OrgAbstract!Outside
    BY <2>2, <2>3 DEF OrgAbstract!Outside
  <2>5. QED
    BY <2>4 DEF OrgAbstract!Next
<1>10. ASSUME NEW m \in MemberId, Command(m)
       PROVE  OrgAbstract!Next
  BY <1>2, <1>3, <1>5, <1>6, <1>7, <1>10
  DEF Command, Invite, Resend, RevokeInvitation, ExpireByAdmin
<1>11. ASSUME NEW i \in InvitationId, NEW g \in DOMAIN token[i], Answer(i, g)
       PROVE  OrgAbstract!Next
  BY <1>2, <1>8, <1>11 DEF Answer, Reject, ExpireByAnswer
<1>12. QED
  BY <1>2, <1>9, <1>10, <1>11 DEF OrgNext, Tick, orgVars

LEMMA MembershipInitiallyRefines == OrgInit => OrgAbstract!Init
<1> SUFFICES ASSUME OrgInit
             PROVE  OrgAbstract!Init
  OBVIOUS
<1>1. PICK founder \in User, m \in MemberId :
        /\ account = [u \in User |-> IF u = founder THEN "ACTIVE" ELSE "INACTIVE"]
        /\ member = [x \in MemberId |->
                       IF x = m THEN [status |-> "ACTIVE", user |-> founder, role |-> "ADMIN",
                                      invitation |-> NoInvitation]
                                ELSE FreeMember]
  BY DEF OrgInit
<1>2. People = {founder}
  BY <1>1 DEF People
<1>3. Members = {founder} /\ Admins = {founder}
  BY <1>1 DEF Members, Admins, IsActiveAdmin, FreeMember
<1>4. organization = "ACTIVE" /\ Invited = {}
  BY DEF OrgInit, Invited, Stands, FreeInvitation
<1>5. QED
  BY <1>2, <1>3, <1>4 DEF OrgAbstract!Init

\* Rows, tokens and clocks implement one role per person: people join only by an
\* invitation that stands, in its role, only administrators invite, appoint, demote
\* and dismiss, and the organization is never without one.
THEOREM MembershipIsImplemented == OrgSpec => ImplementsMembership
<1>1. OrgTypeOK /\ OrgTypeOK' /\ OneActiveMembership /\ OnePendingInvitation
        /\ [OrgNext]_orgVars => [OrgAbstract!Next]_(OrgAbstract!membershipVars)
  BY MembershipStep
<1>2. QED
  BY <1>1, MembershipInitiallyRefines, OrgTypeCorrectness, MembershipIsUnique, PendingIsUnique,
     PTL DEF OrgSpec, ImplementsMembership, OrgAbstract!Spec
=============================================================================
