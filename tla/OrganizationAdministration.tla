---------------------- MODULE OrganizationAdministration ----------------------
(***************************************************************************)
(* Members and invitations of one organization                             *)
(* (apps/api/src/organizations/organization-administration.service.ts).    *)
(*                                                                         *)
(* Every command runs in a Serializable transaction that locks the rows of *)
(* the organization and evaluates there, again, everything it decides on:  *)
(* the actor's session and account, its membership, the status of the      *)
(* organization, the rows it changes and the database clock.  What was     *)
(* read before contributes only immutable columns.  A command is therefore *)
(* one action, and a command that is refused changes nothing: the guards   *)
(* are its refusals.  Sessions are abstracted to the account: a person     *)
(* whose account is ACTIVE can have a valid session.  Rate limits only     *)
(* refuse.  Whoever was given the token of an invitation may present it.   *)
(*                                                                         *)
(* Times are kept as the time that is left, so the clock has no end.       *)
(***************************************************************************)
EXTENDS Naturals, Sequences

CONSTANTS
  User,           \* people, each known by the e-mail address
  MemberId,       \* ids of organization_member rows
  InvitationId,   \* ids of organization_invitation rows
  Worker,         \* worker processes, the holders of outbox leases
  InvitationTtl,  \* INVITATION_TTL_SECONDS, in clock ticks
  LeaseTtl,       \* LEASE_SECONDS of the worker
  Backoff,        \* the delay before a retry
  MaxAttempts,    \* MAX_ATTEMPTS of the worker
  MaxGeneration   \* bound on the tokens of an invitation

ASSUME BoundAssumption ==
  /\ {InvitationTtl, LeaseTtl, MaxAttempts, MaxGeneration} \subseteq Nat \ {0}
  /\ Backoff \in Nat

VARIABLES
  account,       \* ACTIVE: the user is active and the e-mail address verified
  organization,  \* status of the organization
  member,        \* rows of organization_member
  invitation,    \* rows of organization_invitation
  token,         \* per invitation its account_token rows, by generation
  event          \* the outbox_event of each of these tokens

orgVars == <<account, organization, member, invitation, token, event>>

Role == {"ADMIN", "PROFESSIONAL_MEMBER"}
NoInvitation == "NONE"
NoLock == "NONE"

ASSUME NoInvitationAssumption == NoInvitation \notin InvitationId

FreeMember == [status |-> "FREE"]
MemberRow == [status: {"ACTIVE", "REVOKED", "LEFT"}, user: User, role: Role,
              invitation: InvitationId \cup {NoInvitation}]

FreeInvitation == [status |-> "FREE"]
InvitationRow == [status: {"PENDING", "ACCEPTED", "REJECTED", "REVOKED", "EXPIRED"},
                  email: User, role: Role, left: 0 .. InvitationTtl]

TokenRow == [state: {"LIVE", "CONSUMED", "REVOKED"}, left: 0 .. InvitationTtl]

\* `attempt' stops at MaxAttempts, beyond which attemptCount is not told apart.
\* A worker has one claim at a time, so its name stands for the lock token.
EventRow == [status: {"PENDING", "PROCESSING", "PROCESSED", "OBSOLETE", "DEAD_LETTER"},
             error: {"NONE", "FAILED"}, attempt: 0 .. MaxAttempts,
             lock: Worker \cup {NoLock}, lease: 0 .. LeaseTtl, wait: 0 .. Backoff]

OrgTypeOK ==
  /\ account \in [User -> {"ACTIVE", "INACTIVE"}]
  /\ organization \in {"ACTIVE", "SUSPENDED"}
  /\ member \in [MemberId -> MemberRow \cup {FreeMember}]
  /\ invitation \in [InvitationId -> InvitationRow \cup {FreeInvitation}]
  /\ token \in [InvitationId -> Seq(TokenRow)]
  /\ event \in [InvitationId -> Seq(EventRow)]

\* The state OrganizationsService.create leaves behind.
OrgInit ==
  /\ organization = "ACTIVE"
  /\ \E founder \in User, m \in MemberId :
       /\ account = [u \in User |-> IF u = founder THEN "ACTIVE" ELSE "INACTIVE"]
       /\ member = [x \in MemberId |->
                      IF x = m THEN [status |-> "ACTIVE", user |-> founder, role |-> "ADMIN",
                                     invitation |-> NoInvitation]
                               ELSE FreeMember]
  /\ invitation = [i \in InvitationId |-> FreeInvitation]
  /\ token = [i \in InvitationId |-> <<>>]
  /\ event = [i \in InvitationId |-> <<>>]

-----------------------------------------------------------------------------
(* Who may act *)

\* Mistaken variant: the status of the organization is not asked.
ActsAnywhere(m) == member[m].status = "ACTIVE" /\ account[member[m].user] = "ACTIVE"

\* organizationContext: m is the membership of a person who may act at all.
Acts(m) ==
  /\ member[m].status = "ACTIVE"
  /\ account[member[m].user] = "ACTIVE"
  /\ organization = "ACTIVE"

\* The capabilities ORGANIZATION_MEMBERS_MANAGE and ORGANIZATION_ADMIN_TRANSFER.
Manages(m) == Acts(m) /\ member[m].role = "ADMIN"

IsActiveAdmin(m) == member[m].status = "ACTIVE" /\ member[m].role = "ADMIN"

\* Mistaken variant: the member who goes is counted.
AnyAdmin(excluded) == \E m \in MemberId : IsActiveAdmin(m)

AnotherAdmin(excluded) == \E m \in MemberId \ {excluded} : IsActiveAdmin(m)

-----------------------------------------------------------------------------
(* Tokens and their events *)

NewToken == [state |-> "LIVE", left |-> InvitationTtl]

NewEvent == [status |-> "PENDING", error |-> "NONE", attempt |-> 0,
             lock |-> NoLock, lease |-> 0, wait |-> 0]

Latest(i) == Len(token[i])

\* Mistaken variant: the tokens stay live.
NoneRevoked(i, G) == token[i]

\* revokeTokens: live tokens of i among the generations G are revoked ...
RevokedTokens(i, G) ==
  [g \in DOMAIN token[i] |->
     IF g \in G /\ token[i][g].state = "LIVE"
       THEN [token[i][g] EXCEPT !.state = "REVOKED"]
       ELSE token[i][g]]

\* ... and their events become obsolete, unless a worker still holds a lease.
Obsolete(e) == [e EXCEPT !.status = "OBSOLETE", !.lock = NoLock, !.lease = 0]

IsLeased(e) == e.status = "PROCESSING" /\ e.lease > 0

\* Mistaken variant: a lease that lasts is not respected.
ObsoleteRegardless(i, G) ==
  [g \in DOMAIN event[i] |->
     IF g \in G /\ event[i][g].status \in {"PENDING", "PROCESSING"}
       THEN Obsolete(event[i][g])
       ELSE event[i][g]]

ObsoleteEvents(i, G) ==
  [g \in DOMAIN event[i] |->
     IF g \in G /\ event[i][g].status \in {"PENDING", "PROCESSING"} /\ ~IsLeased(event[i][g])
       THEN Obsolete(event[i][g])
       ELSE event[i][g]]

\* outbox_event_state_chk: an OBSOLETE event carries no last_error_code.  The
\* update does not clear the column, so a pending event with an error makes
\* the transaction fail.
RevocationAccepted(i, G) ==
  \A g \in G : event[i][g].status = "PENDING" => event[i][g].error = "NONE"

RevokeTokens(i, G) ==
  /\ RevocationAccepted(i, G)
  /\ token' = [token EXCEPT ![i] = RevokedTokens(i, G)]
  /\ event' = [event EXCEPT ![i] = ObsoleteEvents(i, G)]

-----------------------------------------------------------------------------
(* Invitations *)

PendingFor(email) ==
  {i \in InvitationId : invitation[i].status = "PENDING" /\ invitation[i].email = email}

\* Mistaken variant: an overdue invitation stays pending next to the new one.
InviteBesides(m, email, role, i) ==
  /\ Manages(m)
  /\ invitation[i].status = "FREE"
  /\ \A x \in PendingFor(email) : invitation[x].left = 0
  /\ invitation' = [invitation EXCEPT ![i] = [status |-> "PENDING", email |-> email,
                                              role |-> role, left |-> InvitationTtl]]
  /\ token' = [token EXCEPT ![i] = <<NewToken>>]
  /\ event' = [event EXCEPT ![i] = <<NewEvent>>]
  /\ UNCHANGED <<account, organization, member>>

Invite(m, email, role, i) ==
  /\ Manages(m)
  /\ invitation[i].status = "FREE"
  /\ \A x \in PendingFor(email) : invitation[x].left = 0
  /\ invitation' = [x \in InvitationId |->
                      IF x = i THEN [status |-> "PENDING", email |-> email, role |-> role,
                                     left |-> InvitationTtl]
                      ELSE IF x \in PendingFor(email)
                        THEN [invitation[x] EXCEPT !.status = "EXPIRED"]
                        ELSE invitation[x]]
  /\ token' = [token EXCEPT ![i] = <<NewToken>>]
  /\ event' = [event EXCEPT ![i] = <<NewEvent>>]
  /\ UNCHANGED <<account, organization, member>>

\* Mistaken variant: only the token gets the new expiry.
ResendTokenOnly(m, i) ==
  /\ Manages(m)
  /\ invitation[i].status = "PENDING"
  /\ invitation[i].left > 0
  /\ Latest(i) < MaxGeneration
  /\ RevocationAccepted(i, DOMAIN token[i])
  /\ token' = [token EXCEPT ![i] = Append(RevokedTokens(i, DOMAIN token[i]), NewToken)]
  /\ event' = [event EXCEPT ![i] = Append(ObsoleteEvents(i, DOMAIN token[i]), NewEvent)]
  /\ UNCHANGED <<account, organization, member, invitation>>

Resend(m, i) ==
  /\ Manages(m)
  /\ invitation[i].status = "PENDING"
  /\ invitation[i].left > 0
  /\ Latest(i) < MaxGeneration
  /\ RevocationAccepted(i, DOMAIN token[i])
  /\ invitation' = [invitation EXCEPT ![i].left = InvitationTtl]
  /\ token' = [token EXCEPT ![i] = Append(RevokedTokens(i, DOMAIN token[i]), NewToken)]
  /\ event' = [event EXCEPT ![i] = Append(ObsoleteEvents(i, DOMAIN token[i]), NewEvent)]
  /\ UNCHANGED <<account, organization, member>>

RevokeInvitation(m, i) ==
  /\ Manages(m)
  /\ invitation[i].status = "PENDING"
  /\ invitation[i].left > 0
  /\ RevokeTokens(i, DOMAIN token[i])
  /\ invitation' = [invitation EXCEPT ![i].status = "REVOKED"]
  /\ UNCHANGED <<account, organization, member>>

\* Mistaken variant: the time is compared before the status is.
ExpireAnyByAdmin(m, i) ==
  /\ Manages(m)
  /\ invitation[i].status # "FREE"
  /\ invitation[i].left = 0
  /\ invitation' = [invitation EXCEPT ![i].status = "EXPIRED"]
  /\ UNCHANGED <<account, organization, member, token, event>>

\* Resending or revoking an invitation whose time is over.
ExpireByAdmin(m, i) ==
  /\ Manages(m)
  /\ invitation[i].status = "PENDING"
  /\ invitation[i].left = 0
  /\ invitation' = [invitation EXCEPT ![i].status = "EXPIRED"]
  /\ UNCHANGED <<account, organization, member, token, event>>

\* respond: the token of generation g answers its invitation.
Answers(i, g) ==
  /\ invitation[i].status = "PENDING"
  /\ g = Latest(i)
  /\ token[i][g].state = "LIVE"

\* Mistaken variant: the last instant still counts.
InTimeInclusive(i, g) == invitation[i].left >= 0 /\ token[i][g].left >= 0

InTime(i, g) == invitation[i].left > 0 /\ token[i][g].left > 0

ExpireByAnswer(i, g) ==
  /\ Answers(i, g)
  /\ ~InTime(i, g)
  /\ RevokeTokens(i, {g})
  /\ invitation' = [invitation EXCEPT ![i].status = "EXPIRED"]
  /\ UNCHANGED <<account, organization, member>>

\* Mistaken variant: a person who is a member already joins once more.
AcceptTwice(i, g, m) ==
  LET email == invitation[i].email IN
  /\ Answers(i, g)
  /\ InTime(i, g)
  /\ organization = "ACTIVE"
  /\ account[email] = "ACTIVE"
  /\ member[m].status = "FREE"
  /\ member' = [member EXCEPT ![m] = [status |-> "ACTIVE", user |-> email,
                                      role |-> invitation[i].role, invitation |-> i]]
  /\ token' = [token EXCEPT ![i][g].state = "CONSUMED"]
  /\ invitation' = [invitation EXCEPT ![i].status = "ACCEPTED"]
  /\ UNCHANGED <<account, organization, event>>

Accept(i, g, m) ==
  LET email == invitation[i].email IN
  /\ Answers(i, g)
  /\ InTime(i, g)
  /\ organization = "ACTIVE"
  /\ account[email] = "ACTIVE"
  /\ ~\E x \in MemberId : member[x].status = "ACTIVE" /\ member[x].user = email
  /\ member[m].status = "FREE"
  /\ member' = [member EXCEPT ![m] = [status |-> "ACTIVE", user |-> email,
                                      role |-> invitation[i].role, invitation |-> i]]
  /\ token' = [token EXCEPT ![i][g].state = "CONSUMED"]
  /\ invitation' = [invitation EXCEPT ![i].status = "ACCEPTED"]
  /\ UNCHANGED <<account, organization, event>>

Reject(i, g) ==
  /\ Answers(i, g)
  /\ InTime(i, g)
  /\ organization = "ACTIVE"
  /\ token' = [token EXCEPT ![i][g].state = "CONSUMED"]
  /\ invitation' = [invitation EXCEPT ![i].status = "REJECTED"]
  /\ UNCHANGED <<account, organization, member, event>>

-----------------------------------------------------------------------------
(* Members *)

Leave(m) ==
  /\ Acts(m)
  /\ AnotherAdmin(m)
  /\ member' = [member EXCEPT ![m].status = "LEFT"]
  /\ UNCHANGED <<account, organization, invitation, token, event>>

\* Both may happen to the same row, hence in one function.
Transfer(m, target, retain) ==
  /\ Manages(m)
  /\ target # m
  /\ member[target].status = "ACTIVE"
  /\ account[member[target].user] = "ACTIVE"
  /\ ~(retain /\ member[target].role = "ADMIN")
  /\ member' = [x \in MemberId |->
                  IF x = target THEN [member[x] EXCEPT !.role = "ADMIN"]
                  ELSE IF x = m /\ ~retain
                    THEN [member[x] EXCEPT !.role = "PROFESSIONAL_MEMBER"]
                    ELSE member[x]]
  /\ UNCHANGED <<account, organization, invitation, token, event>>

\* memberCommand: what changeRole and revokeMember ask of actor and target
Commands(m, target) ==
  /\ Manages(m)
  /\ target # m
  /\ member[target].status = "ACTIVE"
  /\ member[target].role = "ADMIN" => AnotherAdmin(target)

ChangeRole(m, target, role) ==
  /\ Commands(m, target)
  /\ member[target].role # role
  /\ role = "ADMIN" => account[member[target].user] = "ACTIVE"
  /\ member' = [member EXCEPT ![target].role = role]
  /\ UNCHANGED <<account, organization, invitation, token, event>>

RevokeMember(m, target) ==
  /\ Commands(m, target)
  /\ member' = [member EXCEPT ![target].status = "REVOKED"]
  /\ UNCHANGED <<account, organization, invitation, token, event>>

-----------------------------------------------------------------------------
(* The environment *)

\* Registration and verification, which AccountLifecycle models, and the
\* operator who suspends and reinstates.
SetAccount(u) ==
  /\ account' = [account EXCEPT ![u] = IF @ = "ACTIVE" THEN "INACTIVE" ELSE "ACTIVE"]
  /\ UNCHANGED <<organization, member, invitation, token, event>>

SetOrganization ==
  /\ organization' = IF organization = "ACTIVE" THEN "SUSPENDED" ELSE "ACTIVE"
  /\ UNCHANGED <<account, member, invitation, token, event>>

OneLess(n) == IF n = 0 THEN 0 ELSE n - 1

\* A tick takes one from every time that is left.
Tick ==
  /\ invitation' = [i \in InvitationId |->
                      IF invitation[i].status = "FREE" THEN invitation[i]
                      ELSE [invitation[i] EXCEPT !.left = OneLess(@)]]
  /\ token' = [i \in InvitationId |->
                 [g \in DOMAIN token[i] |-> [token[i][g] EXCEPT !.left = OneLess(@)]]]
  /\ event' = [i \in InvitationId |->
                 [g \in DOMAIN event[i] |->
                    [event[i][g] EXCEPT !.lease = OneLess(@), !.wait = OneLess(@)]]]
  /\ UNCHANGED <<account, organization, member>>

Command(m) ==
  \/ \E email \in User, role \in Role, i \in InvitationId : Invite(m, email, role, i)
  \/ \E i \in InvitationId : Resend(m, i)
  \/ \E i \in InvitationId : RevokeInvitation(m, i)
  \/ \E i \in InvitationId : ExpireByAdmin(m, i)
  \/ Leave(m)
  \/ \E target \in MemberId, retain \in BOOLEAN : Transfer(m, target, retain)
  \/ \E target \in MemberId, role \in Role : ChangeRole(m, target, role)
  \/ \E target \in MemberId : RevokeMember(m, target)

Answer(i, g) ==
  \/ \E m \in MemberId : Accept(i, g, m)
  \/ Reject(i, g)
  \/ ExpireByAnswer(i, g)

OrgNext ==
  \/ \E m \in MemberId : Command(m)
  \/ \E i \in InvitationId : \E g \in DOMAIN token[i] : Answer(i, g)
  \/ \E u \in User : SetAccount(u)
  \/ SetOrganization
  \/ Tick

OrgSpec == OrgInit /\ [][OrgNext]_orgVars

-----------------------------------------------------------------------------
(* Properties *)

\* The organization always has an active administrator, however leaving,
\* demotion, revocation and transfer by several of them are interleaved
\* (ensureAnotherAdmin; a transfer needs no such check).
AlwaysAnAdmin == \E m \in MemberId : IsActiveAdmin(m)

\* Nobody is an active member twice, and no two people or answers share an
\* invitation: joining again after leaving needs a new one.
OneActiveMembership ==
  \A x, y \in MemberId :
    x # y /\ member[x].status # "FREE" /\ member[y].status # "FREE" =>
      /\ member[x].invitation = member[y].invitation => member[x].invitation = NoInvitation
      /\ member[x].status = "ACTIVE" /\ member[y].status = "ACTIVE"
           => member[x].user # member[y].user

\* At most one invitation of an address is pending (invite turns overdue ones
\* EXPIRED, or refuses).
OnePendingInvitation == \A u \in User : \A x, y \in PendingFor(u) : x = y

\* What an invitation says and what its tokens, events and members say agree: it
\* is accepted exactly when a member with its address joined by it, it is answered
\* exactly when one token was consumed, the newest, and only that one can live.
\* An event is dropped only once its token is superseded, answered or revoked.
AnswersAgree ==
  \A i \in InvitationId : invitation[i].status # "FREE" =>
    /\ invitation[i].status = "ACCEPTED" <=>
         \E m \in MemberId : /\ member[m].status # "FREE"
                             /\ member[m].invitation = i
                             /\ member[m].user = invitation[i].email
    /\ invitation[i].status \in {"ACCEPTED", "REJECTED"} <=>
         \E g \in DOMAIN token[i] : token[i][g].state = "CONSUMED"
    /\ \A g \in DOMAIN token[i] : token[i][g].state # "REVOKED" => g = Latest(i)
    /\ \A g \in DOMAIN event[i] :
         event[i][g].status = "OBSOLETE" => token[i][g].state = "REVOKED"

\* A pending invitation can be answered and nothing else can: its newest token
\* is live and runs out together with it, for resend extends both, and no way to
\* end an invitation early leaves a token that could still be presented.
PendingCanBeAnswered ==
  \A i \in InvitationId :
    /\ invitation[i].status = "PENDING" =>
         /\ token[i][Latest(i)].state = "LIVE"
         /\ token[i][Latest(i)].left = invitation[i].left
    /\ \A g \in DOMAIN token[i] :
         token[i][g].state = "LIVE" /\ token[i][g].left > 0 => invitation[i].status = "PENDING"

\* Memberships, invitations and tokens that have ended stay ended.
Ended(i) == invitation[i].status \notin {"FREE", "PENDING"}
EndedStaysEnded ==
  [][/\ \A m \in MemberId : member[m].status \in {"LEFT", "REVOKED"} => member'[m] = member[m]
     /\ \A i \in InvitationId :
          /\ Ended(i) => invitation'[i].status = invitation[i].status
          /\ \A g \in DOMAIN token[i] :
               token[i][g].state # "LIVE" => token'[i][g].state = token[i][g].state]_orgVars

\* A person joins only by an invitation of the own address that is pending and
\* in time, in its role, with an active account, to an active organization.
Joins(m) == member[m].status # "ACTIVE" /\ member'[m].status = "ACTIVE"
JoiningIsInvited ==
  [][\A m \in MemberId : Joins(m) =>
       /\ organization = "ACTIVE"
       /\ account[member'[m].user] = "ACTIVE"
       /\ \E i \in InvitationId :
            /\ invitation[i].status = "PENDING" /\ invitation[i].left > 0
            /\ invitation[i].email = member'[m].user
            /\ invitation[i].role = member'[m].role]_orgVars

\* While the organization is suspended its members and roles are frozen and its
\* invitations can only expire; while a user is, nobody makes that user an
\* administrator.  Each command asks for both under its locks (organizationContext,
\* transfer, changeRole), and nothing it was told before counts.
SuspensionFreezes ==
  [][/\ organization = "SUSPENDED" =>
          /\ member' = member
          /\ \A i \in InvitationId : invitation'[i].status # invitation[i].status
               => invitation'[i].status = "EXPIRED"
     /\ \A m \in MemberId : ~IsActiveAdmin(m) /\ IsActiveAdmin(m)'
          => account[member'[m].user] = "ACTIVE"]_orgVars

-----------------------------------------------------------------------------
(* The abstract membership *)

People == {u \in User : account[u] = "ACTIVE"}

Members == {member[m].user : m \in {x \in MemberId : member[x].status = "ACTIVE"}}

Admins == {member[m].user : m \in {x \in MemberId : IsActiveAdmin(x)}}

\* An invitation stands while it is pending and has time left.
Stands(i) == invitation[i].status = "PENDING" /\ invitation[i].left > 0

Invited == {<<invitation[i].email, invitation[i].role>> : i \in {x \in InvitationId : Stands(x)}}

OrgAbstract == INSTANCE Membership WITH
  open <- organization = "ACTIVE",
  people <- People,
  members <- Members,
  admins <- Admins,
  invited <- Invited

\* Membership rows that are never deleted, invitations that are renewed, answered
\* by token and run out unseen, and commands that are authorized again under lock
\* implement the abstract membership: one role per person, nobody joins without
\* an invitation that stands or is appointed or dismissed but by an administrator.
ImplementsMembership == OrgAbstract!Spec
=============================================================================
