------------------------------- MODULE LockOrder -------------------------------
(***************************************************************************)
(* The row locks of every command (organizations/LOCK_ORDER.md and the     *)
(* FOR UPDATE statements of the services) and the retries around them      *)
(* (auth/serializable-transaction.ts).                                     *)
(*                                                                         *)
(* A transaction is the list of the statements by which it comes to hold   *)
(* rows.  A SELECT ... FOR UPDATE takes the rows of one kind in the order  *)
(* of their ids; an updateMany takes them in whatever order the plan of    *)
(* the query yields.  What the transaction does to the rows is modelled in *)
(* the modules of the services; here it ends at a moment of its choice.    *)
(*                                                                         *)
(* A statement reaches every row of its subject, where the code leaves     *)
(* some out (tokens of the other purpose, events that are closed).  Waits  *)
(* other than for a row, such as for a row that another transaction is     *)
(* about to insert, are not modelled.                                      *)
(***************************************************************************)
EXTENDS Integers, Sequences

CONSTANTS
  Request,       \* requests and worker cycles in flight
  User, Organization, Invitation, Property,
  Id,            \* of the rows that belong to one of those
  MaxAttempts    \* SERIALIZABLE_MAX_ATTEMPTS

Ids == {0} \cup User \cup Organization \cup Invitation \cup Property \cup Id

ASSUME IdsAreNumbers == Ids \subseteq Nat
ASSUME IdsAreBounded == \E max \in Ids : \A id \in Ids : id <= max
ASSUME AttemptsAssumption == MaxAttempts \in Nat \ {0}

VARIABLES
  plan,     \* the statements of the transaction a request runs; none if idle
  once,     \* the transaction is not tried again
  attempt,  \* of the transaction
  at,       \* the statement it has come to
  held      \* the rows it has locked

vars == <<plan, once, attempt, at, held>>

-----------------------------------------------------------------------------
(* Rows and statements *)

\* A row is <<kind, group, id>>: the group is the user, organization, invitation
\* or property the row belongs to, and 0 where the rows of a kind are one set.
Select(kind, keys) == [kind |-> kind, keys |-> keys, sorted |-> TRUE]
Update(kind, keys) == [kind |-> kind, keys |-> keys, sorted |-> FALSE]

One(kind, group, id) == Select(kind, {<<group, id>>})
AllOf(kind, group) == Select(kind, {group} \X Id)
SetOf(kind, ids) == Select(kind, {0} \X ids)

RowsOf(statement) == {<<statement.kind, key[1], key[2]>> : key \in statement.keys}

-----------------------------------------------------------------------------
(* What the commands lock *)

VerifyEmail(u, t) ==
  <<One("User", 0, u), One("UserToken", u, t),
    Update("UserToken", {u} \X Id)>>

Login(u) == <<One("User", 0, u), One("PasswordCredential", 0, u)>>

\* getSession, logout, and the commands that create an organization or a
\* property: rows they create can not be waited for.
Actor(u, s) == <<One("User", 0, u), One("Session", u, s)>>

LogoutAll(u) == <<One("User", 0, u), AllOf("Session", u)>>

\* resetPassword and changePassword.
NewPassword(u) ==
  <<One("User", 0, u), One("PasswordCredential", 0, u), AllOf("Session", u),
    AllOf("UserToken", u), Update("UserEvent", {u} \X Id)>>

RequestAccountToken(u) ==
  <<One("User", 0, u), One("PasswordCredential", 0, u), AllOf("UserToken", u),
    Update("UserEvent", {u} \X Id)>>

Invite(u, s, g, pending) ==
  <<One("User", 0, u), One("Session", u, s), One("Organization", 0, g),
    AllOf("OrganizationMember", g), SetOf("OrganizationInvitation", pending)>>

\* resendInvitation and revokeInvitation.
OfInvitation(u, s, g, i) ==
  <<One("User", 0, u), One("Session", u, s), AllOf("InvitationToken", i),
    One("Organization", 0, g), AllOf("OrganizationMember", g),
    One("OrganizationInvitation", 0, i), Update("InvitationEvent", {i} \X Id)>>

\* respond.  The token is the one the request names, which may belong to another
\* invitation or to a user.
Answer(users, token, g, i) ==
  <<SetOf("User", users), token, One("Organization", 0, g),
    AllOf("OrganizationMember", g), One("OrganizationInvitation", 0, i),
    Update("InvitationEvent", {i} \X Id)>>

\* leave: one user.  transferAdmin and the commands on a member: two.
OfMembers(u, v, s, g) ==
  <<SetOf("User", {u, v}), One("Session", u, s), One("Organization", 0, g),
    AllOf("OrganizationMember", g)>>

\* Of the members only the rows of the actor, who may have left and joined again.
UpdateOrganization(u, s, g, own) ==
  <<One("User", 0, u), One("Session", u, s), One("Organization", 0, g),
    Select("OrganizationMember", {g} \X own)>>

\* Mistaken variant: the property is locked before the organizations.
OfPropertyFirst(u, v, s, organizations, p) ==
  <<SetOf("User", {u, v}), One("Session", u, s), One("Property", 0, p),
    SetOf("Organization", organizations),
    Select("OrganizationMember", organizations \X Id), AllOf("PropertyAuthorization", p)>>

\* updateProperty, the media operations, grantAuthorization, revokeAuthorization
\* and createListing.  A grant to a user locks that user too, a grant to an
\* organization and a listing of one lock that organization, the others lock
\* those the actor belongs to.
OfProperty(u, v, s, organizations, p) ==
  <<SetOf("User", {u, v}), One("Session", u, s), SetOf("Organization", organizations),
    Select("OrganizationMember", organizations \X Id),
    One("Property", 0, p), AllOf("PropertyAuthorization", p)>>

UpdateListing(u, s, organizations, p, l) ==
  <<One("User", 0, u), One("Session", u, s), SetOf("Organization", organizations),
    Select("OrganizationMember", organizations \X Id),
    One("Property", 0, p), AllOf("PropertyAuthorization", p), One("Listing", p, l)>>

CleanMedia(p, e) == <<One("Property", 0, p), One("MediaEvent", p, e)>>

\* One statement of the worker: the claim skips rows that are locked.
FinishEvent(i, e) == <<One("InvitationEvent", i, e)>>

\* consume: for every command one bucket of each dimension, in a fixed order.
Consume(e, a) == <<One("EmailBucket", 0, e), One("AddressBucket", 0, a)>>

AnyToken ==
  {One("UserToken", u, t) : u \in User, t \in Id}
    \cup {One("InvitationToken", i, t) : i \in Invitation, t \in Id}

\* The transactions that withSerializableRetry runs: of accounts, organizations
\* and properties.
OfAccounts ==
  {VerifyEmail(u, t) : u \in User, t \in Id}
    \cup {Actor(u, s) : u \in User, s \in Id}
    \cup {LogoutAll(u) : u \in User}
    \cup {NewPassword(u) : u \in User}
    \cup {RequestAccountToken(u) : u \in User}

OfOrganizations ==
  {Invite(u, s, g, pending) : u \in User, s \in Id, g \in Organization,
                              pending \in SUBSET Invitation}
    \cup {OfInvitation(u, s, g, i) : u \in User, s \in Id, g \in Organization,
                                     i \in Invitation}
    \cup {Answer(users, token, g, i) : users \in {{}} \cup {{u} : u \in User},
                                       token \in AnyToken, g \in Organization,
                                       i \in Invitation}
    \cup {OfMembers(u, v, s, g) : u \in User, v \in User, s \in Id, g \in Organization}
    \cup {UpdateOrganization(u, s, g, own) : u \in User, s \in Id, g \in Organization,
                                               own \in SUBSET Id}

OfProperties ==
  {OfProperty(u, v, s, gs, p) : u \in User, v \in User, s \in Id,
                                     gs \in SUBSET Organization, p \in Property}
    \cup {UpdateListing(u, s, gs, p, l) : u \in User, s \in Id,
                                          gs \in SUBSET Organization, p \in Property, l \in Id}

Retried == OfAccounts \cup OfOrganizations \cup OfProperties

\* The others are not tried again.
RunOnce ==
  {Login(u) : u \in User}
    \cup {Actor(u, s) : u \in User, s \in Id}
    \cup {CleanMedia(p, e) : p \in Property, e \in Id}
    \cup {FinishEvent(i, e) : i \in Invitation, e \in Id}
    \cup {Consume(e, a) : e \in Id, a \in Id}

-----------------------------------------------------------------------------
(* Transactions *)

Init ==
  /\ plan = [r \in Request |-> <<>>]
  /\ once = [r \in Request |-> FALSE]
  /\ attempt = [r \in Request |-> 0]
  /\ at = [r \in Request |-> 1]
  /\ held = [r \in Request |-> {}]

IsRunning(r) == plan[r] # <<>>
IsComplete(r) == at[r] > Len(plan[r])

Before(row, other) ==
  \/ row[2] < other[2]
  \/ row[2] = other[2] /\ row[3] < other[3]

\* What the statement a request has come to has not locked yet.
Missing(r) == IF IsComplete(r) THEN {} ELSE RowsOf(plan[r][at[r]]) \ held[r]

\* The row it takes next or, for an update, those it may take next.
NextRows(r) ==
  {row \in Missing(r) :
     plan[r][at[r]].sorted => \A other \in Missing(r) : ~Before(other, row)}

IsFree(row) == \A r \in Request : row \notin held[r]

Begin(r) ==
  /\ ~IsRunning(r)
  /\ \/ /\ plan' \in {[plan EXCEPT ![r] = statements] : statements \in Retried}
        /\ once' = once
     \/ /\ plan' \in {[plan EXCEPT ![r] = statements] : statements \in RunOnce}
        /\ once' = [once EXCEPT ![r] = TRUE]
  /\ attempt' = [attempt EXCEPT ![r] = 1]
  /\ UNCHANGED <<at, held>>

\* The statement ends with its last row.
Lock(r, row) ==
  /\ row \in NextRows(r)
  /\ IsFree(row)
  /\ held' = [held EXCEPT ![r] = @ \cup {row}]
  /\ at' = [at EXCEPT ![r] = IF Missing(r) = {row} THEN @ + 1 ELSE @]
  /\ UNCHANGED <<plan, once, attempt>>

\* A statement that finds no row, or only rows the transaction has already.
Pass(r) ==
  /\ ~IsComplete(r)
  /\ Missing(r) = {}
  /\ at' = [at EXCEPT ![r] = @ + 1]
  /\ UNCHANGED <<plan, once, attempt, held>>

\* The end of the request, committed or not: all its locks are released.
End(r) ==
  /\ plan' = [plan EXCEPT ![r] = <<>>]
  /\ once' = [once EXCEPT ![r] = FALSE]
  /\ attempt' = [attempt EXCEPT ![r] = 0]
  /\ at' = [at EXCEPT ![r] = 1]
  /\ held' = [held EXCEPT ![r] = {}]

Commit(r) == IsRunning(r) /\ IsComplete(r) /\ End(r)

\* The handler throws, between two statements or because the time of its
\* transaction is over; or it fails for good.
Refuse(r) == IsRunning(r) /\ End(r)

\* Mistaken variant: tried again without end.
RetryWithoutEnd(r) ==
  /\ IsRunning(r)
  /\ ~once[r]
  /\ at' = [at EXCEPT ![r] = 1]
  /\ held' = [held EXCEPT ![r] = {}]
  /\ UNCHANGED <<plan, once, attempt>>

\* A serialization failure, or a conflict the command names as retryable.
Retry(r) ==
  /\ IsRunning(r)
  /\ ~once[r]
  /\ attempt[r] < MaxAttempts
  /\ attempt' = [attempt EXCEPT ![r] = @ + 1]
  /\ at' = [at EXCEPT ![r] = 1]
  /\ held' = [held EXCEPT ![r] = {}]
  /\ UNCHANGED <<plan, once>>

Advance(r) == Pass(r) \/ \E row \in NextRows(r) : Lock(r, row)

Next == \E r \in Request : Begin(r) \/ Advance(r) \/ Commit(r) \/ Refuse(r) \/ Retry(r)

Spec == Init /\ [][Next]_vars

\* Who waits for a row gets it in turn, and a handler that has its rows returns.
FairSpec == Spec /\ \A r \in Request : SF_vars(Advance(r)) /\ WF_vars(Commit(r))

-----------------------------------------------------------------------------
(* Properties *)

Holds(r, row) == row \in held[r]

\* No set of transactions in which each waits for a row that another of the set
\* holds.  PostgreSQL would cancel one of them, which costs the request an
\* attempt, and those that run once an error.
NoDeadlock ==
  ~\E cycle \in SUBSET Request :
     /\ cycle # {}
     /\ \A r \in cycle : \E q \in cycle, row \in NextRows(r) : Holds(q, row)

\* Every request is answered: no chain of waits and no series of retries keeps
\* its transaction open for ever.
RequestsAreAnswered == \A r \in Request : IsRunning(r) ~> ~IsRunning(r)
=============================================================================
