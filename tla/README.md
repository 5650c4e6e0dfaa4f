# BenHouse: specifications of the core

BenHouse is a property-rental platform: a NestJS API (`apps/api`), a worker
(`apps/worker`), PostgreSQL behind Prisma (`packages/database`), an S3 object
store (`packages/storage`) and a static web page (`apps/web`). Everything that
can go wrong between processes goes through the database: the API and the
worker share no memory and send each other no messages except rows of
`outbox_event`. The API commands run in Serializable transactions that take
row locks in an agreed order (`apps/api/src/organizations/LOCK_ORDER.md`) and
evaluate again, under lock, everything they decide on.

## Inventory

| component | state | operations | what is hard |
|---|---|---|---|
| `auth/auth.service.ts` | `user`, `password_credential`, `session`, `account_token`, `outbox_event` | register, verifyEmail, login, getSession | the password is checked before the transaction; the clock is sometimes read before it; a read of a session also writes it |
| `auth/account-lifecycle.service.ts` | the same rows | logout, logoutAll, resendVerification, forgotPassword, resetPassword, changePassword | sessions, versions, tokens and their events must change together |
| `auth/session-authorization.service.ts` | reads `session`, `user` | authenticate, revalidate, lockAndRevalidate | authenticated before, revalidated inside the transaction |
| `auth/password.ts` | none | hash, verifyForLogin, passwordNeedsRehash | rehash races a new password |
| `auth/rate-limit.service.ts` | `auth_rate_limit` | consume, cleanupExpiredBuckets | windows and blocks computed from a clock read before the transaction |
| `auth/serializable-transaction.ts` | the rows each transaction has locked | withSerializableRetry | three attempts, then 503; requests that wait for each other |
| `organizations/organization-administration.service.ts` | `organization_member`, `organization_invitation`, `account_token`, `outbox_event` | invite, resend, revoke, accept, reject, leave, transfer, change role, revoke member | administrators acting on each other; invitations answered while they are renewed or revoked; constraints of the schema |
| `organizations/organizations.service.ts` | `organization`, its first member | create, list, get, update | none of its own |
| `worker/src/invitation-outbox.ts` | `outbox_event` | claim, deliver, finish | leases that run out, crashes, reads that are not a snapshot |
| `worker/src/index.ts` | the active poll, the shutdown | pollNow, start, shutdown | a poll in flight at shutdown; one stage failing before the next |
| `media/media.service.ts` | `media`, `property.media_version`, objects, `outbox_event` | intent, upload, complete, archive, reorder, read | an object store that takes no part in the transaction |
| `media/media.controller.ts` | `activeUploads` | upload | a slot on every path |
| `worker/src/media-cleanup.ts` | `outbox_event`, `media`, objects | processNextMediaCleanup | races completion and archiving |
| `marketplace/marketplace.service.ts` | `property`, `property_authorization`, `listing` | create and update property, set location, grant and revoke authorization, create and update listing | authorizations that expire or are revoked at a future time |
| `packages/storage`, `packages/config`, controllers, DTOs, web, scripts | none that is shared | | |

For each component the properties that make it correct: accounts — a session
stands for the password the user has now and a dead one stays dead, a token is
used once and only the newest; organizations — always an administrator, one
active membership per person, joining only by a valid invitation, invitation and
token agree; outbox — leases exclude, attempts are counted, an event is
PROCESSED only after its mail went out, everything is closed eventually; rate
limits — what passes in a window is bounded and a block is kept; locks — nobody waits in
a circle; worker — one cycle at a time, none after the disconnect; uploads — no slot is
lost; media — a READY medium has
its object and a position of its own, every other upload is cleaned up;
marketplace — an owner remains, grants are unique and end once, a listing is
published under a name that was authorized.

## Modules

| module | models | checked in | proofs |
|---|---|---|---|
| `AccountLifecycle` | users, credentials, sessions, account tokens | `AccountSessions`, `AccountTokens` | `AccountLifecycleProofs` |
| `OrganizationAdministration` | members and invitations of an organization | `Organization` | `OrganizationProofs`, `InvitationProofs` |
| `InvitationOutbox` (extends it) | the worker that mails invitations | `OutboxLeases`, `OutboxLiveness`, `OutboxWithdrawal` | `OutboxProofs` |
| `Outbox` | abstract specification of the outbox | `OutboxLeases` | `OutboxProofs` |
| `Access` | abstract specification of passwords, sessions and tokens | `AccountTokens` | `AccountLifecycleProofs` |
| `Membership` | abstract specification of an organization | `Organization` | `InvitationProofs`, `OutboxProofs` |
| `Gallery` | abstract specification of the photographs on show | `Media` | `MediaProofs` |
| `Authority` | abstract specification of owners, grants and publishers | `MarketAuthorizations` | `MarketplaceProofs` |
| `MediaLibrary` | photographs, objects and their cleanup | `Media`, `MediaOrphans` | `MediaProofs` |
| `Marketplace` | a property, its authorizations and listings | `MarketAuthorizations`, `MarketContents` | `MarketplaceProofs` |
| `LockOrder` | row locks and retries of every command | `Locks` | `LockOrderProofs` |
| `AuthRateLimit` | buckets, windows, blocks | `Processes` | `ProcessProofs` |
| `WorkerLoop` | polls and shutdown of the worker process | `Processes` | `ProcessProofs` |
| `UploadAdmission` | the slots of uploads and the reading of a body | `Processes` | `ProcessProofs` |

The modules of the services treat a command as one step, the attempt that
counts. `LockOrder` is the level below: it looks only at the statements by which
a command comes to hold its rows, and at the attempts.

### AccountLifecycle

Users, credentials, sessions and account tokens. `user`, `credential`, `session`
and `token` are the tables; the event of a token is a field of its row, because
an account token has exactly one event. A handler of the code is one action
(`Register`, `VerifyEmail`, `Login`, `GetSession`, `Logout`, `LogoutAll`,
`RequestToken` for resendVerification and forgotPassword, `ResetPassword`,
`ChangePassword`): it ends in one Serializable transaction under the lock of the
user's row. What is carried into the transaction from outside is explicit:

* `CheckPassword` reads a credential and checks a password against it, outside
  any transaction; the result stays in `candidates` for ever, so that it can be
  used after any other command, by several requests, or never.
* `Reading` is the set of clock readings a transaction may work with where the
  code reads the API's clock before it opens the transaction (register,
  verifyEmail, login).

A hash is a serial number (every hash has a fresh salt), and `epoch` counts the
passwords a user has had, which tells a rehash from a new password; `epoch` in
sessions and tokens is a history variable. `SetStatus`, `ChangeHashCost` and
`Tick` are the environment.

`Access` is what this promises: passwords are counted, a session is opened under
the present one only, is over for good when it is over, and none of the sessions
and reset tokens outlives the password it was issued under. `ImplementsAccess`
maps `password` to `epoch`, a session to `OPEN` until it is `Dead` (revoked, idle for too long or of an old
version; a suspension of its user comes and goes) and a token to its state;
reading, rehashing and checking are stutters, and what time ends shows as `End`.

### OrganizationAdministration

One organization. `member` and `invitation` are tables; `token[i]` is the
sequence of the tokens of invitation `i`, whose index is the generation, and
`event[i]` has the event of each. A command is one action whose guard is the
conjunction of the code's refusals in `organizationContext`, `authorizeAdmin`
and the command. `ExpireByAdmin` and `ExpireByAnswer` are the branches that turn
an overdue invitation EXPIRED and then answer with an error. Every time is kept
as the time that is left, so the state space is finite although the clock never
stops. `RevocationAccepted` is the CHECK `outbox_event_state_chk`, which the
second statement of `revokeTokens` may violate: then the command fails.
What a request was told before its transaction is not there, because the code
uses none of it: authorization and change are one step, and `SuspensionFreezes` says
what that step asks, not what may happen between an earlier answer and it.

`Membership` is the same without rows, tokens and clocks: who belongs, who
administers, and which invitations stand. `ImplementsMembership` maps them to the
rows that are ACTIVE and to the invitations that are pending and have time
left, so an invitation lapses when its time is over and not when a command
records it; renewing one and what happens to tokens and events are stutters.

### InvitationOutbox, Outbox

`InvitationOutbox` extends `OrganizationAdministration` with the worker
processes: `Claim` (claimNext), `ReadRow` for each of the five reads of
`Promise.all` in any order with the commands in between, `ReadFails`, `Deliver`
(an error of the transport may come after the mail went out), `Finish` (the
compare-and-set on the lock token), `FinishFails` (the lease was lost, or the
statement failed; the catch block then finishes again as a failure), `Crash`
and `Restart`. `Outbox` is the abstract specification: an event is recorded,
mailed any number of times, its attempts are counted up to the limit, and it is
closed once, as PROCESSED only after its mail went out and as DEAD_LETTER only
after the last attempt. `ImplementsOutbox` is the refinement: `state` is the
status with PENDING and PROCESSING taken for open, `attempt` the column, and what
a worker does without either is a stutter.

### MediaLibrary

The photographs of one property, their cleanup events, and the objects in the
storage. `media`, `event` and `version` are rows; `stored` is the bucket, and
`puts` and `deletes` are the requests to it that are still under way although the
transaction that made them is over: both the transaction and a request may last
15 seconds, so a request can outlive its transaction. API commands are `Intent`,
`Upload` (which writes no row), `Complete`, `Archive` (of a READY photograph),
`Cancel` (the branch of archive for a PENDING upload) and `Reorder`. An event that the
worker takes has one of four outcomes: `CloseEvent`, `CleanUp`, `CleanUpFails`
(the removal threw; the event is put off) and `CleanUpRollsBack` (the removal may
have happened, the rows say it has not). A removal that is not confirmed may have
been done, be on its way or be lost (`Removing`). The branch that puts an event
off because its upload has not run out is left out, and `CleanupIsScheduled`
shows that it is never taken.

`Gallery` is what who looks at the property sees: an ordered collection, its version, and
objects that can be read for good once they were shown. `ImplementsGallery` maps the
collection to the READY rows and its order to their positions.

### Marketplace

One property. `authorization`, `listing`, `area` and `location` are rows; `seen`
is what each user was last told about the location, which is what a client sends
back as `expectedVersion`. A command is one action; each that succeeds first
writes `Expired`, as `expireAuthorizations` does, and one that is refused rolls it
back. The capabilities of `marketplace.policy.ts` are `MayEdit`, `MayAuthorize`
and `MayEditListings`; `MayPublish` is the stricter test of createListing. A patch
is a function on the fields the request names, merged with the row before it is
judged (`AreaFits`, `TermsAgree`) because the schema has CHECK constraints on two
fields together; these constraints are part of the row types, so `MarketTypeOK`
says that no command the code lets pass is aborted by them. Times of
authorizations are what is left until them: a start in the past and one now are
the same. `Authority` leaves out rows, times and the recording of ends: who owns the
property, which grants stand and have begun, and the names listings are published under.
`ImplementsAuthority` maps a grant to an authorization that is ACTIVE and whose end
has not come. Nothing archives a property or moves a listing out of DRAFT, so these
states are not there.

### LockOrder

A transaction is a sequence of statements, `plan`, and a statement a set of rows of
one kind that it locks in the order of their ids (`Select`) or in any order
(`Update`, the `updateMany` of `revokeTokens` and `obsoleteTokenEvents`). `VerifyEmail`,
`Invite`, `Answer`, `OfProperty` and so on are the plans of the commands, translated
from their `FOR UPDATE` statements; commands with the same locks share one.
`Begin` starts any of them with any rows, `Lock` takes one row that is free, `Pass`
goes on where nothing is left to take, `Commit` and `Refuse` end the transaction
and release everything, and `Retry` is the loop of `withSerializableRetry`.
Transactions outside of it (login, getSession, the worker, the rate limits) are in
`RunOnce`. `LOCK_ORDER.md` says that members are locked in one order of UUIDs; the
code locks them organization by organization, and the model does the same
(`UpdateOrganization` takes only the rows of the actor, any number of them): a row is
`<<kind, group, id>>`, ordered by group first. The order is the same for all
commands, which is what counts.

### AuthRateLimit

`row` is the table, one bucket per subject and version of the pepper; a request
counts into a set of buckets. `Consume` is the `INSERT ... ON CONFLICT DO UPDATE`
with its arithmetic (`Counted`, `First`), `Cleanup` the deletion of a batch. Both
work with a clock reading of up to `MaxDelay` in the past (`Clock`), since the code
reads the clock before it waits for the database. `admitted` is a history variable.

### WorkerLoop

`createWorkerLoop` and `startWorker` as callbacks of one thread: `PollNow` is a tick
of the timer, `CleanUp`, `FailToCleanUp` and `EndCycle` are the two stages of a cycle,
`Settle` the `then`/`catch`/`finally` of its promise, `Start` and `FailToStart` the end of
the verification, `Signal` and `Disconnect` the shutdown, which drains the cycle it
found.

### UploadAdmission

`upload` of the controller up to the service: `Admit` takes a slot, `Finish` is the
`finally` that gives it back, `Preflight`, `Data`, `End`, `Abort`, `Timeout` and
`EndUpload` are what may come next. `connected` is the state of the socket, which may
break while nobody listens.

### Instances

The `MC` modules add symmetry sets and constraints. `MCProcesses` puts
`AuthRateLimit`, `WorkerLoop` and `UploadAdmission`, which share nothing, into one
instance: a behaviour is one of one of the three, chosen by `program`.

## Runs

| run | instance | shows |
|---|---|---|
| `AccountSessions` | 1 user, 2 sessions, 2 tokens, lifetimes 2 and 3, clock to 2 | sessions follow the password and the version, their times in order |
| `AccountTokens` | 1 user, 1 session, 3 tokens, lifetimes 2 and 3, clock readings up to 1 old, clock to 2 | one live token, its event, its password; one verification; the abstract accounts |
| `Organization` | 3 people, 3 memberships, 2 invitations, one of them resent once, lifetime 2 | who administers and is a member; invitations, tokens, events and members agree; nothing ended comes back; suspensions count; the abstract membership |
| `OutboxLeases` | 2 workers, 1 event, 2 attempts | leases, and the abstract outbox |
| `OutboxLiveness` | 1 worker, 1 invitation of 2 generations, lifetime 2, 2 attempts, back-off | what is mailed; every event is closed |
| `OutboxWithdrawal` | 1 worker | violated: see Findings |
| `Media` | 2 photographs, lifetime and delay 1, version to 3 | photographs keep object, position and history; every upload ends; the abstract gallery |
| `MediaOrphans` | 1 photograph | violated: see Findings |
| `MarketAuthorizations` | 2 people, 1 organization, 3 authorizations, 1 listing, times to 2 | who owns and is authorized, that grants end once; the abstract authority |
| `MarketContents` | 2 people, 2 areas, 2 instants, 2 locations, 3 versions | partial updates against constraints; location versions |
| `Locks` | 2 requests, 2 users, 2 ids per kind, 1 organization, invitation and property, 2 attempts | no circle of waits; every request is answered |
| `Processes` | 2 buckets, limit 1, window 3, block 5, delay 1, clock to 6; 2 cycles; 3 uploads for 2 slots | limits and blocks hold; the worker stops in order and reaches the invitations; slots are neither lost nor doubled |

Why the bounds are enough. All transactions of `AccountLifecycle` touch the rows
of one user, so a second user adds only interleavings of independent rows; two
sessions and two tokens, or one session and three tokens, contain every pair of
rows that a property relates; two tokens are a verification and a reset, three let a
superseded one be there besides. The clock is bounded by `MaxTime`, at which a session
has idled out, tokens have run out, and one that is read twice meets the cap of its
absolute lifetime. Three members are an administrator, another, and a
third who is promoted, demoted or invited. Two invitations to the same or to
different addresses, each renewed once and with a lifetime of two ticks, so that
a renewal really extends it, contain the races of answers with renewals;
`OneOfEach` keeps TLC from renewing both and from offering the administration twice.
In the outbox only two workers can
contend for an event; the constraint `WorkersOnly` holds the role that is offered and the account of the
administrator fixed there, which no step of the worker reads.
Two photographs are what a position, an order or the limit relates (three were clean too, in a run
too long to keep); each has both of its events, and one tick
separates due from not due. Three authorizations are the owner's and two that
duplicate, replace or outlast each other, personal or through the organization;
a horizon of 2 lets one be scheduled and run out after it began. `MarketContents`
needs no organization and no time, because content and permission do not depend on
each other; two values of each field are enough to be in and out of order.
In `Locks` two requests are the smallest circle; more are in the theorem.
The constraint `Few` puts one of them on user 1 and leaves the other to the same person or the
other one, so two commands of one person and two of different people both run, next to those
that lock both people or none; with different people the rows behind the users
(organizations, members, invitations, properties, authorizations) are locked side by side.
What it cuts off is a choice of row: a command that takes a single session, member, listing
or event of a photograph takes row 1 of it, the first request takes row 1 of the events of
invitations and of the buckets, and only the other request is tried again. There is one
organization, invitation and property, so the order among several of them is left to the theorem,
which has none of these bounds. Two buckets
are what a request counts into together; a window is longer than the delay, a
block outlasts its window (the rows that are kept longest), and the clock goes far enough for a window
to end and another to begin within a span. Three uploads are one more than there are
slots. Two promises are enough for a cycle and its successor.
`MaxVersion` bounds the versions and `Horizon` the times of a grant.
`MaxGeneration` bounds the tokens of an invitation or user, `MaxAttempts` and the
lease and back-off are smaller than in the code (5, 300 s, 30 s and doubling).

No run repeats a type invariant that is proved, except `MarketTypeOK`, which has the
CHECK constraints of the schema in it. `Processes` runs without the deadlock check
because a worker that has disconnected and a clock at its bound really stop.

Each property is also shown to be able to fail: the modules contain variants of
some definitions, marked "Mistaken variant", each the way a plausible bug would
make it, and PROJECT.json pairs every property of a passing run with one.

## Fairness

Four runs need it. `OutboxLiveness`: a worker polls for ever and each of its calls
returns (weak fairness of `Process` and of `Restart`); the claim query orders by
`available_at` and a retry moves an event back, so an event that stays due is
taken (weak fairness of `Claim` for each event); time passes. Commands of people
are never assumed to happen. `EventsAreClosed` promises nothing while workers go
on dying or outlasting their leases: in the code an event whose claim ends in a
crash is claimed again without limit.

`Media`: time passes (weak fairness of `Tick`), a due event with nothing to clean
is closed (weak fairness of `CloseEvent`), and a removal that is tried again and
again succeeds in the end (strong fairness of `CleanUp`). The first two are the
worker's polling and its order by `available_at`, with an event that failed put
behind the others. The third is an assumption about the storage, that it is not
down each time: a removal that hangs longer than its transaction rolls back and
leaves the event at the head of the queue, so while the storage hangs nothing
moves, and no fairness of the code helps.

`Locks`: PostgreSQL queues those who wait for a row, so who waits again and again
gets it in turn (strong fairness of `Advance`), and a handler that has its rows
returns (weak fairness of `Commit`; the transactions of the code also have time-outs).
Nobody has to refuse or to be tried again.

`Processes`: the timer of the worker ticks, what a cycle calls returns or throws, the
verification ends, a settled promise goes on (weak fairness of each); the calls of the
media service return and the 15 second timer fires. Signals and clients owe nothing.

## Findings

**`OutboxWithdrawal`.** `revokeTokens` turns the PENDING event of a revoked token
OBSOLETE and leaves `last_error_code`, which the constraint
`outbox_event_state_chk` forbids. After a failed delivery, and until the next
attempt is claimed, resending or revoking the invitation, or answering it when
it is overdue, therefore fails with 503. The run reaches such a state in five
steps. In the other models this is part of the behaviour: the command is refused.

**`MediaOrphans`.** `docs/C1-MEDIA-API.md:99-100` says that a failure between S3
and the commit leaves only the object of a PENDING upload, which waits for its
cleanup. A put that outlives its transaction may reach the storage after that
cleanup: the run ends with an object whose upload is EXPIRED and cleaned, and no
event is left that would remove it. It is never visible, but it stays.

## Proofs

TLC checks small instances; the theorems below hold for every value of the
constants that satisfies the module's assumptions (`TtlAssumption`,
`BoundAssumption`, `MediaAssumption`, `MarketAssumption`, `PolicyAssumption`,
`UploadAssumption`, `NoTaskAssumption`, `NoInvitationAssumption`, `AttemptsAssumption`: lifetimes are positive
numbers, bounds are numbers, people are not organizations, "none" is not an id, connections are finitely many;
`IdsAreNumbers` and `IdsAreBounded`: ids are natural numbers with a greatest one, which
stands for any finite set in its order). Each proof module
extends the module it is about; facts of the shape "this action does this to
every row" are lemmas, and the step of an invariant is split by action.

| module | proved | by |
|---|---|---|
| `AccountLifecycleProofs` | `TypeOK`; `SessionsFollowPassword`, `NoLiveSessionIsStale`, `OneLiveToken`, `EventsFollowTokens`, `ResetTokensFollowPassword`, `VerifiedByOneToken`, `SessionTimesOrdered`; the action properties `DeadSessionsStayDead` and `RowsKeepTheirBounds`; the refinement `ImplementsAccess` | `TypeOK`, then the inductive `IInv`; `RefInv` for the refinement |
| `OrganizationProofs` | `OrgTypeOK`, `AlwaysAnAdmin`, `OneActiveMembership` | each inductive with `OrgTypeOK` |
| `InvitationProofs` | `AnswersAgree`, `PendingCanBeAnswered`, `OnePendingInvitation`; the action properties `EndedStaysEnded`, `JoiningIsInvited`, `SuspensionFreezes`; the refinement `ImplementsMembership` | the inductive `InvitationsAgree`, a statement about each invitation alone |
| `OutboxProofs` | `OutboxTypeOK`, `MailIsForUsableTokens`; the action property `LeasesAreRespected`; the refinement `ImplementsOutbox`; `ImplementsMembership` once more, with the workers running | the inductive `OutboxInv`, and `OrganizationInv` |
| `MediaProofs` | `MediaTypeOK`, `ConfirmedKeepObject`, `CleanupIsScheduled`, `PositionsDistinct`; the action properties `VersionTracksCollection`, `HistoryIsKept`; the refinement `ImplementsGallery` | the inductive `MediaInv`, a statement about each photograph alone |
| `MarketplaceProofs` | `MarketTypeOK`, `OwnerRemains`, `OneActiveGrant`, `PublishersWereAuthorized`, `VersionsNameLocations`; the action property `AuthorizationsEndOnce`; the refinement `ImplementsAuthority` | `MarketTypeOK` and `RowsStep`, what a step makes of an authorization |
| `LockOrderProofs` | `NoDeadlock` | `IInv` there: the types, which say that every plan is well ordered, and how far each request has got |
| `ProcessProofs` | `StopsInOrder`; `SlotsMatchUploads`; `BlocksAreRemembered`, `AttemptsAreLimited`; their types | `LoopInv`, `UploadInv`, `RateInv`, `LimitInv` |

**`IInv`** (AccountLifecycle) is `TypeOK /\ CandidatesFollowCredential /\
AbsentUsersOwnNothing /\ LiveSessionsAreCurrent /\ OneLiveToken /\
EventsFollowTokens /\ ResetTokensFollowPassword /\ VerifiedByOneToken`. That
live sessions follow the password is not inductive alone: a login uses a
candidate that was computed any time ago, so one has to know that a candidate
whose hash is still the present one was checked against the present password
(`CandidatesFollowCredential`), and that a registration finds no session left
from before (`AbsentUsersOwnNothing`). `LiveSessionsAreCurrent` ties version and
password together, since a reset replaces both and a rehash neither.

**`MediaInv`** says of each photograph, besides its type, that a confirmed one
is in the storage with no removal under way, that removals under way are of
uploads that are over (so they cannot be completed again), that a pending upload
has its event, which is not due before the upload runs out, and that what is not
cleaned has an event to come. `ConfirmedKeepObject` needs all of these: a late
removal is harmless only because the tests under lock make "over" final.

**`HasOwner`** (Marketplace) strengthens "somebody may authorize" to "there is an
active OWNER authorization of a person that has begun and has no end": only such a
row survives both `expireAuthorizations`, which looks at the end, and
`revokeAuthorization`, which looks at the type.

Four abstract specifications say what a component promises to those who know
nothing of its rows, and the theorems `AccessIsImplemented`, `MembershipIsImplemented`,
`GalleryIsImplemented` and `AuthorityIsImplemented` that its commands implement them.
Each proof has a lemma per command, which says what the command makes of the mapped
state, and one that puts them together.

* `ImplementsAccess` needs `RefInv`, which is `IInv` and that whoever has an
  account has had a password (`UsersHavePasswords`), which is how the abstract
  specification tells an account from none. Expiry writes no row, hence it
  shows as `End` at the tick at which it happens and not when somebody reads the
  session; the tests of `Usable` are what makes a dead session stay dead although
  its row still says it lives.
* `ImplementsMembership` needs that an address has one pending invitation and a
  person one membership: without these, withdrawing a row would leave its double
  standing. That renewing an invitation is a stutter, and that an overdue one cannot be
  renewed, is why an invitation that lapsed stays lapsed. `MembershipNextToWorkers` is
  the same for the behaviours of `InvitationOutbox`; `OrganizationInv` is what the
  workers may not disturb.
* `ImplementsGallery` follows from `MediaInv` and `PositionsDistinct`, without
  which the positions would be no order; what is not yet or no longer visible
  (uploads, cleanups, failures, late requests) shows at most as `Store`.
* `ImplementsAuthority` needs `OneActiveGrant`. An authorization that is overdue is
  none for the abstract specification, whether or not a command has recorded it
  (`ExpiryIsInvisible`), so the end of a grant is a matter of time only, and the commands
  that write `Expired` besides their own change show their own change alone.

Proved and checked by no run: `RowsKeepTheirBounds`; and `DeadSessionsStayDead`,
`VersionTracksCollection`, `JoiningIsInvited` and `PublishersWereAuthorized`, each of which is part
of what the refinement of its component says, so that the runs check the refinement.

**`NoDeadlock`** (LockOrder). Every plan goes through the kinds of rows in one order
and through the rows of a kind in the order of group and id, with one exception:
an `updateMany` takes its rows unsorted. But before it the transaction has locked a row
on which all who take such rows must wait (the user of the tokens, the invitation of the
events), or it takes them alone. The invariant says that what a running request holds
is of the statements it has come to, that of those before it has every row and within
one that sorts the smaller ones, and that a row has one holder. In a circle
consider the requested row that comes last in the order: its holder waits for a row
further on, which is a contradiction, or both are at an unsorted statement of the same group, and
then both hold its guard.

**`LoopInv`** adds to the types that a cycle is in progress exactly when it is the
`activeTask`, and that a shutdown drains the one that was active and starts none.
**`UploadInv`** adds that the uploads are finitely many, so that the counter can be
compared with a cardinality. **`RateInv`** adds that no row expires before its block:
without that the cleanup could forget one. **`LimitInv`** adds for each bucket where its
window began (`Began`): what was let through after that moment is in the count of the row,
and what was let through less than `Window - MaxDelay` before it belongs to this window or the
last one, since windows begin at least so far apart. A bucket that has been deleted is
`Quiet`: its window was over, and no two windows begin that close. From both follows that
no stretch of `Window - MaxDelay` sees more than two limits, which the clock readings that are
late make the best there is. The sum over a window is the cardinality of a set of pairs
(moment, number), so that it needs no fold.

**`InvitationsAgree`** says of each invitation how its status, its tokens and its
events fit together: as many events as tokens, all tokens but the latest revoked, the
latest one live and running out with the invitation while it is pending, consumed when
it was answered. The commands are first reduced to what they make of one invitation
(`RowsStep`: kept, made, overdue, renewed, withdrawn, answered, missed, aged), so that
the step has eight cases and not one per command and row. `MembersAgree` adds that a
membership belongs to an accepted invitation and the other way round, `DroppedAgree` that an
event the commands closed belongs to a revoked token. The latter holds of the commands alone:
next to the worker an event may also be `OBSOLETE` for a suspension.

**`OutboxInv`** adds to `InvitationsAgree`, which the worker leaves alone, what a busy worker may rely
on: its event is there and has counted its attempt (so `DEAD_LETTER` needs the last one),
what it reports as sent is mailed, and as long as all it has read suits, the token was
usable at the first read or something it still has to read is wrong and stays wrong
(`FaultsLast`). The last is why five reads at five moments are enough. A suspension is
the one fault that may pass, and does not concern the token. For `ImplementsOutbox` a
command and a finish map to `Write`, a claim to `TakeUp` or, when the count is at its limit, to a stutter,
a delivery to `Mail` or a stutter, and everything else to a stutter.

Only model-checked: liveness (`EventsAreClosed`, `UploadsEnd`, `RequestsAreAnswered`,
`InvitationsAreReached`, `SlotsAreFreed`), which the prover does not reach. All other properties
of the passing runs are theorems.

## Not modelled, and why

* CSRF, origins, cookies, token authenticators, input parsing: they
  only refuse a request, which each model allows because no action has to happen.
  They keep no state between requests.
* Configuration (`packages/config`): read once when a process starts. Rotation of the
  pepper and the keys is a restart with other values, after which old buckets and
  tokens are simply not found.
* Argon2, image decoding, formats of identifiers: pure functions of data. Of the
  password engine only what decides a step is in `AccountLifecycle`: which hash a
  candidate was checked against, and whether it needs a rehash.
* Audit events: written, never read.
* Events that do not fit their invitation (`INVALID_EVENT`): no code writes one.
* `OrganizationsService.updateName` writes a column nothing decides on; its locks are in
  `LockOrder`.
* Reads (lists, DTOs): they change nothing; `ReadLocation` is modelled because
  the version it returns decides a later write.
* Waits other than for a row: `LockOrder` leaves out the wait of an INSERT for another
  transaction that inserts the same unique key, and predicate locks, which never wait.
* The timer of the rate-limit cleanup, and shutdown steps that fail (closing the
  storage, disconnecting the client): the process ends either way.
* The web page, the scripts of the database and the storage, and the schema's
  constraints that no command can come near. The CHECKs and unique indexes that
  commands rely on are in the types and guards, as said above.

## Plan

1. (done) `AccountLifecycle`, `OrganizationAdministration`, `InvitationOutbox`
   with `Outbox`, `MediaLibrary`, `Marketplace`; then `LockOrder`, `AuthRateLimit`,
   `WorkerLoop` and `UploadAdmission`; and the proofs above.
2. (done) The proofs of `InvitationProofs` and `OutboxProofs`; the abstract specifications
   `Access`, `Membership`, `Gallery` and `Authority` and the proofs that the components
   implement them; `AttemptsAreLimited`.
3. What is left of the runs' properties is liveness, which is out of the prover's reach.
   Next: abstract specifications of the locks (transactions one at a time per row), of the
   rate limits and of the worker's shutdown, and proofs that their modules implement them.
