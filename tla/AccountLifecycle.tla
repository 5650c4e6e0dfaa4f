--------------------------- MODULE AccountLifecycle ---------------------------
(***************************************************************************)
(* Accounts, passwords, sessions and account tokens of the API             *)
(* (apps/api/src/auth: auth.service.ts and account-lifecycle.service.ts).  *)
(*                                                                         *)
(* Every handler ends in one Serializable transaction that locks the rows  *)
(* of a single user and re-reads what it decides on, so a transaction is   *)
(* one action.  What a handler learns before its transaction and uses      *)
(* inside it is kept apart: `candidates' holds every credential that some  *)
(* request has checked a password against.  A candidate is never removed,  *)
(* because the request that holds it may commit at any later time, may be  *)
(* repeated by another client, or may never commit.  Session and token     *)
(* rows looked up before a transaction contribute only columns that no     *)
(* code changes (the owner, the issued version), hence leave no candidate. *)
(*                                                                         *)
(* Rate limits, CSRF, cookie and token authenticators are left out: they   *)
(* only make a request fail, and any request may fail with no effect.      *)
(***************************************************************************)
EXTENDS Naturals

CONSTANTS
  User,             \* e-mail addresses, registered or not
  SessionId,        \* selectors of sessions, each used once
  TokenId,          \* selectors of account tokens, each used once
  IdleTtl,          \* sessionIdleTtlSeconds, in clock ticks
  AbsoluteTtl,      \* sessionAbsoluteTtlSeconds
  WriteInterval,    \* sessionLastSeenWriteIntervalSeconds
  VerificationTtl,  \* emailVerificationTtlSeconds
  ResetTtl,         \* passwordResetTtlSeconds
  MaxDelay,         \* how old the API clock reading of a transaction may be
  MaxGeneration,    \* bound on the generations of a token
  MaxTime           \* bound on the clock

ASSUME TtlAssumption ==
  /\ {IdleTtl, AbsoluteTtl, VerificationTtl, ResetTtl} \subseteq Nat \ {0}
  /\ {WriteInterval, MaxDelay, MaxGeneration, MaxTime} \subseteq Nat

VARIABLES
  now,         \* the clock
  user,        \* rows of "user"
  credential,  \* rows of "password_credential"
  session,     \* rows of "session"
  token,       \* rows of "account_token", each with its outbox event
  candidates   \* credentials that requests have checked passwords against

vars == <<now, user, credential, session, token, candidates>>

Purpose == {"EMAIL_VERIFICATION", "PASSWORD_RESET"}

(***************************************************************************)
(* The rows.  `hash' stands for the PHC string: a fresh salt makes every   *)
(* new hash differ from the earlier ones of the user, so it is a serial    *)
(* number.  `epoch' is not stored by the program: it counts the passwords  *)
(* the user has had, so that a rehash (new hash, same password) can be     *)
(* told from a new password.  Sessions and tokens remember the epoch they  *)
(* were created under.                                                     *)
(***************************************************************************)
UserRow == [status: {"ABSENT", "ACTIVE", "SUSPENDED"},
            email: {"UNVERIFIED", "VERIFIED"}, version: Nat]
Credential == [hash: Nat, epoch: Nat, params: {"CURRENT", "OUTDATED"}]
Candidate == [user: User, hash: Nat, epoch: Nat, params: {"CURRENT", "OUTDATED"}]

FreeSession == [state |-> "FREE"]
SessionRow == [state: {"LIVE", "REVOKED"}, user: User, issued: Nat, epoch: Nat,
               active: Nat, idle: Nat, absolute: Nat]

FreeToken == [state |-> "FREE"]
TokenRow == [state: {"LIVE", "CONSUMED", "REVOKED"}, user: User, purpose: Purpose,
             generation: Nat, expires: Nat, epoch: Nat, event: {"PENDING", "OBSOLETE"}]

TypeOK ==
  /\ now \in Nat
  /\ user \in [User -> UserRow]
  /\ credential \in [User -> Credential]
  /\ session \in [SessionId -> SessionRow \cup {FreeSession}]
  /\ token \in [TokenId -> TokenRow \cup {FreeToken}]
  /\ candidates \subseteq Candidate

Init ==
  /\ now = 0
  /\ user = [u \in User |-> [status |-> "ABSENT", email |-> "UNVERIFIED", version |-> 1]]
  /\ credential = [u \in User |-> [hash |-> 0, epoch |-> 0, params |-> "CURRENT"]]
  /\ session = [s \in SessionId |-> FreeSession]
  /\ token = [t \in TokenId |-> FreeToken]
  /\ candidates = {}

-----------------------------------------------------------------------------
(* What the handlers compute from the rows *)

MinOf(a, b) == IF a <= b THEN a ELSE b

\* Clock readings a transaction that commits now may work with: some handlers
\* read the API clock before they open the transaction.
Reading == {t \in 0 .. now : now <= t + MaxDelay}

\* Mistaken variant: the idle expiry is left to the cookie.
UsableWhenIdle(s) ==
  /\ session[s].state = "LIVE"
  /\ session[s].absolute > now
  /\ session[s].issued = user[session[s].user].version
  /\ user[session[s].user].status = "ACTIVE"
  /\ user[session[s].user].email = "VERIFIED"

\* A session that authenticates a request: the condition getSession,
\* authenticate, revalidateSession and validSession share.
Usable(s) ==
  /\ session[s].state = "LIVE"
  /\ session[s].idle > now
  /\ session[s].absolute > now
  /\ session[s].issued = user[session[s].user].version
  /\ user[session[s].user].status = "ACTIVE"
  /\ user[session[s].user].email = "VERIFIED"

TokensOf(u, p) ==
  {t \in TokenId : token[t].state # "FREE" /\ token[t].user = u /\ token[t].purpose = p}

LiveTokens(u, p) == {t \in TokensOf(u, p) : token[t].state = "LIVE"}

\* latest?.generation === token.generation
IsLatest(t) ==
  \A x \in TokensOf(token[t].user, token[t].purpose) :
    token[x].generation <= token[t].generation

\* (latest?.generation ?? 0) + 1
IsNextGeneration(u, p, g) ==
  /\ \A x \in TokensOf(u, p) : token[x].generation < g
  /\ g = 1 \/ \E x \in TokensOf(u, p) : token[x].generation + 1 = g

\* Mistaken variant: the mail of the revoked tokens is not withdrawn.
RevokedOnly(S) ==
  [t \in TokenId |-> IF t \in S THEN [token[t] EXCEPT !.state = "REVOKED"] ELSE token[t]]

\* revokeOtherTokens followed by obsoleteTokenEvents of the revoked ones.  The
\* events of account tokens are never claimed by a worker, so PENDING is the
\* only status the second statement of obsoleteTokenEvents can find.
Superseded(S) ==
  [t \in TokenId |->
     IF t \in S THEN [token[t] EXCEPT !.state = "REVOKED", !.event = "OBSOLETE"]
                ELSE token[t]]

\* session.updateMany of every unrevoked session of u
AllRevoked(u) ==
  [s \in SessionId |->
     IF session[s].state = "LIVE" /\ session[s].user = u
       THEN [session[s] EXCEPT !.state = "REVOKED"]
       ELSE session[s]]

\* passwordCredential.update with the hash of a new password
NewPassword(u) ==
  [credential EXCEPT ![u] = [hash |-> @.hash + 1, epoch |-> @.epoch + 1, params |-> "CURRENT"]]

NewToken(u, p, g, expires, epoch) ==
  [state |-> "LIVE", user |-> u, purpose |-> p, generation |-> g,
   expires |-> expires, epoch |-> epoch, event |-> "PENDING"]

Ttl(p) == IF p = "EMAIL_VERIFICATION" THEN VerificationTtl ELSE ResetTtl

-----------------------------------------------------------------------------
(* Registration and account tokens *)

\* An address that exists already, found by the read or by the unique index,
\* leaves the database as it was.
Register(u, t) ==
  /\ user[u].status = "ABSENT"
  /\ token[t].state = "FREE"
  /\ user' = [user EXCEPT ![u].status = "ACTIVE"]
  /\ credential' = NewPassword(u)
  /\ \E at \in Reading :
       token' = [token EXCEPT ![t] =
                   NewToken(u, "EMAIL_VERIFICATION", 1, at + VerificationTtl, 1)]
  /\ UNCHANGED <<now, session, candidates>>

\* Mistaken variant: the token is not consumed.
VerifyEmailReusable(t) ==
  /\ token[t].state = "LIVE"
  /\ token[t].purpose = "EMAIL_VERIFICATION"
  /\ token[t].expires > now
  /\ IsLatest(t)
  /\ user[token[t].user].status = "ACTIVE"
  /\ user[token[t].user].email = "UNVERIFIED"
  /\ user' = [user EXCEPT ![token[t].user].email = "VERIFIED"]
  /\ UNCHANGED <<now, credential, session, token, candidates>>

\* The clock is read before the transaction, but not before the token existed:
\* its holder had received it.
VerifyEmail(t) ==
  LET u == token[t].user IN
  /\ token[t].state = "LIVE"
  /\ token[t].purpose = "EMAIL_VERIFICATION"
  /\ \E at \in Reading : token[t].expires > at /\ token[t].expires <= at + VerificationTtl
  /\ IsLatest(t)
  /\ user[u].status = "ACTIVE"
  /\ user[u].email = "UNVERIFIED"
  /\ user' = [user EXCEPT ![u].email = "VERIFIED"]
  /\ token' = [x \in TokenId |->
                 IF x = t THEN [token[x] EXCEPT !.state = "CONSUMED"]
                 ELSE IF /\ x \in LiveTokens(u, "EMAIL_VERIFICATION")
                         /\ token[x].generation < token[t].generation
                   THEN [token[x] EXCEPT !.state = "REVOKED"]
                   ELSE token[x]]
  /\ UNCHANGED <<now, credential, session, candidates>>

\* requestAccountToken, for resendVerification and forgotPassword
Eligible(u, p) ==
  /\ user[u].status = "ACTIVE"
  /\ user[u].email = IF p = "EMAIL_VERIFICATION" THEN "UNVERIFIED" ELSE "VERIFIED"

\* Mistaken variant: the tokens before the new one stay live.
RequestTokenBesides(u, p, t) ==
  /\ Eligible(u, p)
  /\ token[t].state = "FREE"
  /\ \E g \in 1 .. MaxGeneration :
       /\ IsNextGeneration(u, p, g)
       /\ token' = [token EXCEPT ![t] =
                      NewToken(u, p, g, now + Ttl(p), credential[u].epoch)]
  /\ UNCHANGED <<now, user, credential, session, candidates>>

RequestToken(u, p, t) ==
  /\ Eligible(u, p)
  /\ token[t].state = "FREE"
  /\ \E g \in 1 .. MaxGeneration :
       /\ IsNextGeneration(u, p, g)
       /\ token' = [Superseded(LiveTokens(u, p)) EXCEPT ![t] =
                      NewToken(u, p, g, now + Ttl(p), credential[u].epoch)]
  /\ UNCHANGED <<now, user, credential, session, candidates>>

ResetPassword(t) ==
  LET u == token[t].user IN
  /\ token[t].state = "LIVE"
  /\ token[t].purpose = "PASSWORD_RESET"
  /\ token[t].expires > now
  /\ IsLatest(t)
  /\ user[u].status = "ACTIVE"
  /\ user[u].email = "VERIFIED"
  /\ token' = [Superseded(LiveTokens(u, "PASSWORD_RESET") \ {t})
                 EXCEPT ![t].state = "CONSUMED"]
  /\ credential' = NewPassword(u)
  /\ user' = [user EXCEPT ![u].version = @ + 1]
  /\ session' = AllRevoked(u)
  /\ UNCHANGED <<now, candidates>>

-----------------------------------------------------------------------------
(* Passwords and sessions *)

\* The credential is read and the password checked against it outside of any
\* transaction (verifyForLogin); the right password makes a candidate.  That
\* login also asks for the status there is left out: the transaction asks again.
CheckPassword(u) ==
  /\ user[u].status # "ABSENT"
  /\ candidates' = candidates \cup
       {[user |-> u, hash |-> credential[u].hash, epoch |-> credential[u].epoch,
         params |-> credential[u].params]}
  /\ UNCHANGED <<now, user, credential, session, token>>

\* Mistaken variant: the stored hash is not compared again under lock.
WasCurrent(c) == credential[c.user].hash >= c.hash

\* The hash re-read under lock is the one the password was checked against.
StillCurrent(c) == credential[c.user].hash = c.hash

Login(c, s) ==
  /\ session[s].state = "FREE"
  /\ user[c.user].status = "ACTIVE"
  /\ user[c.user].email = "VERIFIED"
  /\ StillCurrent(c)
  /\ credential' = IF c.params = "OUTDATED"
                     THEN [credential EXCEPT ![c.user].hash = @ + 1,
                                             ![c.user].params = "CURRENT"]
                     ELSE credential
  /\ \E at \in Reading :
       session' = [session EXCEPT ![s] =
                     [state |-> "LIVE", user |-> c.user,
                      issued |-> user[c.user].version, epoch |-> c.epoch,
                      active |-> at,
                      idle |-> MinOf(at + IdleTtl, at + AbsoluteTtl),
                      absolute |-> at + AbsoluteTtl]]
  /\ UNCHANGED <<now, user, token, candidates>>

\* Mistaken variant: the idle expiry may pass the absolute one.
GetSessionUncapped(s) ==
  /\ Usable(s)
  /\ session[s].active + WriteInterval <= now
  /\ session' = [session EXCEPT ![s].active = now, ![s].idle = now + IdleTtl]
  /\ UNCHANGED <<now, user, credential, token, candidates>>

\* Reading a session postpones its idle expiry, at most once per interval.
GetSession(s) ==
  /\ Usable(s)
  /\ session[s].active + WriteInterval <= now
  /\ session' = [session EXCEPT
                   ![s].active = now,
                   ![s].idle = MinOf(now + IdleTtl, session[s].absolute)]
  /\ UNCHANGED <<now, user, credential, token, candidates>>

Logout(s) ==
  /\ Usable(s)
  /\ session' = [session EXCEPT ![s].state = "REVOKED"]
  /\ UNCHANGED <<now, user, credential, token, candidates>>

\* Mistaken variant: only the session of the request is revoked.
LogoutOne(s) ==
  /\ Usable(s)
  /\ user' = [user EXCEPT ![session[s].user].version = @ + 1]
  /\ session' = [session EXCEPT ![s].state = "REVOKED"]
  /\ UNCHANGED <<now, credential, token, candidates>>

LogoutAll(s) ==
  /\ Usable(s)
  /\ user' = [user EXCEPT ![session[s].user].version = @ + 1]
  /\ session' = AllRevoked(session[s].user)
  /\ UNCHANGED <<now, credential, token, candidates>>

\* Mistaken variant: reset tokens survive the change.
ChangePasswordOnly(c, s) ==
  /\ Usable(s)
  /\ session[s].user = c.user
  /\ StillCurrent(c)
  /\ credential' = NewPassword(c.user)
  /\ user' = [user EXCEPT ![c.user].version = @ + 1]
  /\ session' = AllRevoked(c.user)
  /\ UNCHANGED <<now, token, candidates>>

ChangePassword(c, s) ==
  /\ Usable(s)
  /\ session[s].user = c.user
  /\ StillCurrent(c)
  /\ credential' = NewPassword(c.user)
  /\ user' = [user EXCEPT ![c.user].version = @ + 1]
  /\ session' = AllRevoked(c.user)
  /\ token' = Superseded(LiveTokens(c.user, "PASSWORD_RESET"))
  /\ UNCHANGED <<now, candidates>>

-----------------------------------------------------------------------------
(* The environment *)

\* No code of the repository suspends or reinstates a user: an operator does.
SetStatus(u) ==
  /\ \/ /\ user[u].status = "ACTIVE"
        /\ user' = [user EXCEPT ![u].status = "SUSPENDED"]
     \/ /\ user[u].status = "SUSPENDED"
        /\ user' = [user EXCEPT ![u].status = "ACTIVE"]
  /\ UNCHANGED <<now, credential, session, token, candidates>>

\* A deployment with other Argon2 parameters makes stored hashes outdated.
ChangeHashCost ==
  /\ credential' = [u \in User |-> [credential[u] EXCEPT !.params = "OUTDATED"]]
  /\ UNCHANGED <<now, user, session, token, candidates>>

Tick ==
  /\ now < MaxTime
  /\ now' = now + 1
  /\ UNCHANGED <<user, credential, session, token, candidates>>

Next ==
  \/ \E u \in User, t \in TokenId : Register(u, t)
  \/ \E t \in TokenId : VerifyEmail(t)
  \/ \E u \in User, p \in Purpose, t \in TokenId : RequestToken(u, p, t)
  \/ \E t \in TokenId : ResetPassword(t)
  \/ \E u \in User : CheckPassword(u)
  \/ \E c \in candidates, s \in SessionId : Login(c, s)
  \/ \E s \in SessionId : GetSession(s)
  \/ \E s \in SessionId : Logout(s)
  \/ \E s \in SessionId : LogoutAll(s)
  \/ \E c \in candidates, s \in SessionId : ChangePassword(c, s)
  \/ \E u \in User : SetStatus(u)
  \/ ChangeHashCost
  \/ Tick

Spec == Init /\ [][Next]_vars

-----------------------------------------------------------------------------
(* Properties *)

\* A session that still carries the current version was opened with the
\* password the user has now, whatever logins, rehashes, resets and changes
\* were in flight together (login compares the hash again under lock).
SessionsFollowPassword ==
  \A s \in SessionId :
    session[s].state = "LIVE" /\ session[s].issued = user[session[s].user].version
      => session[s].epoch = credential[session[s].user].epoch

\* Raising the version and revoking the rows always go together: no row is
\* left unrevoked under a version that is no longer the user's.
NoLiveSessionIsStale ==
  \A s \in SessionId :
    session[s].state = "LIVE" => session[s].issued = user[session[s].user].version

\* Of a user's tokens for one purpose at most one can still be used, and it is
\* the newest: an older mail never works after a newer one was asked for.
OneLiveToken ==
  \A t \in TokenId : token[t].state = "LIVE" =>
    \A x \in TokensOf(token[t].user, token[t].purpose) \ {t} :
      token[x].state # "LIVE" /\ token[x].generation < token[t].generation

\* The outbox never offers mail for a superseded token and never drops the
\* mail of one that is live or was used.  (verifyEmail revokes older tokens
\* without touching their events, which is right only if there are none.)
EventsFollowTokens ==
  \A t \in TokenId : token[t].state # "FREE" =>
    (token[t].event = "OBSOLETE" <=> token[t].state = "REVOKED")

\* A reset token asked for under an earlier password is dead: neither a reset
\* nor a change of the password leaves one that could replace the new password.
ResetTokensFollowPassword ==
  \A t \in TokenId :
    token[t].state = "LIVE" /\ token[t].purpose = "PASSWORD_RESET"
      => token[t].epoch = credential[token[t].user].epoch

\* An address is verified exactly when a verification token was consumed, and
\* then every other verification token of the user is revoked.
VerifiedByOneToken ==
  \A u \in User :
    LET tokens == TokensOf(u, "EMAIL_VERIFICATION") IN
    /\ user[u].email = "VERIFIED" <=> \E t \in tokens : token[t].state = "CONSUMED"
    /\ \A t \in tokens : token[t].state = "CONSUMED" =>
         \A x \in tokens \ {t} : token[x].state = "REVOKED"

\* The order of times the CHECK session_time_order_chk demands; a row that
\* broke it would make the read of a valid session fail.
SessionTimesOrdered ==
  \A s \in SessionId : session[s].state # "FREE" =>
    session[s].active <= session[s].idle /\ session[s].idle <= session[s].absolute

\* A session that has been revoked, has expired or was issued under an older
\* version stays dead: in particular no read of it, however late, revives it.
Dead(s) ==
  /\ session[s].state # "FREE"
  /\ \/ session[s].state = "REVOKED"
     \/ session[s].idle <= now
     \/ session[s].issued # user[session[s].user].version
DeadSessionsStayDead ==
  [][\A s \in SessionId : Dead(s) => Dead(s)']_vars

\* What bounds a session and what a token stands for is fixed at creation, and
\* a token that was consumed or revoked is never used again.
RowsKeepTheirBounds ==
  [][/\ \A s \in SessionId : session[s].state # "FREE" =>
          /\ session'[s].user = session[s].user
          /\ session'[s].absolute = session[s].absolute
     /\ \A t \in TokenId : token[t].state # "FREE" =>
          /\ token'[t].expires = token[t].expires
          /\ token[t].state # "LIVE" => token'[t].state = token[t].state]_vars

-----------------------------------------------------------------------------
(* What accounts promise: Access *)

\* A session is open until it is dead, also while its user is suspended.
AccessOf(s) ==
  IF session[s].state = "FREE" THEN [state |-> "NONE"]
  ELSE [state |-> IF Dead(s) THEN "OVER" ELSE "OPEN",
        user |-> session[s].user, password |-> session[s].epoch]

TokenOf(t) ==
  IF token[t].state = "FREE" THEN [state |-> "NONE"]
  ELSE [state |-> token[t].state, user |-> token[t].user,
        purpose |-> token[t].purpose, password |-> token[t].epoch]

Abstract == INSTANCE Access WITH
  password <- [u \in User |-> credential[u].epoch],
  verified <- {u \in User : user[u].email = "VERIFIED"},
  session <- [s \in SessionId |-> AccessOf(s)],
  token <- [t \in TokenId |-> TokenOf(t)]

\* Whatever requests overlap, however late they commit and whatever clock they
\* read, every step of the handlers is one of Access or changes nothing there:
\* sessions open under the present password only, what is over stays over, and
\* a new password leaves no session and no reset token of the old one.
ImplementsAccess == Abstract!Spec
=============================================================================
