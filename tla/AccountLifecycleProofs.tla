------------------------ MODULE AccountLifecycleProofs ------------------------
(***************************************************************************)
(* Type correctness and the safety invariants of AccountLifecycle, for any *)
(* users, selectors, lifetimes and bounds.                                 *)
(***************************************************************************)
EXTENDS AccountLifecycle, TLAPS

(***************************************************************************)
(* Type correctness.                                                       *)
(***************************************************************************)
LEMMA SupersededType ==
  ASSUME TypeOK, NEW u, NEW p, NEW S \in SUBSET LiveTokens(u, p)
  PROVE  Superseded(S) \in [TokenId -> TokenRow \cup {FreeToken}]
<1> SUFFICES ASSUME NEW t \in TokenId
             PROVE  (IF t \in S THEN [token[t] EXCEPT !.state = "REVOKED", !.event = "OBSOLETE"]
                                ELSE token[t]) \in TokenRow \cup {FreeToken}
  BY DEF Superseded
<1>1. CASE t \in S
  <2>1. token[t] \in TokenRow
    BY <1>1 DEF TypeOK, LiveTokens, TokensOf, FreeToken
  <2>2. QED
    BY <1>1, <2>1 DEF TokenRow
<1>2. CASE t \notin S
  BY <1>2 DEF TypeOK
<1>3. QED
  BY <1>1, <1>2

LEMMA AllRevokedType ==
  ASSUME TypeOK, NEW u
  PROVE  AllRevoked(u) \in [SessionId -> SessionRow \cup {FreeSession}]
<1> SUFFICES ASSUME NEW s \in SessionId
             PROVE  (IF session[s].state = "LIVE" /\ session[s].user = u
                       THEN [session[s] EXCEPT !.state = "REVOKED"]
                       ELSE session[s]) \in SessionRow \cup {FreeSession}
  BY DEF AllRevoked
<1>1. CASE session[s].state = "LIVE"
  <2>1. session[s] \in SessionRow
    BY <1>1 DEF TypeOK, FreeSession
  <2>2. QED
    BY <2>1 DEF SessionRow
<1>2. CASE session[s].state # "LIVE"
  BY <1>2 DEF TypeOK
<1>3. QED
  BY <1>1, <1>2

LEMMA NewPasswordType ==
  ASSUME TypeOK, NEW u \in User
  PROVE  NewPassword(u) \in [User -> Credential]
BY DEF TypeOK, NewPassword, Credential

LEMMA UserRowType ==
  ASSUME TypeOK, NEW u \in User
  PROVE  /\ [user EXCEPT ![u].version = @ + 1] \in [User -> UserRow]
         /\ [user EXCEPT ![u].email = "VERIFIED"] \in [User -> UserRow]
<1>1. user \in [User -> UserRow] /\ user[u] \in UserRow
  BY DEF TypeOK
<1>2. [user[u] EXCEPT !.version = @ + 1] \in UserRow
  BY <1>1 DEF UserRow
<1>3. [user[u] EXCEPT !.email = "VERIFIED"] \in UserRow
  BY <1>1 DEF UserRow
<1>4. QED
  BY <1>1, <1>2, <1>3

LEMMA NewTokenType ==
  ASSUME NEW u \in User, NEW p \in Purpose, NEW g \in Nat, NEW e \in Nat, NEW c \in Nat
  PROVE  NewToken(u, p, g, e, c) \in TokenRow
BY DEF NewToken, TokenRow

\* Every row and every candidate keeps its type in every reachable state: no
\* handler writes a status the schema does not have or a negative time.
THEOREM TypeCorrectness == Spec => []TypeOK
<1> USE TtlAssumption
<1>1. Init => TypeOK
  BY DEF Init, TypeOK, UserRow, Credential, FreeSession, FreeToken
<1>2. TypeOK /\ [Next]_vars => TypeOK'
  <2> SUFFICES ASSUME TypeOK, [Next]_vars
               PROVE  TypeOK'
    OBVIOUS
  <2>1. ASSUME NEW u \in User, NEW t \in TokenId, Register(u, t)
        PROVE  TypeOK'
    <3>1. PICK at \in Reading :
            token' = [token EXCEPT ![t] =
                        NewToken(u, "EMAIL_VERIFICATION", 1, at + VerificationTtl, 1)]
      BY <2>1 DEF Register
    <3>2. NewToken(u, "EMAIL_VERIFICATION", 1, at + VerificationTtl, 1) \in TokenRow
      BY NewTokenType DEF Reading, Purpose, TypeOK
    <3>3. token' \in [TokenId -> TokenRow \cup {FreeToken}]
      BY <3>1, <3>2 DEF TypeOK
    <3>4. QED
      BY <2>1, <3>3, NewPasswordType DEF Register, TypeOK, UserRow
  <2>2. ASSUME NEW t \in TokenId, VerifyEmail(t)
        PROVE  TypeOK'
    <3>1. token[t] \in TokenRow /\ token[t].user \in User
      BY <2>2 DEF VerifyEmail, TypeOK, TokenRow, FreeToken
    <3>2. token' \in [TokenId -> TokenRow \cup {FreeToken}]
      BY <2>2, <3>1 DEF VerifyEmail, TypeOK, TokenRow, FreeToken, LiveTokens, TokensOf
    <3>3. QED
      BY <2>2, <3>1, <3>2, UserRowType DEF VerifyEmail, TypeOK
  <2>3. ASSUME NEW u \in User, NEW p \in Purpose, NEW t \in TokenId, RequestToken(u, p, t)
        PROVE  TypeOK'
    <3>1. PICK g \in 1 .. MaxGeneration :
            token' = [Superseded(LiveTokens(u, p)) EXCEPT ![t] =
                        NewToken(u, p, g, now + Ttl(p), credential[u].epoch)]
      BY <2>3 DEF RequestToken
    <3>2. NewToken(u, p, g, now + Ttl(p), credential[u].epoch) \in TokenRow
      BY NewTokenType DEF Ttl, TypeOK, Credential
    <3>3. token' \in [TokenId -> TokenRow \cup {FreeToken}]
      BY <3>1, <3>2, SupersededType
    <3>4. QED
      BY <2>3, <3>3 DEF RequestToken, TypeOK
  <2>4. ASSUME NEW t \in TokenId, ResetPassword(t)
        PROVE  TypeOK'
    <3> DEFINE u == token[t].user
               S == LiveTokens(u, "PASSWORD_RESET") \ {t}
    <3>1. token[t] \in TokenRow /\ u \in User
      BY <2>4 DEF ResetPassword, TypeOK, TokenRow, FreeToken
    <3>2. /\ Superseded(S) \in [TokenId -> TokenRow \cup {FreeToken}]
          /\ Superseded(S)[t] = token[t]
      <4>1. S \in SUBSET LiveTokens(u, "PASSWORD_RESET")
        OBVIOUS
      <4>2. Superseded(S) \in [TokenId -> TokenRow \cup {FreeToken}]
        BY <4>1, SupersededType
      <4>3. Superseded(S)[t] = token[t]
        BY DEF Superseded
      <4>4. QED
        BY <4>2, <4>3
    <3>3. token' \in [TokenId -> TokenRow \cup {FreeToken}]
      BY <2>4, <3>1, <3>2 DEF ResetPassword, TokenRow
    <3>4. QED
      BY <2>4, <3>1, <3>3, NewPasswordType, AllRevokedType, UserRowType
      DEF ResetPassword, TypeOK
  <2>5. ASSUME NEW u \in User, CheckPassword(u)
        PROVE  TypeOK'
    BY <2>5 DEF CheckPassword, TypeOK, Candidate, Credential
  <2>6. ASSUME NEW c \in candidates, NEW s \in SessionId, Login(c, s)
        PROVE  TypeOK'
    <3>1. c.user \in User /\ c.epoch \in Nat
      BY DEF TypeOK, Candidate
    <3>2. credential' \in [User -> Credential]
      BY <2>6, <3>1 DEF Login, TypeOK, Credential
    <3>3. session' \in [SessionId -> SessionRow \cup {FreeSession}]
      BY <2>6, <3>1 DEF Login, TypeOK, SessionRow, UserRow, MinOf, Reading
    <3>4. QED
      BY <2>6, <3>2, <3>3 DEF Login, TypeOK
  <2>7. ASSUME NEW s \in SessionId, GetSession(s)
        PROVE  TypeOK'
    <3>1. session[s] \in SessionRow
      BY <2>7 DEF GetSession, Usable, TypeOK, FreeSession
    <3> DEFINE row == [session[s] EXCEPT !.active = now,
                                         !.idle = MinOf(now + IdleTtl, session[s].absolute)]
    <3>2. row \in SessionRow
      <4>1. MinOf(now + IdleTtl, session[s].absolute) \in Nat /\ now \in Nat
        BY <3>1 DEF TypeOK, SessionRow, MinOf
      <4>2. QED
        BY <3>1, <4>1 DEF SessionRow
    <3>3. session' = [session EXCEPT ![s] = row]
      BY <2>7 DEF GetSession
    <3>4. QED
      BY <2>7, <3>2, <3>3 DEF GetSession, TypeOK
  <2>8. ASSUME NEW s \in SessionId, Logout(s)
        PROVE  TypeOK'
    <3>1. session[s] \in SessionRow
      BY <2>8 DEF Logout, Usable, TypeOK, FreeSession
    <3>2. QED
      BY <2>8, <3>1 DEF Logout, TypeOK, SessionRow
  <2>9. ASSUME NEW s \in SessionId, LogoutAll(s)
        PROVE  TypeOK'
    <3>1. session[s].user \in User
      BY <2>9 DEF LogoutAll, Usable, TypeOK, SessionRow, FreeSession
    <3>2. QED
      BY <2>9, <3>1, AllRevokedType, UserRowType DEF LogoutAll, TypeOK
  <2>10. ASSUME NEW c \in candidates, NEW s \in SessionId, ChangePassword(c, s)
         PROVE  TypeOK'
    <3>1. c.user \in User
      BY DEF TypeOK, Candidate
    <3>2. QED
      BY <2>10, <3>1, AllRevokedType, SupersededType, NewPasswordType, UserRowType
      DEF ChangePassword, TypeOK
  <2>11. ASSUME NEW u \in User, SetStatus(u)
         PROVE  TypeOK'
    BY <2>11 DEF SetStatus, TypeOK, UserRow
  <2>12. CASE ChangeHashCost
    BY <2>12 DEF ChangeHashCost, TypeOK, Credential
  <2>13. CASE Tick
    BY <2>13 DEF Tick, TypeOK
  <2>14. CASE UNCHANGED vars
    BY <2>14 DEF vars, TypeOK
  <2>15. QED
    BY <2>1, <2>2, <2>3, <2>4, <2>5, <2>6, <2>7, <2>8, <2>9, <2>10, <2>11, <2>12,
       <2>13, <2>14 DEF Next
<1>3. QED
  BY <1>1, <1>2, PTL DEF Spec

(***************************************************************************)
(* The inductive invariant.  SessionsFollowPassword is not inductive: a    *)
(* login in flight holds a candidate, so what has to be kept is that a     *)
(* candidate whose hash is still the stored one belongs to the present     *)
(* epoch (hashes never repeat), and that a user who does not exist yet     *)
(* owns no row that registration could bring to life.                      *)
(***************************************************************************)
CandidatesFollowCredential ==
  \A c \in candidates :
    /\ user[c.user].status # "ABSENT"
    /\ c.hash <= credential[c.user].hash
    /\ c.hash = credential[c.user].hash => c.epoch = credential[c.user].epoch

AbsentUsersOwnNothing ==
  \A u \in User : user[u].status = "ABSENT" =>
    /\ credential[u].epoch = 0
    /\ user[u].email = "UNVERIFIED"
    /\ \A s \in SessionId : session[s].state # "FREE" => session[s].user # u
    /\ \A t \in TokenId : token[t].state # "FREE" => token[t].user # u

LiveSessionsAreCurrent ==
  \A s \in SessionId : session[s].state = "LIVE" =>
    /\ session[s].issued = user[session[s].user].version
    /\ session[s].epoch = credential[session[s].user].epoch

IInv ==
  /\ TypeOK
  /\ CandidatesFollowCredential
  /\ AbsentUsersOwnNothing
  /\ LiveSessionsAreCurrent
  /\ OneLiveToken
  /\ EventsFollowTokens
  /\ ResetTokensFollowPassword
  /\ VerifiedByOneToken

-----------------------------------------------------------------------------
(* What the operators on tokens and sessions do to a row *)

Revoked(t) == [token[t] EXCEPT !.state = "REVOKED", !.event = "OBSOLETE"]
Consumed(t) == [token[t] EXCEPT !.state = "CONSUMED"]

LEMMA ChangedRow ==
  ASSUME TypeOK, NEW t \in TokenId, token[t].state # "FREE"
  PROVE  /\ Revoked(t).state = "REVOKED" /\ Revoked(t).event = "OBSOLETE"
         /\ Revoked(t).user = token[t].user /\ Revoked(t).purpose = token[t].purpose
         /\ Revoked(t).generation = token[t].generation
         /\ Revoked(t).expires = token[t].expires /\ Revoked(t).epoch = token[t].epoch
         /\ Consumed(t).state = "CONSUMED" /\ Consumed(t).event = token[t].event
         /\ Consumed(t).user = token[t].user /\ Consumed(t).purpose = token[t].purpose
         /\ Consumed(t).generation = token[t].generation
         /\ Consumed(t).expires = token[t].expires /\ Consumed(t).epoch = token[t].epoch
<1>1. token[t] \in TokenRow
  BY DEF TypeOK, FreeToken
<1>2. QED
  BY <1>1 DEF TokenRow, Revoked, Consumed

LEMMA AllRevokedRow ==
  ASSUME TypeOK, NEW u, NEW s \in SessionId, AllRevoked(u)[s].state = "LIVE"
  PROVE  AllRevoked(u)[s] = session[s] /\ session[s].user # u
<1>1. CASE session[s].state = "LIVE" /\ session[s].user = u
  <2>1. session[s] \in SessionRow
    BY <1>1 DEF TypeOK, FreeSession
  <2>2. AllRevoked(u)[s].state = "REVOKED"
    BY <1>1, <2>1 DEF AllRevoked, SessionRow
  <2>3. QED
    BY <2>2
<1>2. CASE ~(session[s].state = "LIVE" /\ session[s].user = u)
  <2>1. AllRevoked(u)[s] = session[s]
    BY <1>2 DEF AllRevoked
  <2>2. QED
    BY <1>2, <2>1
<1>3. QED
  BY <1>1, <1>2

LEMMA NewPasswordRow ==
  ASSUME TypeOK, NEW u \in User
  PROVE  /\ NewPassword(u)[u].hash = credential[u].hash + 1
         /\ \A x \in User \ {u} : NewPassword(u)[x] = credential[x]
BY DEF TypeOK, NewPassword, Credential

-----------------------------------------------------------------------------
(* Candidates *)

LEMMA CandidatesStep ==
  ASSUME TypeOK, CandidatesFollowCredential, [Next]_vars
  PROVE  CandidatesFollowCredential'
<1> SUFFICES ASSUME NEW c \in candidates'
             PROVE  /\ user'[c.user].status # "ABSENT"
                    /\ c.hash <= credential'[c.user].hash
                    /\ c.hash = credential'[c.user].hash => c.epoch = credential'[c.user].epoch
  BY DEF CandidatesFollowCredential
<1>a. \A x \in candidates :
        /\ x \in Candidate /\ x.user \in User /\ x.hash \in Nat
        /\ credential[x.user] \in Credential
  BY DEF TypeOK, Candidate
<1>1. ASSUME NEW u \in User, CheckPassword(u)
      PROVE  /\ user'[c.user].status # "ABSENT"
             /\ c.hash <= credential'[c.user].hash
             /\ c.hash = credential'[c.user].hash => c.epoch = credential'[c.user].epoch
  <2>1. CASE c \in candidates
    BY <1>1, <2>1 DEF CheckPassword, CandidatesFollowCredential
  <2>2. CASE c = [user |-> u, hash |-> credential[u].hash, epoch |-> credential[u].epoch,
                  params |-> credential[u].params]
    <3>1. credential[u] \in Credential
      BY DEF TypeOK
    <3>2. QED
      BY <1>1, <2>2, <3>1 DEF CheckPassword, Credential
  <2>3. QED
    BY <1>1, <2>1, <2>2 DEF CheckPassword
<1>2. ASSUME NEW u \in User, candidates' = candidates, credential' = NewPassword(u),
             c.user = u => user'[c.user].status # "ABSENT",
             c.user # u => user'[c.user].status = user[c.user].status
      PROVE  /\ user'[c.user].status # "ABSENT"
             /\ c.hash <= credential'[c.user].hash
             /\ c.hash = credential'[c.user].hash => c.epoch = credential'[c.user].epoch
  BY <1>2, <1>a, NewPasswordRow DEF CandidatesFollowCredential, Credential
<1>3. ASSUME NEW u \in User, NEW t \in TokenId, Register(u, t)
      PROVE  /\ user'[c.user].status # "ABSENT"
             /\ c.hash <= credential'[c.user].hash
             /\ c.hash = credential'[c.user].hash => c.epoch = credential'[c.user].epoch
  <2>1. c.user # u /\ c.user \in User
    BY <1>3, <1>a DEF Register, CandidatesFollowCredential
  <2>2. QED
    BY <1>2, <1>3, <2>1 DEF Register, TypeOK
<1>4. ASSUME NEW t \in TokenId, ResetPassword(t)
      PROVE  /\ user'[c.user].status # "ABSENT"
             /\ c.hash <= credential'[c.user].hash
             /\ c.hash = credential'[c.user].hash => c.epoch = credential'[c.user].epoch
  <2>1. token[t].user \in User
    BY <1>4 DEF ResetPassword, TypeOK, TokenRow, FreeToken
  <2>2. \A u \in User : user'[u].status = user[u].status
    BY <1>4, <2>1 DEF ResetPassword, TypeOK, UserRow
  <2>3. QED
    BY <1>2, <1>4, <1>a, <2>1, <2>2 DEF ResetPassword, CandidatesFollowCredential
<1>5. ASSUME NEW d \in candidates, NEW s \in SessionId, ChangePassword(d, s)
      PROVE  /\ user'[c.user].status # "ABSENT"
             /\ c.hash <= credential'[c.user].hash
             /\ c.hash = credential'[c.user].hash => c.epoch = credential'[c.user].epoch
  <2>1. d.user \in User
    BY <1>a
  <2>2. \A u \in User : user'[u].status = user[u].status
    BY <1>5, <2>1 DEF ChangePassword, TypeOK, UserRow
  <2>3. QED
    BY <1>2, <1>5, <1>a, <2>1, <2>2 DEF ChangePassword, CandidatesFollowCredential
<1>6. ASSUME NEW d \in candidates, NEW s \in SessionId, Login(d, s)
      PROVE  /\ user'[c.user].status # "ABSENT"
             /\ c.hash <= credential'[c.user].hash
             /\ c.hash = credential'[c.user].hash => c.epoch = credential'[c.user].epoch
  <2>1. d.user \in User /\ c \in candidates
    BY <1>6, <1>a DEF Login
  <2>2. \/ credential'[c.user] = credential[c.user]
        \/ credential'[c.user].hash = credential[c.user].hash + 1
    BY <1>6, <1>a, <2>1 DEF Login, TypeOK, Credential
  <2>3. QED
    BY <1>6, <1>a, <2>1, <2>2 DEF Login, CandidatesFollowCredential, Credential
<1>7. CASE ChangeHashCost
  <2>1. \A u \in User :
          /\ credential'[u].hash = credential[u].hash
          /\ credential'[u].epoch = credential[u].epoch
    BY <1>7 DEF ChangeHashCost, TypeOK, Credential
  <2>2. QED
    BY <1>7, <1>a, <2>1 DEF ChangeHashCost, CandidatesFollowCredential
<1>8. ASSUME candidates' = candidates, credential' = credential,
             \A u \in User : user[u].status # "ABSENT" => user'[u].status # "ABSENT"
      PROVE  /\ user'[c.user].status # "ABSENT"
             /\ c.hash <= credential'[c.user].hash
             /\ c.hash = credential'[c.user].hash => c.epoch = credential'[c.user].epoch
  BY <1>8, <1>a DEF CandidatesFollowCredential
<1>9. ASSUME NEW t \in TokenId, VerifyEmail(t)
      PROVE  \A u \in User : user[u].status # "ABSENT" => user'[u].status # "ABSENT"
  BY <1>9 DEF VerifyEmail, TypeOK, UserRow, TokenRow, FreeToken
<1>10. ASSUME NEW s \in SessionId, LogoutAll(s)
       PROVE  \A u \in User : user[u].status # "ABSENT" => user'[u].status # "ABSENT"
  BY <1>10 DEF LogoutAll, TypeOK, UserRow
<1>11. ASSUME NEW x \in User, SetStatus(x)
       PROVE  \A u \in User : user[u].status # "ABSENT" => user'[u].status # "ABSENT"
  BY <1>11 DEF SetStatus, TypeOK, UserRow
<1>12. QED
  BY <1>1, <1>3, <1>4, <1>5, <1>6, <1>7, <1>8, <1>9, <1>10, <1>11
  DEF Next, vars, VerifyEmail, RequestToken, GetSession, Logout, LogoutAll, SetStatus, Tick

-----------------------------------------------------------------------------
(* What a step does to a row that exists, and which steps make one *)

\* What a session or a token keeps for as long as its row exists.
SessionKept(s) ==
  /\ session'[s].state # "FREE"
  /\ session'[s].user = session[s].user
  /\ session'[s].issued = session[s].issued
  /\ session'[s].epoch = session[s].epoch
  /\ session'[s].absolute = session[s].absolute
  /\ session'[s].state = "LIVE" => session[s].state = "LIVE"

TokenKept(t) ==
  /\ token'[t].state # "FREE"
  /\ token'[t].user = token[t].user
  /\ token'[t].purpose = token[t].purpose
  /\ token'[t].generation = token[t].generation
  /\ token'[t].expires = token[t].expires
  /\ token'[t].epoch = token[t].epoch
  /\ token[t].state # "LIVE" => token'[t] = token[t]

LEMMA AllRevokedKeeps ==
  ASSUME TypeOK, NEW u, NEW s \in SessionId, session[s].state # "FREE",
         session' = AllRevoked(u)
  PROVE  SessionKept(s)
<1>1. session[s] \in SessionRow
  BY DEF TypeOK, FreeSession
<1>2. \/ session'[s] = session[s]
      \/ session'[s] = [session[s] EXCEPT !.state = "REVOKED"]
  BY DEF AllRevoked
<1>3. QED
  BY <1>1, <1>2 DEF SessionKept, SessionRow

LEMMA SessionsStep ==
  ASSUME TypeOK, [Next]_vars, NEW s \in SessionId, session[s].state # "FREE"
  PROVE  SessionKept(s)
<1>a. session[s] \in SessionRow /\ session \in [SessionId -> SessionRow \cup {FreeSession}]
  BY DEF TypeOK, FreeSession
<1>1. CASE session' = session
  BY <1>1 DEF SessionKept
<1>2. ASSUME NEW c \in candidates, NEW x \in SessionId, Login(c, x)
      PROVE  SessionKept(s)
  <2>1. x # s
    BY <1>2 DEF Login
  <2>2. session'[s] = session[s]
    BY <1>2, <1>a, <2>1 DEF Login
  <2>3. QED
    BY <2>2 DEF SessionKept
<1>3. ASSUME NEW x \in SessionId, GetSession(x)
      PROVE  SessionKept(s)
  BY <1>3, <1>a DEF GetSession, Usable, SessionKept, SessionRow
<1>4. ASSUME NEW x \in SessionId, Logout(x)
      PROVE  SessionKept(s)
  BY <1>4, <1>a DEF Logout, Usable, SessionKept, SessionRow
<1>5. ASSUME NEW x \in SessionId, LogoutAll(x)
      PROVE  SessionKept(s)
  BY <1>5, AllRevokedKeeps DEF LogoutAll
<1>6. ASSUME NEW c \in candidates, NEW x \in SessionId, ChangePassword(c, x)
      PROVE  SessionKept(s)
  BY <1>6, AllRevokedKeeps DEF ChangePassword
<1>7. ASSUME NEW t \in TokenId, ResetPassword(t)
      PROVE  SessionKept(s)
  BY <1>7, AllRevokedKeeps DEF ResetPassword
<1>8. QED
  BY <1>1, <1>2, <1>3, <1>4, <1>5, <1>6, <1>7
  DEF Next, vars, Register, VerifyEmail, RequestToken, CheckPassword, SetStatus,
      ChangeHashCost, Tick

LEMMA SupersededKeeps ==
  ASSUME TypeOK, NEW u, NEW p, NEW S \in SUBSET LiveTokens(u, p), NEW t \in TokenId,
         token[t].state # "FREE", token'[t] = Superseded(S)[t]
  PROVE  TokenKept(t)
<1>1. CASE t \in S
  <2>1. token'[t] = Revoked(t) /\ token[t].state = "LIVE"
    BY <1>1 DEF Superseded, LiveTokens, Revoked
  <2>2. QED
    BY <2>1, ChangedRow DEF TokenKept
<1>2. CASE t \notin S
  <2>1. token'[t] = token[t]
    BY <1>2 DEF Superseded
  <2>2. QED
    BY <2>1 DEF TokenKept
<1>3. QED
  BY <1>1, <1>2

\* The tokens of u but for t, and t as it was or consumed.
LEMMA ResetPasswordRows ==
  ASSUME TypeOK, NEW t \in TokenId, ResetPassword(t), NEW x \in TokenId
  PROVE  /\ x # t => token'[x] =
                       Superseded(LiveTokens(token[t].user, "PASSWORD_RESET") \ {t})[x]
         /\ x = t => token'[x] = [token[t] EXCEPT !.state = "CONSUMED"]
<1> DEFINE S == LiveTokens(token[t].user, "PASSWORD_RESET") \ {t}
<1>1. Superseded(S)[t] = token[t]
  BY DEF Superseded
<1>2. token' = [Superseded(S) EXCEPT ![t].state = "CONSUMED"]
  BY DEF ResetPassword
<1>3. Superseded(S) = [y \in TokenId |-> Superseded(S)[y]]
  BY DEF Superseded
<1>4. QED
  BY <1>1, <1>2, <1>3

LEMMA RequestTokenRows ==
  ASSUME TypeOK, NEW u \in User, NEW p \in Purpose, NEW t \in TokenId,
         RequestToken(u, p, t)
  PROVE  \E g \in 1 .. MaxGeneration :
           /\ IsNextGeneration(u, p, g)
           /\ token'[t] = NewToken(u, p, g, now + Ttl(p), credential[u].epoch)
           /\ \A x \in TokenId \ {t} : token'[x] = Superseded(LiveTokens(u, p))[x]
BY DEF RequestToken, Superseded

LEMMA VerifyEmailRows ==
  ASSUME TypeOK, NEW t \in TokenId, VerifyEmail(t), NEW x \in TokenId
  PROVE  /\ x = t => token'[x] = [token[x] EXCEPT !.state = "CONSUMED"]
         /\ x # t => \/ token'[x] = token[x]
                     \/ /\ x \in LiveTokens(token[t].user, "EMAIL_VERIFICATION")
                        /\ token[x].generation < token[t].generation
                        /\ token'[x] = [token[x] EXCEPT !.state = "REVOKED"]
BY DEF VerifyEmail

LEMMA TokensStep ==
  ASSUME TypeOK, [Next]_vars, NEW t \in TokenId, token[t].state # "FREE"
  PROVE  TokenKept(t)
<1>a. token[t] \in TokenRow /\ token \in [TokenId -> TokenRow \cup {FreeToken}]
  BY DEF TypeOK, FreeToken
<1>1. CASE token' = token
  BY <1>1 DEF TokenKept
<1>2. ASSUME NEW u \in User, NEW x \in TokenId, Register(u, x)
      PROVE  TokenKept(t)
  <2>1. x # t
    BY <1>2 DEF Register
  <2>2. token'[t] = token[t]
    BY <1>2, <1>a, <2>1 DEF Register
  <2>3. QED
    BY <2>2 DEF TokenKept
<1>3. ASSUME NEW x \in TokenId, VerifyEmail(x)
      PROVE  TokenKept(t)
  <2>1. token[x].state = "LIVE"
    BY <1>3 DEF VerifyEmail
  <2>2. CASE token'[t] = token[t]
    BY <2>2 DEF TokenKept
  <2>3. CASE token'[t] = [token[t] EXCEPT !.state = "CONSUMED"] /\ token[t].state = "LIVE"
    BY <1>a, <2>3 DEF TokenKept, TokenRow
  <2>4. CASE token'[t] = [token[t] EXCEPT !.state = "REVOKED"] /\ token[t].state = "LIVE"
    BY <1>a, <2>4 DEF TokenKept, TokenRow
  <2>5. QED
    BY <1>3, <2>1, <2>2, <2>3, <2>4, VerifyEmailRows DEF LiveTokens
<1>4. ASSUME NEW u \in User, NEW p \in Purpose, NEW x \in TokenId, RequestToken(u, p, x)
      PROVE  TokenKept(t)
  <2>1. x # t
    BY <1>4 DEF RequestToken
  <2>2. token'[t] = Superseded(LiveTokens(u, p))[t]
    BY <1>4, <2>1, RequestTokenRows
  <2>3. QED
    BY <2>2, SupersededKeeps
<1>5. ASSUME NEW x \in TokenId, ResetPassword(x)
      PROVE  TokenKept(t)
  <2>1. CASE t = x
    <3>1. token[t].state = "LIVE" /\ token'[t] = [token[t] EXCEPT !.state = "CONSUMED"]
      BY <1>5, <2>1, ResetPasswordRows DEF ResetPassword
    <3>2. QED
      BY <1>a, <3>1 DEF TokenKept, TokenRow
  <2>2. CASE t # x
    <3>1. token'[t] = Superseded(LiveTokens(token[x].user, "PASSWORD_RESET") \ {x})[t]
      BY <1>5, <2>2, ResetPasswordRows
    <3>2. LiveTokens(token[x].user, "PASSWORD_RESET") \ {x}
            \in SUBSET LiveTokens(token[x].user, "PASSWORD_RESET")
      OBVIOUS
    <3>3. QED
      BY <3>1, <3>2, SupersededKeeps
  <2>3. QED
    BY <2>1, <2>2
<1>6. ASSUME NEW c \in candidates, NEW s \in SessionId, ChangePassword(c, s)
      PROVE  TokenKept(t)
  <2>1. token'[t] = Superseded(LiveTokens(c.user, "PASSWORD_RESET"))[t]
    BY <1>6 DEF ChangePassword
  <2>2. QED
    BY <2>1, SupersededKeeps
<1>7. QED
  BY <1>1, <1>2, <1>3, <1>4, <1>5, <1>6
  DEF Next, vars, CheckPassword, Login, GetSession, Logout, LogoutAll, SetStatus,
      ChangeHashCost, Tick

-----------------------------------------------------------------------------
(* Which steps open a session or issue a token *)

LEMMA SessionsOpenAtLogin ==
  ASSUME TypeOK, [Next]_vars, NEW s \in SessionId,
         session[s].state = "FREE", session'[s].state # "FREE"
  PROVE  \E c \in candidates : Login(c, s)
<1>a. session \in [SessionId -> SessionRow \cup {FreeSession}]
  BY DEF TypeOK
<1>1. ASSUME NEW u, session' = AllRevoked(u)
      PROVE  FALSE
  BY <1>1 DEF AllRevoked
<1>2. ASSUME NEW x \in SessionId, Usable(x), \A y \in SessionId \ {x} : session'[y] = session[y]
      PROVE  FALSE
  BY <1>2 DEF Usable
<1>3. ASSUME NEW c \in candidates, NEW x \in SessionId, Login(c, x)
      PROVE  Login(c, s)
  <2>1. x = s
    BY <1>3, <1>a DEF Login
  <2>2. QED
    BY <1>3, <2>1
<1>4. ASSUME NEW x \in SessionId, GetSession(x) \/ Logout(x)
      PROVE  Usable(x) /\ \A y \in SessionId \ {x} : session'[y] = session[y]
  BY <1>4, <1>a DEF GetSession, Logout
<1>5. QED
  BY <1>1, <1>2, <1>3, <1>4
  DEF Next, vars, Register, VerifyEmail, RequestToken, ResetPassword, CheckPassword,
      LogoutAll, ChangePassword, SetStatus, ChangeHashCost, Tick

LEMMA TokensAreIssued ==
  ASSUME TypeOK, [Next]_vars, NEW t \in TokenId,
         token[t].state = "FREE", token'[t].state # "FREE"
  PROVE  \/ \E u \in User : Register(u, t)
         \/ \E u \in User, p \in Purpose : RequestToken(u, p, t)
<1>a. token \in [TokenId -> TokenRow \cup {FreeToken}] /\ token[t] = FreeToken
  BY DEF TypeOK, TokenRow
<1>1. CASE token'[t] = token[t]
  BY <1>1
<1>2. ASSUME NEW u \in User, NEW x \in TokenId, Register(u, x)
      PROVE  Register(u, t)
  <2>1. x = t
    BY <1>2, <1>a DEF Register
  <2>2. QED
    BY <1>2, <2>1
<1>3. ASSUME NEW u, NEW p, NEW S \in SUBSET LiveTokens(u, p)
      PROVE  Superseded(S)[t] = token[t]
  <2>1. t \notin S
    BY <1>3 DEF LiveTokens
  <2>2. QED
    BY <1>3, <2>1 DEF Superseded
<1>4. ASSUME NEW u \in User, NEW p \in Purpose, NEW x \in TokenId, RequestToken(u, p, x)
      PROVE  RequestToken(u, p, t)
  <2>1. LiveTokens(u, p) \in SUBSET LiveTokens(u, p)
    OBVIOUS
  <2>2. x = t
    BY <1>3, <1>4, <2>1, RequestTokenRows
  <2>3. QED
    BY <1>4, <2>2
<1>5. ASSUME NEW x \in TokenId, ResetPassword(x)
      PROVE  token'[t] = token[t]
  <2>1. x # t
    BY <1>5 DEF ResetPassword
  <2>2. LiveTokens(token[x].user, "PASSWORD_RESET") \ {x}
          \in SUBSET LiveTokens(token[x].user, "PASSWORD_RESET")
    OBVIOUS
  <2>3. token'[t] = Superseded(LiveTokens(token[x].user, "PASSWORD_RESET") \ {x})[t]
    BY <1>5, <2>1, ResetPasswordRows
  <2>4. QED
    BY <1>3, <2>2, <2>3
<1>6. ASSUME NEW x \in TokenId, VerifyEmail(x)
      PROVE  token'[t] = token[t]
  <2>1. x # t
    BY <1>6 DEF VerifyEmail
  <2>2. QED
    BY <1>6, <2>1, VerifyEmailRows DEF LiveTokens
<1>7. ASSUME NEW c \in candidates, NEW s \in SessionId, ChangePassword(c, s)
      PROVE  token'[t] = token[t]
  <2>1. LiveTokens(c.user, "PASSWORD_RESET") \in SUBSET LiveTokens(c.user, "PASSWORD_RESET")
    OBVIOUS
  <2>2. token'[t] = Superseded(LiveTokens(c.user, "PASSWORD_RESET"))[t]
    BY <1>7 DEF ChangePassword
  <2>3. QED
    BY <1>3, <2>1, <2>2
<1>8. QED
  BY <1>1, <1>2, <1>4, <1>5, <1>6, <1>7
  DEF Next, vars, CheckPassword, Login, GetSession, Logout, LogoutAll, SetStatus,
      ChangeHashCost, Tick

-----------------------------------------------------------------------------
(* What a step does to a user and the credential *)

UserKept(u) ==
  /\ user'[u].status = "ABSENT" => user[u].status = "ABSENT"
  /\ user[u].email = "VERIFIED" => user'[u].email = "VERIFIED"
  /\ user[u].status = "ABSENT" /\ user'[u].status = "ABSENT" =>
       user'[u].email = user[u].email
  /\ credential'[u].epoch # credential[u].epoch \/ user'[u].version # user[u].version =>
       \/ user[u].status = "ABSENT"
       \/ session' = AllRevoked(u)
  /\ user[u].status = "ABSENT" /\ user'[u].status = "ABSENT" =>
       credential'[u].epoch = credential[u].epoch

LEMMA UsersStep ==
  ASSUME TypeOK, CandidatesFollowCredential, AbsentUsersOwnNothing, [Next]_vars,
         NEW u \in User
  PROVE  UserKept(u)
<1>a. /\ user \in [User -> UserRow] /\ user[u] \in UserRow
      /\ credential \in [User -> Credential] /\ credential[u] \in Credential
  BY DEF TypeOK
<1>1. CASE user'[u] = user[u] /\ credential' = credential
  BY <1>1 DEF UserKept
<1>2. CASE user'[u] = user[u] /\ credential'[u].epoch = credential[u].epoch
  BY <1>2 DEF UserKept
<1>3. ASSUME NEW x \in User, NEW t \in TokenId, Register(x, t)
      PROVE  UserKept(u)
  <2>1. CASE x = u
    BY <1>3, <1>a, <2>1 DEF Register, UserKept, UserRow
  <2>2. CASE x # u
    BY <1>3, <1>a, <2>2, NewPasswordRow DEF Register, UserKept
  <2>3. QED
    BY <2>1, <2>2
<1>4. ASSUME NEW t \in TokenId, VerifyEmail(t)
      PROVE  UserKept(u)
  <2>1. token[t].user \in User /\ user[token[t].user].status = "ACTIVE"
    BY <1>4 DEF VerifyEmail, TypeOK, TokenRow, FreeToken
  <2>2. CASE token[t].user = u
    BY <1>4, <1>a, <2>1, <2>2 DEF VerifyEmail, UserKept, UserRow
  <2>3. CASE token[t].user # u
    BY <1>1, <1>4, <1>a, <2>1, <2>3 DEF VerifyEmail
  <2>4. QED
    BY <2>2, <2>3
<1>5. ASSUME NEW x \in User, user[x].status = "ACTIVE",
             user' = [user EXCEPT ![x].version = @ + 1], session' = AllRevoked(x),
             credential' = credential \/ credential' = NewPassword(x)
      PROVE  UserKept(u)
  <2>1. CASE x = u
    BY <1>5, <1>a, <2>1 DEF UserKept, UserRow
  <2>2. CASE x # u
    <3>1. user'[u] = user[u] /\ credential'[u] = credential[u]
      BY <1>5, <1>a, <2>2, NewPasswordRow
    <3>2. QED
      BY <1>2, <3>1
  <2>3. QED
    BY <2>1, <2>2
<1>6. ASSUME NEW t \in TokenId, ResetPassword(t)
      PROVE  UserKept(u)
  <2>1. token[t].user \in User
    BY <1>6 DEF ResetPassword, TypeOK, TokenRow, FreeToken
  <2>2. QED
    BY <1>5, <1>6, <2>1 DEF ResetPassword
<1>7. ASSUME NEW s \in SessionId, LogoutAll(s)
      PROVE  UserKept(u)
  <2>1. session[s].user \in User
    BY <1>7 DEF LogoutAll, Usable, TypeOK, SessionRow, FreeSession
  <2>2. QED
    BY <1>5, <1>7, <2>1 DEF LogoutAll, Usable
<1>8. ASSUME NEW c \in candidates, NEW s \in SessionId, ChangePassword(c, s)
      PROVE  UserKept(u)
  <2>1. c.user \in User
    BY DEF TypeOK, Candidate
  <2>2. QED
    BY <1>5, <1>8, <2>1 DEF ChangePassword, Usable
<1>9. ASSUME NEW c \in candidates, NEW s \in SessionId, Login(c, s)
      PROVE  UserKept(u)
  <2>1. credential'[u].epoch = credential[u].epoch
    BY <1>9, <1>a DEF Login, Credential
  <2>2. QED
    BY <1>2, <1>9, <2>1 DEF Login
<1>10. ASSUME NEW x \in User, SetStatus(x)
       PROVE  UserKept(u)
  BY <1>10, <1>a DEF SetStatus, UserKept, UserRow
<1>11. CASE ChangeHashCost
  <2>1. credential'[u].epoch = credential[u].epoch
    BY <1>11, <1>a DEF ChangeHashCost, Credential
  <2>2. QED
    BY <1>2, <1>11, <2>1 DEF ChangeHashCost
<1>12. QED
  BY <1>1, <1>3, <1>4, <1>6, <1>7, <1>8, <1>9, <1>10, <1>11
  DEF Next, vars, RequestToken, CheckPassword, GetSession, Logout, Tick

-----------------------------------------------------------------------------
(* Users who do not exist, and sessions *)

LEMMA AbsentUsersStep ==
  ASSUME TypeOK, CandidatesFollowCredential, AbsentUsersOwnNothing, [Next]_vars
  PROVE  AbsentUsersOwnNothing'
<1> SUFFICES ASSUME NEW u \in User, user'[u].status = "ABSENT"
             PROVE  /\ credential'[u].epoch = 0
                    /\ user'[u].email = "UNVERIFIED"
                    /\ \A s \in SessionId : session'[s].state # "FREE" => session'[s].user # u
                    /\ \A t \in TokenId : token'[t].state # "FREE" => token'[t].user # u
  BY DEF AbsentUsersOwnNothing
<1>1. user[u].status = "ABSENT" /\ UserKept(u)
  BY UsersStep DEF UserKept
<1>2. credential'[u].epoch = 0 /\ user'[u].email = "UNVERIFIED"
  BY <1>1 DEF UserKept, AbsentUsersOwnNothing
<1>3. ASSUME NEW s \in SessionId, session'[s].state # "FREE"
      PROVE  session'[s].user # u
  <2>1. CASE session[s].state # "FREE"
    BY <1>1, <2>1, SessionsStep DEF SessionKept, AbsentUsersOwnNothing
  <2>2. CASE session[s].state = "FREE"
    <3>1. PICK c \in candidates : Login(c, s)
      BY <1>3, <2>2, SessionsOpenAtLogin
    <3>2. session'[s].user = c.user /\ user[c.user].status = "ACTIVE"
      BY <3>1 DEF Login, TypeOK
    <3>3. QED
      BY <1>1, <3>2
  <2>3. QED
    BY <2>1, <2>2
<1>4. ASSUME NEW t \in TokenId, token'[t].state # "FREE"
      PROVE  token'[t].user # u
  <2>1. CASE token[t].state # "FREE"
    BY <1>1, <2>1, TokensStep DEF TokenKept, AbsentUsersOwnNothing
  <2>2. ASSUME NEW x \in User, Register(x, t)
        PROVE  token'[t].user # u
    <3>1. token'[t].user = x /\ user'[x].status = "ACTIVE"
      BY <2>2 DEF Register, NewToken, TypeOK, UserRow
    <3>2. QED
      BY <3>1
  <2>3. ASSUME NEW x \in User, NEW p \in Purpose, RequestToken(x, p, t)
        PROVE  token'[t].user # u
    <3>1. PICK g \in 1 .. MaxGeneration :
            token'[t] = NewToken(x, p, g, now + Ttl(p), credential[x].epoch)
      BY <2>3, RequestTokenRows
    <3>2. token'[t].user = x
      BY <3>1 DEF NewToken
    <3>3. user[x].status = "ACTIVE"
      BY <2>3 DEF RequestToken, Eligible
    <3>4. QED
      BY <1>1, <3>2, <3>3
  <2>4. QED
    BY <1>4, <2>1, <2>2, <2>3, TokensAreIssued
<1>5. QED
  BY <1>2, <1>3, <1>4

LEMMA LiveSessionsStep ==
  ASSUME TypeOK, CandidatesFollowCredential, AbsentUsersOwnNothing,
         LiveSessionsAreCurrent, [Next]_vars
  PROVE  LiveSessionsAreCurrent'
<1> SUFFICES ASSUME NEW s \in SessionId, session'[s].state = "LIVE"
             PROVE  /\ session'[s].issued = user'[session'[s].user].version
                    /\ session'[s].epoch = credential'[session'[s].user].epoch
  BY DEF LiveSessionsAreCurrent
<1>1. CASE session[s].state # "FREE"
  <2> DEFINE u == session[s].user
  <2>1. /\ SessionKept(s)
        /\ session[s].state = "LIVE"
        /\ session'[s].user = u /\ session'[s].issued = session[s].issued
        /\ session'[s].epoch = session[s].epoch
    BY <1>1, SessionsStep DEF SessionKept
  <2>2. u \in User
    BY <2>1 DEF TypeOK, SessionRow, FreeSession
  <2>3. user[u].status # "ABSENT"
    BY <1>1, <2>2 DEF AbsentUsersOwnNothing
  <2>4. session' # AllRevoked(u)
    BY <2>1, AllRevokedRow
  <2>5. UserKept(u)
    BY <2>2, UsersStep
  <2>6. user'[u].version = user[u].version /\ credential'[u].epoch = credential[u].epoch
    BY <2>3, <2>4, <2>5 DEF UserKept
  <2>7. QED
    BY <2>1, <2>6 DEF LiveSessionsAreCurrent
<1>2. CASE session[s].state = "FREE"
  <2>1. PICK c \in candidates : Login(c, s)
    BY <1>2, SessionsOpenAtLogin
  <2>2. /\ session'[s].user = c.user /\ session'[s].issued = user[c.user].version
        /\ session'[s].epoch = c.epoch
    BY <2>1 DEF Login, TypeOK
  <2>3. c.user \in User
    BY DEF TypeOK, Candidate
  <2>4. c.epoch = credential[c.user].epoch
    BY <2>1 DEF Login, StillCurrent, CandidatesFollowCredential
  <2>5. credential'[c.user].epoch = credential[c.user].epoch /\ user' = user
    BY <2>1, <2>3 DEF Login, TypeOK, Credential
  <2>6. QED
    BY <2>2, <2>4, <2>5
<1>3. QED
  BY <1>1, <1>2

-----------------------------------------------------------------------------
(* Tokens *)

\* A user who asks for a token leaves no other live one for the purpose.
LEMMA OneLiveTokenStep ==
  ASSUME TypeOK, AbsentUsersOwnNothing, OneLiveToken, [Next]_vars
  PROVE  OneLiveToken'
<1> SUFFICES ASSUME NEW t \in TokenId, token'[t].state = "LIVE",
                    NEW x \in TokenId, x # t, token'[x].state # "FREE",
                    token'[x].user = token'[t].user, token'[x].purpose = token'[t].purpose
             PROVE  token'[x].state # "LIVE" /\ token'[x].generation < token'[t].generation
  BY DEF OneLiveToken, TokensOf
<1>1. CASE token[t].state # "FREE" /\ token[x].state # "FREE"
  <2>1. TokenKept(t) /\ TokenKept(x)
    BY <1>1, TokensStep
  <2>2. token[t].state = "LIVE" /\ x \in TokensOf(token[t].user, token[t].purpose) \ {t}
    BY <1>1, <2>1 DEF TokenKept, TokensOf
  <2>3. token[x].state # "LIVE" /\ token[x].generation < token[t].generation
    BY <2>2 DEF OneLiveToken
  <2>4. QED
    BY <2>1, <2>3 DEF TokenKept
<1>2. ASSUME NEW y \in TokenId, NEW z \in TokenId, NEW u \in User, Register(u, y),
             token[z].state # "FREE"
      PROVE  token'[z].user # token'[y].user
  <2>1. token'[y].user = u
    BY <1>2 DEF Register, NewToken, TypeOK
  <2>2. token[z].user # u
    BY <1>2 DEF Register, AbsentUsersOwnNothing
  <2>3. QED
    BY <1>2, <2>1, <2>2, TokensStep DEF TokenKept
<1>3. ASSUME NEW y \in TokenId, NEW z \in TokenId, z # y,
             NEW u \in User, NEW p \in Purpose, RequestToken(u, p, y),
             token'[z].state # "FREE",
             token'[z].user = token'[y].user, token'[z].purpose = token'[y].purpose
      PROVE  token'[z].state # "LIVE" /\ token'[z].generation < token'[y].generation
  <2>1. PICK g \in 1 .. MaxGeneration :
          /\ IsNextGeneration(u, p, g)
          /\ token'[y] = NewToken(u, p, g, now + Ttl(p), credential[u].epoch)
          /\ \A w \in TokenId \ {y} : token'[w] = Superseded(LiveTokens(u, p))[w]
    BY <1>3, RequestTokenRows
  <2>2. token'[y].user = u /\ token'[y].purpose = p /\ token'[y].generation = g
    BY <2>1 DEF NewToken
  <2>3. token'[z] = Superseded(LiveTokens(u, p))[z]
    BY <1>3, <2>1
  <2>4. CASE z \in LiveTokens(u, p)
    <3>1. token'[z].state = "REVOKED" /\ token'[z].generation = token[z].generation
      <4>1. token'[z] = Revoked(z) /\ token[z].state # "FREE"
        BY <2>3, <2>4 DEF Superseded, Revoked, LiveTokens, TokensOf
      <4>2. QED
        BY <4>1, ChangedRow
    <3>2. token[z].generation < g
      BY <2>1, <2>4 DEF IsNextGeneration, LiveTokens
    <3>3. QED
      BY <2>2, <3>1, <3>2
  <2>5. CASE z \notin LiveTokens(u, p)
    <3>1. token'[z] = token[z]
      BY <2>3, <2>5 DEF Superseded
    <3>2. z \in TokensOf(u, p)
      BY <1>3, <2>2, <3>1 DEF TokensOf
    <3>3. token[z].generation < g /\ token[z].state # "LIVE"
      BY <2>1, <2>5, <3>2 DEF IsNextGeneration, LiveTokens
    <3>4. QED
      BY <2>2, <3>1, <3>3
  <2>6. QED
    BY <2>4, <2>5
<1>4. CASE token[t].state = "FREE" /\ token[x].state = "FREE"
  <2>1. ASSUME NEW u \in User, Register(u, t)
        PROVE  FALSE
    BY <1>4, <2>1 DEF Register, TypeOK
  <2>2. QED
    BY <1>3, <1>4, <2>1, TokensAreIssued
<1>5. CASE token[t].state = "FREE" /\ token[x].state # "FREE"
  BY <1>2, <1>3, <1>5, TokensAreIssued
<1>6. CASE token[t].state # "FREE" /\ token[x].state = "FREE"
  <2>1. ASSUME NEW u \in User, NEW p \in Purpose, RequestToken(u, p, x)
        PROVE  FALSE
    BY <1>3, <2>1
  <2>2. QED
    BY <1>2, <1>6, <2>1, TokensAreIssued
<1>7. QED
  BY <1>1, <1>4, <1>5, <1>6

\* The ways the row of a token may change, once at most one is live.
LEMMA TokenChanges ==
  ASSUME TypeOK, OneLiveToken, [Next]_vars, NEW t \in TokenId, token[t].state # "FREE"
  PROVE  \/ token'[t] = token[t]
         \/ token[t].state = "LIVE" /\ token'[t] = Revoked(t)
         \/ /\ token[t].state = "LIVE" /\ token'[t] = Consumed(t)
            /\ VerifyEmail(t) \/ ResetPassword(t)
<1> DEFINE Goal == \/ token'[t] = token[t]
                   \/ token[t].state = "LIVE" /\ token'[t] = Revoked(t)
                   \/ /\ token[t].state = "LIVE" /\ token'[t] = Consumed(t)
                      /\ VerifyEmail(t) \/ ResetPassword(t)
<1>a. token \in [TokenId -> TokenRow \cup {FreeToken}]
  BY DEF TypeOK
<1>1. ASSUME NEW u, NEW p, NEW S \in SUBSET LiveTokens(u, p), token'[t] = Superseded(S)[t]
      PROVE  Goal
  <2>1. CASE t \in S
    BY <1>1, <2>1 DEF Superseded, LiveTokens, Revoked
  <2>2. CASE t \notin S
    BY <1>1, <2>2 DEF Superseded
  <2>3. QED
    BY <2>1, <2>2
<1>2. ASSUME NEW u \in User, NEW x \in TokenId, Register(u, x)
      PROVE  token'[t] = token[t]
  BY <1>2, <1>a DEF Register
<1>3. ASSUME NEW x \in TokenId, VerifyEmail(x)
      PROVE  Goal
  <2>1. CASE x = t
    BY <1>3, <2>1, VerifyEmailRows DEF VerifyEmail, Consumed
  <2>2. CASE x # t
    <3>1. t \notin LiveTokens(token[x].user, "EMAIL_VERIFICATION")
      BY <1>3, <2>2 DEF VerifyEmail, OneLiveToken, LiveTokens
    <3>2. QED
      BY <1>3, <2>2, <3>1, VerifyEmailRows
  <2>3. QED
    BY <2>1, <2>2
<1>4. ASSUME NEW u \in User, NEW p \in Purpose, NEW x \in TokenId, RequestToken(u, p, x)
      PROVE  Goal
  <2>1. x # t
    BY <1>4 DEF RequestToken
  <2>2. token'[t] = Superseded(LiveTokens(u, p))[t]
    BY <1>4, <2>1, RequestTokenRows
  <2>3. LiveTokens(u, p) \in SUBSET LiveTokens(u, p)
    OBVIOUS
  <2>4. QED
    BY <1>1, <2>2, <2>3
<1>5. ASSUME NEW x \in TokenId, ResetPassword(x)
      PROVE  Goal
  <2> DEFINE S == LiveTokens(token[x].user, "PASSWORD_RESET") \ {x}
  <2>1. CASE x = t
    BY <1>5, <2>1, ResetPasswordRows DEF ResetPassword, Consumed
  <2>2. CASE x # t
    <3>1. token'[t] = Superseded(S)[t]
      BY <1>5, <2>2, ResetPasswordRows
    <3>2. S \in SUBSET LiveTokens(token[x].user, "PASSWORD_RESET")
      OBVIOUS
    <3>3. QED
      BY <1>1, <3>1, <3>2
  <2>3. QED
    BY <2>1, <2>2
<1>6. ASSUME NEW c \in candidates, NEW s \in SessionId, ChangePassword(c, s)
      PROVE  Goal
  <2>1. token'[t] = Superseded(LiveTokens(c.user, "PASSWORD_RESET"))[t]
    BY <1>6 DEF ChangePassword
  <2>2. LiveTokens(c.user, "PASSWORD_RESET") \in SUBSET LiveTokens(c.user, "PASSWORD_RESET")
    OBVIOUS
  <2>3. QED
    BY <1>1, <2>1, <2>2
<1>7. QED
  BY <1>2, <1>3, <1>4, <1>5, <1>6
  DEF Next, vars, CheckPassword, Login, GetSession, Logout, LogoutAll, SetStatus,
      ChangeHashCost, Tick

LEMMA NewTokensAreLive ==
  ASSUME TypeOK, [Next]_vars, NEW t \in TokenId,
         token[t].state = "FREE", token'[t].state # "FREE"
  PROVE  token'[t].state = "LIVE" /\ token'[t].event = "PENDING"
<1>1. ASSUME NEW u \in User, Register(u, t)
      PROVE  token'[t].state = "LIVE" /\ token'[t].event = "PENDING"
  BY <1>1 DEF Register, NewToken, TypeOK
<1>2. ASSUME NEW u \in User, NEW p \in Purpose, RequestToken(u, p, t)
      PROVE  token'[t].state = "LIVE" /\ token'[t].event = "PENDING"
  <2>1. PICK g \in 1 .. MaxGeneration :
          token'[t] = NewToken(u, p, g, now + Ttl(p), credential[u].epoch)
    BY <1>2, RequestTokenRows
  <2>2. QED
    BY <2>1 DEF NewToken
<1>3. QED
  BY <1>1, <1>2, TokensAreIssued

LEMMA EventsStep ==
  ASSUME TypeOK, OneLiveToken, EventsFollowTokens, [Next]_vars
  PROVE  EventsFollowTokens'
<1> SUFFICES ASSUME NEW t \in TokenId, token'[t].state # "FREE"
             PROVE  token'[t].event = "OBSOLETE" <=> token'[t].state = "REVOKED"
  BY DEF EventsFollowTokens
<1>1. CASE token[t].state = "FREE"
  BY <1>1, NewTokensAreLive
<1>2. CASE token[t].state # "FREE"
  <2>1. /\ token[t] \in TokenRow
        /\ token[t].event = "OBSOLETE" <=> token[t].state = "REVOKED"
    BY <1>2 DEF TypeOK, FreeToken, EventsFollowTokens
  <2>2. CASE token'[t] = token[t]
    BY <2>1, <2>2
  <2>3. CASE token'[t] = Revoked(t)
    BY <2>1, <2>3 DEF Revoked, TokenRow
  <2>4. CASE token[t].state = "LIVE" /\ token'[t] = Consumed(t)
    <3>1. token'[t].state = "CONSUMED" /\ token'[t].event = token[t].event
      BY <2>1, <2>4 DEF Consumed, TokenRow
    <3>2. QED
      BY <2>1, <2>4, <3>1
  <2>5. QED
    BY <1>2, <2>2, <2>3, <2>4, TokenChanges
<1>3. QED
  BY <1>1, <1>2

LEMMA EpochsStep ==
  ASSUME TypeOK, [Next]_vars, NEW u \in User, user[u].status # "ABSENT",
         credential'[u].epoch # credential[u].epoch
  PROVE  \/ \E t \in TokenId : ResetPassword(t) /\ token[t].user = u
         \/ \E c \in candidates, s \in SessionId : ChangePassword(c, s) /\ c.user = u
<1>a. credential \in [User -> Credential] /\ credential[u] \in Credential
  BY DEF TypeOK
<1>1. ASSUME NEW x \in User, NEW t \in TokenId, Register(x, t)
      PROVE  FALSE
  <2>1. x # u
    BY <1>1 DEF Register
  <2>2. QED
    BY <1>1, <2>1, NewPasswordRow DEF Register
<1>2. ASSUME NEW t \in TokenId, ResetPassword(t)
      PROVE  token[t].user = u
  <2>1. token[t].user \in User
    BY <1>2 DEF ResetPassword, TypeOK, TokenRow, FreeToken
  <2>2. QED
    BY <1>2, <2>1, NewPasswordRow DEF ResetPassword
<1>3. ASSUME NEW c \in candidates, NEW s \in SessionId, ChangePassword(c, s)
      PROVE  c.user = u
  <2>1. c.user \in User
    BY DEF TypeOK, Candidate
  <2>2. QED
    BY <1>3, <2>1, NewPasswordRow DEF ChangePassword
<1>4. ASSUME NEW c \in candidates, NEW s \in SessionId, Login(c, s)
      PROVE  FALSE
  BY <1>4, <1>a DEF Login, Credential
<1>5. CASE ChangeHashCost
  BY <1>5, <1>a DEF ChangeHashCost, Credential
<1>6. QED
  BY <1>1, <1>2, <1>3, <1>4, <1>5
  DEF Next, vars, VerifyEmail, RequestToken, CheckPassword, GetSession, Logout,
      LogoutAll, SetStatus, Tick

LEMMA ResetTokensStep ==
  ASSUME TypeOK, AbsentUsersOwnNothing, ResetTokensFollowPassword, [Next]_vars
  PROVE  ResetTokensFollowPassword'
<1> SUFFICES ASSUME NEW t \in TokenId, token'[t].state = "LIVE",
                    token'[t].purpose = "PASSWORD_RESET"
             PROVE  token'[t].epoch = credential'[token'[t].user].epoch
  BY DEF ResetTokensFollowPassword
<1>1. CASE token[t].state # "FREE"
  <2> DEFINE u == token[t].user
  <2>1. TokenKept(t)
    BY <1>1, TokensStep
  <2>2. /\ token[t].state = "LIVE" /\ token[t].purpose = "PASSWORD_RESET"
        /\ token[t] \in TokenRow /\ u \in User
    BY <1>1, <2>1 DEF TokenKept, TypeOK, TokenRow, FreeToken
  <2>3. token[t].epoch = credential[u].epoch /\ user[u].status # "ABSENT"
    BY <2>2 DEF ResetTokensFollowPassword, AbsentUsersOwnNothing
  <2>4. t \in LiveTokens(u, "PASSWORD_RESET")
    BY <2>2 DEF LiveTokens, TokensOf
  <2>5. ASSUME NEW x \in TokenId, ResetPassword(x), token[x].user = u
        PROVE  FALSE
    <3>1. CASE x = t
      <4>1. token'[t] = Consumed(t)
        BY <2>5, <3>1, ResetPasswordRows DEF Consumed
      <4>2. QED
        BY <2>2, <4>1, ChangedRow
    <3>2. CASE x # t
      <4>1. token'[t] = Superseded(LiveTokens(token[x].user, "PASSWORD_RESET") \ {x})[t]
        BY <2>5, <3>2, ResetPasswordRows
      <4>2. t \in LiveTokens(token[x].user, "PASSWORD_RESET") \ {x}
        BY <2>4, <2>5, <3>2
      <4>3. token'[t] = Revoked(t)
        BY <4>1, <4>2 DEF Superseded, Revoked
      <4>4. QED
        BY <2>2, <4>3, ChangedRow
    <3>3. QED
      BY <3>1, <3>2
  <2>6. ASSUME NEW c \in candidates, NEW s \in SessionId, ChangePassword(c, s), c.user = u
        PROVE  FALSE
    <3>1. token'[t] = Superseded(LiveTokens(u, "PASSWORD_RESET"))[t]
      BY <2>6 DEF ChangePassword
    <3>2. token'[t] = Revoked(t)
      BY <2>4, <3>1 DEF Superseded, Revoked
    <3>3. QED
      BY <2>2, <3>2, ChangedRow
  <2>7. credential'[u].epoch = credential[u].epoch
    BY <2>2, <2>3, <2>5, <2>6, EpochsStep
  <2>8. QED
    BY <2>1, <2>3, <2>7 DEF TokenKept
<1>2. CASE token[t].state = "FREE"
  <2>1. ASSUME NEW u \in User, Register(u, t)
        PROVE  FALSE
    BY <2>1 DEF Register, NewToken, TypeOK
  <2>2. ASSUME NEW u \in User, NEW p \in Purpose, RequestToken(u, p, t)
        PROVE  token'[t].epoch = credential'[token'[t].user].epoch
    <3>1. PICK g \in 1 .. MaxGeneration :
            token'[t] = NewToken(u, p, g, now + Ttl(p), credential[u].epoch)
      BY <2>2, RequestTokenRows
    <3>2. credential' = credential
      BY <2>2 DEF RequestToken
    <3>3. QED
      BY <3>1, <3>2 DEF NewToken
  <2>3. QED
    BY <1>2, <2>1, <2>2, TokensAreIssued
<1>3. QED
  BY <1>1, <1>2

\* Verifying consumes the one live token, and all the others were revoked.
LEMMA VerifyEmailStep ==
  ASSUME TypeOK, OneLiveToken, VerifiedByOneToken, NEW t \in TokenId, VerifyEmail(t)
  PROVE  VerifiedByOneToken'
<1> DEFINE u == token[t].user
           T(x) == TokensOf(x, "EMAIL_VERIFICATION")
<1>a. /\ token[t] \in TokenRow /\ u \in User /\ user \in [User -> UserRow]
      /\ token[t].state = "LIVE" /\ t \in T(u) /\ user[u].email = "UNVERIFIED"
  BY DEF VerifyEmail, TypeOK, TokenRow, FreeToken, TokensOf
<1>1. token'[t] = Consumed(t)
  BY VerifyEmailRows DEF Consumed
<1>2. \A x \in TokenId \ {t} : token'[x] = token[x]
  <2>1. \A x \in TokenId \ {t} : x \notin LiveTokens(u, "EMAIL_VERIFICATION")
    BY <1>a DEF VerifyEmail, OneLiveToken, LiveTokens
  <2>2. QED
    BY <2>1, VerifyEmailRows
<1>3. \A x \in T(u) \ {t} : token[x].state = "REVOKED"
  <2>1. \A x \in T(u) : token[x].state # "CONSUMED"
    BY <1>a DEF VerifiedByOneToken
  <2>2. \A x \in T(u) \ {t} : token[x].state # "LIVE"
    BY <1>a DEF VerifyEmail, OneLiveToken
  <2>3. \A x \in T(u) : token[x] \in TokenRow
    BY DEF TokensOf, TypeOK, FreeToken
  <2>4. QED
    BY <2>1, <2>2, <2>3 DEF TokenRow
<1>4. token'[t].state = "CONSUMED" /\ token'[t].user = u /\ token'[t].purpose = token[t].purpose
  BY <1>a, <1>1 DEF Consumed, TokenRow
<1>5. \A x \in User : T(x)' = T(x)
  BY <1>a, <1>2, <1>4 DEF TokensOf
<1>6. \A x \in User :
        /\ x = u => user'[x].email = "VERIFIED"
        /\ x # u => user'[x].email = user[x].email
  BY <1>a DEF VerifyEmail, UserRow
<1>7. ASSUME NEW x \in User
      PROVE  /\ user'[x].email = "VERIFIED" <=> \E y \in T(x)' : token'[y].state = "CONSUMED"
             /\ \A y \in T(x)' : token'[y].state = "CONSUMED" =>
                  \A z \in T(x)' \ {y} : token'[z].state = "REVOKED"
  <2> DEFINE X == T(x)
             Verified == user'[x].email = "VERIFIED"
             IsConsumed(y) == token'[y].state = "CONSUMED"
             IsRevoked(y) == token'[y].state = "REVOKED"
  <2>1. X' = X /\ X \subseteq TokenId
    BY <1>5, <1>7 DEF TokensOf
  <2>2. CASE x = u
    <3>1. t \in X /\ Verified /\ IsConsumed(t)
      BY <1>a, <1>4, <1>6, <2>2
    <3>2. \A y \in X \ {t} : IsRevoked(y) /\ ~ IsConsumed(y)
      BY <1>2, <1>3, <2>1, <2>2
    <3> HIDE DEF X, Verified, IsConsumed, IsRevoked
    <3>3. /\ Verified <=> \E y \in X : IsConsumed(y)
          /\ \A y \in X : IsConsumed(y) => \A z \in X \ {y} : IsRevoked(z)
      BY <3>1, <3>2
    <3> USE DEF X, Verified, IsConsumed, IsRevoked
    <3>4. QED
      BY <2>1, <3>3
  <2>3. CASE x # u
    <3>1. \A y \in X : token'[y] = token[y]
      BY <1>2, <2>1, <2>3 DEF TokensOf
    <3>2. user'[x].email = user[x].email
      BY <1>6, <1>7, <2>3
    <3>3. /\ user[x].email = "VERIFIED" <=> \E y \in X : token[y].state = "CONSUMED"
          /\ \A y \in X : token[y].state = "CONSUMED" =>
               \A z \in X \ {y} : token[z].state = "REVOKED"
      BY <1>7 DEF VerifiedByOneToken
    <3>4. /\ Verified <=> \E y \in X : IsConsumed(y)
          /\ \A y \in X : IsConsumed(y) => \A z \in X \ {y} : IsRevoked(z)
      <4> HIDE DEF X
      <4>1. QED
        BY <3>1, <3>2, <3>3
    <3>5. QED
      BY <2>1, <3>4
  <2>4. QED
    BY <2>2, <2>3
<1>8. QED
  BY <1>7 DEF VerifiedByOneToken

\* Any other step leaves the address and the consumed tokens as they are.
LEMMA VerifiedStep ==
  ASSUME TypeOK, CandidatesFollowCredential, AbsentUsersOwnNothing, OneLiveToken,
         VerifiedByOneToken, [Next]_vars
  PROVE  VerifiedByOneToken'
<1>1. CASE \E t \in TokenId : VerifyEmail(t)
  BY <1>1, VerifyEmailStep
<1>2. CASE ~ \E t \in TokenId : VerifyEmail(t)
  <2> DEFINE T(x) == TokensOf(x, "EMAIL_VERIFICATION")
  <2>1. \A u \in User : user'[u].email = user[u].email
    <3> SUFFICES ASSUME NEW u \in User
                 PROVE  user'[u].email = user[u].email
      OBVIOUS
    <3>1. user[u] \in UserRow /\ user \in [User -> UserRow]
      BY DEF TypeOK
    <3>2. ASSUME NEW x, \/ user' = [user EXCEPT ![x].status = "ACTIVE"]
                        \/ user' = [user EXCEPT ![x].status = "SUSPENDED"]
                        \/ user' = [user EXCEPT ![x].version = @ + 1]
          PROVE  user'[u].email = user[u].email
      BY <3>1, <3>2 DEF UserRow
    <3>3. QED
      BY <1>2, <3>2 DEF Next, vars, Register, RequestToken, ResetPassword, CheckPassword,
         Login, GetSession, Logout, LogoutAll, ChangePassword, SetStatus, ChangeHashCost,
         Tick
  <2>2. ASSUME NEW u \in User, NEW t \in T(u)', token[t].state # "FREE"
        PROVE  /\ t \in T(u)
               /\ token'[t].state = "CONSUMED" <=> token[t].state = "CONSUMED"
               /\ token[t].state = "REVOKED" => token'[t].state = "REVOKED"
    <3>1. t \in TokenId /\ token[t] \in TokenRow /\ TokenKept(t)
      BY <2>2, TokensStep DEF TokensOf, TypeOK, FreeToken
    <3>2. t \in T(u) /\ token[t].purpose = "EMAIL_VERIFICATION"
      BY <2>2, <3>1 DEF TokensOf, TokenKept
    <3>3. ~ ResetPassword(t) /\ ~ VerifyEmail(t)
      BY <1>2, <3>1, <3>2 DEF ResetPassword
    <3>4. \/ token'[t] = token[t]
          \/ token[t].state = "LIVE" /\ token'[t] = Revoked(t)
      BY <2>2, <3>1, <3>3, TokenChanges
    <3>5. QED
      BY <3>1, <3>2, <3>4 DEF Revoked, TokenRow
  <2>3. ASSUME NEW u \in User, NEW t \in T(u), token[t].state = "CONSUMED"
        PROVE  /\ t \in T(u)' /\ token'[t].state = "CONSUMED"
               /\ \A x \in T(u)' : token[x].state # "FREE"
    <3>1. TokenKept(t)
      BY <2>3, TokensStep DEF TokensOf
    <3>2. t \in T(u)' /\ token'[t].state = "CONSUMED"
      BY <2>3, <3>1 DEF TokensOf, TokenKept
    <3>3. user[u].email = "VERIFIED" /\ user[u].status # "ABSENT"
      BY <2>3 DEF VerifiedByOneToken, AbsentUsersOwnNothing, TokensOf
    <3>4. ASSUME NEW x \in T(u)', token[x].state = "FREE"
          PROVE  FALSE
      <4>1. /\ x \in TokenId /\ token'[x].state # "FREE"
            /\ token'[x].user = u /\ token'[x].purpose = "EMAIL_VERIFICATION"
        BY <3>4 DEF TokensOf
      <4>2. ASSUME NEW y \in User, Register(y, x)
            PROVE  y = u
        BY <4>1, <4>2 DEF Register, NewToken, TypeOK
      <4>3. ASSUME NEW y \in User, NEW p \in Purpose, RequestToken(y, p, x)
            PROVE  y = u /\ p = "EMAIL_VERIFICATION"
        <5>1. PICK g \in 1 .. MaxGeneration :
                token'[x] = NewToken(y, p, g, now + Ttl(p), credential[y].epoch)
          BY <4>1, <4>3, RequestTokenRows
        <5>2. QED
          BY <4>1, <5>1 DEF NewToken
      <4>4. QED
        BY <3>3, <3>4, <4>1, <4>2, <4>3, TokensAreIssued DEF Register, RequestToken, Eligible
    <3>5. QED
      BY <3>2, <3>4
  <2>4. SUFFICES ASSUME NEW u \in User
                 PROVE  /\ user'[u].email = "VERIFIED"
                             <=> \E t \in T(u)' : token'[t].state = "CONSUMED"
                        /\ \A t \in T(u)' : token'[t].state = "CONSUMED" =>
                             \A x \in T(u)' \ {t} : token'[x].state = "REVOKED"
    BY DEF VerifiedByOneToken
  <2>5. \A t \in T(u)' : token'[t].state = "CONSUMED" =>
          t \in T(u) /\ token[t].state = "CONSUMED"
    <3> SUFFICES ASSUME NEW t \in T(u)', token'[t].state = "CONSUMED"
                 PROVE  t \in T(u) /\ token[t].state = "CONSUMED"
      OBVIOUS
    <3>1. token[t].state # "FREE"
      BY NewTokensAreLive DEF TokensOf
    <3>2. QED
      BY <2>2, <3>1
  <2>6. user'[u].email = "VERIFIED" <=> \E t \in T(u)' : token'[t].state = "CONSUMED"
    BY <2>1, <2>3, <2>5 DEF VerifiedByOneToken
  <2>7. ASSUME NEW t \in T(u)', token'[t].state = "CONSUMED", NEW x \in T(u)', x # t
        PROVE  token'[x].state = "REVOKED"
    <3>1. t \in T(u) /\ token[t].state = "CONSUMED"
      BY <2>5, <2>7
    <3>2. token[x].state # "FREE"
      BY <2>3, <3>1
    <3>3. x \in T(u)
      BY <2>2, <3>2
    <3>4. token[x].state = "REVOKED"
      BY <2>7, <3>1, <3>3 DEF VerifiedByOneToken
    <3>5. QED
      BY <2>2, <3>2, <3>4
  <2>8. QED
    BY <2>6, <2>7
<1>3. QED
  BY <1>1, <1>2

-----------------------------------------------------------------------------
(* The invariant, and what follows from it *)

THEOREM InductiveInvariant == Spec => []IInv
<1>1. Init => IInv
  BY DEF Init, IInv, TypeOK, UserRow, Credential, FreeSession, FreeToken,
     CandidatesFollowCredential, AbsentUsersOwnNothing, LiveSessionsAreCurrent, OneLiveToken,
     EventsFollowTokens, ResetTokensFollowPassword, VerifiedByOneToken, TokensOf
<1>2. IInv /\ TypeOK' /\ [Next]_vars => IInv'
  BY CandidatesStep, AbsentUsersStep, LiveSessionsStep, OneLiveTokenStep, EventsStep,
     ResetTokensStep, VerifiedStep DEF IInv
<1>3. QED
  BY <1>1, <1>2, TypeCorrectness, PTL DEF Spec

\* However logins, rehashes, resets and changes of the password overlap, a
\* session that carries the current version was opened with the password the
\* user has now: login's comparison of the hash under lock is enough.
THEOREM SessionsBelongToPassword == Spec => []SessionsFollowPassword
<1>1. IInv => SessionsFollowPassword
  BY DEF IInv, LiveSessionsAreCurrent, SessionsFollowPassword
<1>2. QED
  BY <1>1, InductiveInvariant, PTL

\* resetPassword, changePassword and logoutAll raise the version and revoke the
\* rows together, and login reads the version it writes: no unrevoked row is
\* ever left under a version that is no longer the user's.
THEOREM SessionsAreCurrent == Spec => []NoLiveSessionIsStale
<1>1. IInv => NoLiveSessionIsStale
  BY DEF IInv, LiveSessionsAreCurrent, NoLiveSessionIsStale
<1>2. QED
  BY <1>1, InductiveInvariant, PTL

\* Of a user's tokens for one purpose at most one is live, and it is the newest.
THEOREM NewestTokenOnly == Spec => []OneLiveToken
<1>1. IInv => OneLiveToken
  BY DEF IInv
<1>2. QED
  BY <1>1, InductiveInvariant, PTL

\* The event of a token is obsolete exactly when the token was revoked; that
\* verifyEmail revokes older tokens and leaves their events alone is harmless,
\* because (NewestTokenOnly) there is none to revoke.
THEOREM MailFollowsTokens == Spec => []EventsFollowTokens
<1>1. IInv => EventsFollowTokens
  BY DEF IInv
<1>2. QED
  BY <1>1, InductiveInvariant, PTL

\* A live reset token was asked for under the password the user has now.
THEOREM ResetTokensDieWithPassword == Spec => []ResetTokensFollowPassword
<1>1. IInv => ResetTokensFollowPassword
  BY DEF IInv
<1>2. QED
  BY <1>1, InductiveInvariant, PTL

\* An address is verified exactly when one of its tokens was consumed, and the
\* others are then revoked.
THEOREM VerificationIsByToken == Spec => []VerifiedByOneToken
<1>1. IInv => VerifiedByOneToken
  BY DEF IInv
<1>2. QED
  BY <1>1, InductiveInvariant, PTL

\* No handler moves a session to another user or postpones its absolute expiry,
\* moves the expiry of a token, or uses a token that was consumed or revoked.
THEOREM BoundsAreKept == Spec => RowsKeepTheirBounds
<1> DEFINE Kept ==
      /\ \A s \in SessionId : session[s].state # "FREE" =>
           /\ session'[s].user = session[s].user
           /\ session'[s].absolute = session[s].absolute
      /\ \A t \in TokenId : token[t].state # "FREE" =>
           /\ token'[t].expires = token[t].expires
           /\ token[t].state # "LIVE" => token'[t].state = token[t].state
<1>1. TypeOK /\ [Next]_vars => [Kept]_vars
  BY SessionsStep, TokensStep DEF SessionKept, TokenKept
<1>2. Spec => [][Kept]_vars
  BY <1>1, TypeCorrectness, PTL DEF Spec
<1>3. QED
  BY <1>2 DEF RowsKeepTheirBounds

-----------------------------------------------------------------------------
(* Times of sessions *)

LEMMA TimesStep ==
  ASSUME TypeOK, [Next]_vars, NEW s \in SessionId, session[s].state # "FREE"
  PROVE  \/ /\ session'[s].active = session[s].active
            /\ session'[s].idle = session[s].idle
         \/ /\ Usable(s)
            /\ session'[s].active = now
            /\ session'[s].idle = MinOf(now + IdleTtl, session[s].absolute)
<1> DEFINE Goal == \/ /\ session'[s].active = session[s].active
                      /\ session'[s].idle = session[s].idle
                   \/ /\ Usable(s)
                      /\ session'[s].active = now
                      /\ session'[s].idle = MinOf(now + IdleTtl, session[s].absolute)
<1>a. session[s] \in SessionRow /\ session \in [SessionId -> SessionRow \cup {FreeSession}]
  BY DEF TypeOK, FreeSession
<1>1. CASE session'[s] = session[s]
  BY <1>1
<1>2. CASE session'[s] = [session[s] EXCEPT !.state = "REVOKED"]
  BY <1>a, <1>2 DEF SessionRow
<1>3. ASSUME NEW u, session' = AllRevoked(u)
      PROVE  Goal
  BY <1>1, <1>2, <1>3 DEF AllRevoked
<1>4. ASSUME NEW c \in candidates, NEW x \in SessionId, Login(c, x)
      PROVE  session'[s] = session[s]
  BY <1>4, <1>a DEF Login
<1>5. ASSUME NEW x \in SessionId, GetSession(x)
      PROVE  Goal
  <2>1. CASE x = s
    <3>1. session'[s] = [session[s] EXCEPT
                           !.active = now, !.idle = MinOf(now + IdleTtl, session[s].absolute)]
      BY <1>5, <1>a, <2>1 DEF GetSession
    <3>2. QED
      BY <1>5, <1>a, <2>1, <3>1 DEF GetSession, SessionRow
  <2>2. CASE x # s
    BY <1>1, <1>5, <1>a, <2>2 DEF GetSession
  <2>3. QED
    BY <2>1, <2>2
<1>6. ASSUME NEW x \in SessionId, Logout(x)
      PROVE  session'[s] = session[s] \/ session'[s] = [session[s] EXCEPT !.state = "REVOKED"]
  BY <1>6, <1>a DEF Logout
<1>7. QED
  BY <1>1, <1>2, <1>3, <1>4, <1>5, <1>6
  DEF Next, vars, Register, VerifyEmail, RequestToken, ResetPassword, CheckPassword,
      LogoutAll, ChangePassword, SetStatus, ChangeHashCost, Tick

\* No login and no read of a session, whatever the clock reading it works with,
\* writes a row that breaks the order of times the schema demands.
THEOREM TimesAreOrdered == Spec => []SessionTimesOrdered
<1> USE TtlAssumption
<1>1. Init => SessionTimesOrdered
  BY DEF Init, SessionTimesOrdered, FreeSession
<1>2. TypeOK /\ SessionTimesOrdered /\ [Next]_vars => SessionTimesOrdered'
  <2> SUFFICES ASSUME TypeOK, SessionTimesOrdered, [Next]_vars,
                      NEW s \in SessionId, session'[s].state # "FREE"
               PROVE  /\ session'[s].active <= session'[s].idle
                      /\ session'[s].idle <= session'[s].absolute
    BY DEF SessionTimesOrdered
  <2>1. CASE session[s].state # "FREE"
    <3>1. /\ session[s].active <= session[s].idle /\ session[s].idle <= session[s].absolute
          /\ session'[s].absolute = session[s].absolute
          /\ session[s] \in SessionRow /\ now \in Nat /\ session[s].absolute \in Nat
      BY <2>1, SessionsStep DEF SessionTimesOrdered, SessionKept, TypeOK, FreeSession, SessionRow
    <3>2. CASE Usable(s) /\ session'[s].active = now
                 /\ session'[s].idle = MinOf(now + IdleTtl, session[s].absolute)
      BY <3>1, <3>2 DEF Usable, MinOf
    <3>3. CASE session'[s].active = session[s].active /\ session'[s].idle = session[s].idle
      BY <3>1, <3>3
    <3>4. QED
      BY <2>1, <3>2, <3>3, TimesStep
  <2>2. CASE session[s].state = "FREE"
    <3>1. PICK c \in candidates : Login(c, s)
      BY <2>2, SessionsOpenAtLogin
    <3>2. PICK at \in Reading :
            session'[s] = [state |-> "LIVE", user |-> c.user,
                           issued |-> user[c.user].version, epoch |-> c.epoch,
                           active |-> at,
                           idle |-> MinOf(at + IdleTtl, at + AbsoluteTtl),
                           absolute |-> at + AbsoluteTtl]
      BY <3>1 DEF Login, TypeOK
    <3>3. at \in Nat
      BY DEF Reading, TypeOK
    <3>4. QED
      BY <3>2, <3>3 DEF MinOf
  <2>3. QED
    BY <2>1, <2>2
<1>3. QED
  BY <1>1, <1>2, TypeCorrectness, PTL DEF Spec

LEMMA DeadStep ==
  ASSUME IInv, TypeOK', [Next]_vars, NEW s \in SessionId, Dead(s)
  PROVE  Dead(s)'
<1>1. /\ session[s].state # "FREE" /\ session'[s].state # "FREE"
      /\ session'[s].state = "LIVE" => session[s].state = "LIVE"
  BY SessionsStep DEF Dead, IInv, SessionKept
<1>2. CASE session'[s].state = "LIVE"
  <2>1. session[s].state = "LIVE" /\ session[s].issued = user[session[s].user].version
    BY <1>1, <1>2 DEF IInv, LiveSessionsAreCurrent
  <2>2. session[s].idle <= now
    BY <2>1 DEF Dead
  <2>3. session[s].idle \in Nat /\ now \in Nat
    BY <2>1 DEF IInv, TypeOK, SessionRow, FreeSession
  <2>4. ~ Usable(s)
    BY <2>2, <2>3 DEF Usable
  <2>5. session'[s].idle = session[s].idle
    BY <1>1, <2>4, TimesStep DEF IInv
  <2>6. now' = now \/ now' = now + 1
    BY DEF Next, vars, Register, VerifyEmail, RequestToken, ResetPassword, CheckPassword,
       Login, GetSession, Logout, LogoutAll, ChangePassword, SetStatus, ChangeHashCost, Tick
  <2>7. QED
    BY <1>1, <2>2, <2>3, <2>5, <2>6 DEF Dead
<1>3. CASE session'[s].state # "LIVE"
  <2>1. session'[s].state = "REVOKED"
    BY <1>1, <1>3 DEF TypeOK, SessionRow, FreeSession
  <2>2. QED
    BY <1>1, <2>1 DEF Dead
<1>4. QED
  BY <1>2, <1>3

\* No read of a session revives it, however late it commits: once revoked, idle
\* for too long or overtaken by a new version, it is never usable again.
THEOREM DeadIsForever == Spec => DeadSessionsStayDead
<1> DEFINE Forever == \A s \in SessionId : Dead(s) => Dead(s)'
<1>1. IInv /\ TypeOK' /\ [Next]_vars => [Forever]_vars
  BY DeadStep
<1>2. Spec => [][Forever]_vars
  BY <1>1, InductiveInvariant, TypeCorrectness, PTL DEF Spec
<1>3. QED
  BY <1>2 DEF DeadSessionsStayDead

(***************************************************************************)
(* The refinement of Access.  The mapping loses hashes, versions and       *)
(* times, so what a step does to a row is first brought into the terms of  *)
(* the mapped one, row by row; the steps of Access are put together from   *)
(* these.                                                                  *)
(***************************************************************************)
Passwords == [u \in User |-> credential[u].epoch]
VerifiedUsers == {u \in User : user[u].email = "VERIFIED"}
Sessions == [s \in SessionId |-> AccessOf(s)]
Tokens == [t \in TokenId |-> TokenOf(t)]

\* Whoever has an account has had a password.
UsersHavePasswords ==
  \A u \in User : user[u].status # "ABSENT" => credential[u].epoch # 0

RefInv == IInv /\ UsersHavePasswords

LEMMA EpochsGrow ==
  ASSUME TypeOK, [Next]_vars, NEW u \in User
  PROVE  \/ credential'[u].epoch = credential[u].epoch /\
            (user[u].status = "ABSENT" => user'[u].status = "ABSENT")
         \/ credential'[u].epoch = credential[u].epoch + 1
<1> DEFINE Goal == \/ credential'[u].epoch = credential[u].epoch /\
                      (user[u].status = "ABSENT" => user'[u].status = "ABSENT")
                   \/ credential'[u].epoch = credential[u].epoch + 1
<1>a. /\ user \in [User -> UserRow] /\ user[u] \in UserRow
      /\ credential \in [User -> Credential] /\ credential[u] \in Credential
  BY DEF TypeOK
<1>1. ASSUME NEW x, credential' = NewPassword(x), x = u \/ user'[u].status = user[u].status
      PROVE  Goal
  BY <1>1, <1>a DEF NewPassword, Credential
<1>2. ASSUME NEW x \in User, NEW t \in TokenId, Register(x, t)
      PROVE  Goal
  <2>1. x = u \/ user'[u].status = user[u].status
    BY <1>2, <1>a DEF Register
  <2>2. QED
    BY <1>1, <1>2, <2>1 DEF Register
<1>3. ASSUME NEW x, user' = [user EXCEPT ![x].version = @ + 1]
      PROVE  user'[u].status = user[u].status
  BY <1>3, <1>a DEF UserRow
<1>4. ASSUME NEW x, user' = [user EXCEPT ![x].email = "VERIFIED"]
      PROVE  user'[u].status = user[u].status
  BY <1>4, <1>a DEF UserRow
<1>5. ASSUME NEW c \in candidates, NEW s \in SessionId, Login(c, s)
      PROVE  Goal
  BY <1>5, <1>a DEF Login, Credential
<1>6. CASE ChangeHashCost
  BY <1>6, <1>a DEF ChangeHashCost, Credential
<1>7. ASSUME NEW x \in User, SetStatus(x)
      PROVE  Goal
  BY <1>7, <1>a DEF SetStatus, UserRow
<1>8. ASSUME NEW t \in TokenId, VerifyEmail(t)
      PROVE  Goal
  BY <1>4, <1>8 DEF VerifyEmail
<1>9. ASSUME NEW s \in SessionId, LogoutAll(s)
      PROVE  Goal
  BY <1>3, <1>9 DEF LogoutAll
<1>10. ASSUME NEW t \in TokenId, ResetPassword(t)
       PROVE  Goal
  BY <1>1, <1>3, <1>10 DEF ResetPassword
<1>11. ASSUME NEW c \in candidates, NEW s \in SessionId, ChangePassword(c, s)
       PROVE  Goal
  BY <1>1, <1>3, <1>11 DEF ChangePassword
<1>12. QED
  BY <1>2, <1>5, <1>6, <1>7, <1>8, <1>9, <1>10, <1>11
  DEF Next, vars, RequestToken, CheckPassword, GetSession, Logout, Tick

LEMMA RefinementInvariant == Spec => []RefInv
<1>1. Init => UsersHavePasswords
  BY DEF Init, UsersHavePasswords
<1>2. IInv /\ UsersHavePasswords /\ [Next]_vars => UsersHavePasswords'
  <2> SUFFICES ASSUME IInv, UsersHavePasswords, [Next]_vars, NEW u \in User,
                      user'[u].status # "ABSENT"
               PROVE  credential'[u].epoch # 0
    BY DEF UsersHavePasswords
  <2>1. credential[u].epoch \in Nat
    BY DEF IInv, TypeOK, Credential
  <2>2. QED
    BY <2>1, EpochsGrow DEF IInv, UsersHavePasswords
<1>3. QED
  BY <1>1, <1>2, InductiveInvariant, PTL DEF Spec, RefInv

-----------------------------------------------------------------------------
(* Sessions *)

LEMMA AccessFields ==
  ASSUME NEW s \in SessionId
  PROVE  /\ AccessOf(s).state = "NONE" <=> session[s].state = "FREE"
         /\ AccessOf(s).state = "NONE" <=> AccessOf(s) = Abstract!None
         /\ AccessOf(s).state = "OPEN" <=> session[s].state # "FREE" /\ ~ Dead(s)
         /\ session[s].state # "FREE" =>
              /\ AccessOf(s).user = session[s].user
              /\ AccessOf(s).password = session[s].epoch
              /\ Dead(s) => AccessOf(s).state = "OVER"
BY DEF AccessOf, Dead, Abstract!None

\* A step that touches neither a session's row nor what its life depends on.
LEMMA AccessStays ==
  ASSUME NEW s \in SessionId, session'[s] = session[s], now' = now,
         session[s].state = "FREE"
           \/ user'[session[s].user].version = user[session[s].user].version
  PROVE  AccessOf(s)' = AccessOf(s)
BY DEF AccessOf, Dead

\* Unless it is the login that opens it, a step ends a session or leaves it.
LEMMA SessionFades ==
  ASSUME IInv, TypeOK', [Next]_vars, NEW s \in SessionId,
         \A c \in candidates : ~ Login(c, s)
  PROVE  AccessOf(s)' = IF s \in {x \in SessionId : Dead(x)'} /\ AccessOf(s).state = "OPEN"
                          THEN [AccessOf(s) EXCEPT !.state = "OVER"] ELSE AccessOf(s)
<1>1. CASE session[s].state = "FREE"
  <2>1. session'[s].state = "FREE"
    BY <1>1, SessionsOpenAtLogin DEF IInv
  <2>2. QED
    BY <1>1, <2>1 DEF AccessOf, Dead
<1>2. CASE session[s].state # "FREE"
  <2>1. SessionKept(s)
    BY <1>2, SessionsStep DEF IInv
  <2>2. Dead(s) => Dead(s)'
    BY DeadStep
  <2>3. AccessOf(s)' = [state |-> IF Dead(s)' THEN "OVER" ELSE "OPEN",
                        user |-> session[s].user, password |-> session[s].epoch]
    BY <2>1 DEF AccessOf, SessionKept
  <2>4. AccessOf(s) = [state |-> IF Dead(s) THEN "OVER" ELSE "OPEN",
                       user |-> session[s].user, password |-> session[s].epoch]
    BY <1>2 DEF AccessOf
  <2> HIDE DEF Dead, AccessOf
  <2>5. QED
    BY <2>2, <2>3, <2>4
<1>3. QED
  BY <1>1, <1>2

\* Logouts, the clock, and every step the mapping does not show.
LEMMA SessionsEnd ==
  ASSUME IInv, TypeOK', [Next]_vars,
         \A c \in candidates, s \in SessionId : ~ Login(c, s),
         Passwords' = Passwords, VerifiedUsers' = VerifiedUsers, Tokens' = Tokens
  PROVE  Abstract!End
<1>1. PICK S \in SUBSET SessionId : S = {x \in SessionId : Dead(x)'}
  OBVIOUS
<1>2. \A s \in SessionId :
        AccessOf(s)' = IF s \in S /\ AccessOf(s).state = "OPEN"
                         THEN [AccessOf(s) EXCEPT !.state = "OVER"] ELSE AccessOf(s)
  BY <1>1, SessionFades
<1>3. Sessions' = Abstract!Ended(S)
  BY <1>2 DEF Abstract!Ended, Sessions
<1>4. QED
  BY <1>3 DEF Abstract!End, Sessions, Passwords, VerifiedUsers, Tokens

\* What goes with a new password ends the open sessions of its user, no others.
LEMMA ReplacementEnds ==
  ASSUME TypeOK, NEW u \in User, session' = AllRevoked(u), now' = now,
         user' = [user EXCEPT ![u].version = @ + 1]
  PROVE  Sessions' = Abstract!Ended({s \in SessionId : Sessions[s].state = "OPEN"
                                                       /\ Sessions[s].user = u})
<1> DEFINE S == {s \in SessionId : Sessions[s].state = "OPEN" /\ Sessions[s].user = u}
<1>1. ASSUME NEW s \in SessionId
      PROVE  AccessOf(s)' = IF s \in S /\ AccessOf(s).state = "OPEN"
                              THEN [AccessOf(s) EXCEPT !.state = "OVER"] ELSE AccessOf(s)
  <2>a. session[s] \in SessionRow \/ session[s] = FreeSession
    BY DEF TypeOK
  <2>b. Sessions[s] = AccessOf(s)
    BY DEF Sessions
  <2>1. CASE session[s].state = "LIVE" /\ session[s].user = u
    <3>1. /\ session'[s].state = "REVOKED" /\ session'[s].user = u
          /\ session'[s].epoch = session[s].epoch
      BY <2>a, <2>1 DEF AllRevoked, SessionRow, FreeSession
    <3>2. AccessOf(s)' = [state |-> "OVER", user |-> u, password |-> session[s].epoch]
      BY <3>1 DEF AccessOf, Dead
    <3>3. AccessOf(s) = [state |-> IF Dead(s) THEN "OVER" ELSE "OPEN",
                         user |-> u, password |-> session[s].epoch]
      BY <2>1 DEF AccessOf
    <3> HIDE DEF AccessOf, Dead
    <3>4. QED
      BY <2>b, <3>2, <3>3
  <2>2. CASE session[s].state # "LIVE" /\ session[s].user = u
    <3>1. session'[s] = session[s]
      BY <2>2 DEF AllRevoked
    <3>2. session[s].state = "FREE" \/ (Dead(s) /\ Dead(s)')
      BY <2>a, <2>2, <3>1 DEF Dead, SessionRow, FreeSession
    <3>3. AccessOf(s)' = AccessOf(s) /\ AccessOf(s).state # "OPEN"
      <4> HIDE DEF Dead
      <4>1. QED
        BY <3>1, <3>2 DEF AccessOf
    <3>4. QED
      BY <3>3
  <2>3. CASE session[s].user # u \/ session[s].state = "FREE"
    <3>1. session'[s] = session[s]
      BY <2>3 DEF AllRevoked
    <3>2. \/ session[s].state = "FREE"
          \/ user'[session[s].user].version = user[session[s].user].version
      BY <2>a, <2>3 DEF SessionRow, FreeSession, TypeOK
    <3>3. AccessOf(s)' = AccessOf(s)
      BY <3>1, <3>2, AccessStays
    <3>4. s \in S => AccessOf(s).state # "OPEN"
      BY <2>b, <2>3, AccessFields
    <3>5. QED
      BY <3>3, <3>4
  <2>4. QED
    BY <2>1, <2>2, <2>3
<1>2. QED
  BY <1>1 DEF Abstract!Ended, Sessions

-----------------------------------------------------------------------------
(* Tokens *)

LEMMA MappedLiveTokens ==
  ASSUME NEW u \in User, NEW p \in Purpose
  PROVE  Abstract!LiveOf(u, p) = LiveTokens(u, p)
BY DEF Abstract!LiveOf, LiveTokens, TokensOf, Tokens, TokenOf

\* How the changes the handlers make to a row look from outside.
LEMMA MappedTokenChange ==
  ASSUME TypeOK, NEW t \in TokenId
  PROVE  /\ token'[t] = token[t] => TokenOf(t)' = TokenOf(t)
         /\ token[t].state # "FREE" /\ token'[t] = Revoked(t) =>
              TokenOf(t)' = [TokenOf(t) EXCEPT !.state = "REVOKED"]
         /\ token[t].state # "FREE" /\ token'[t] = Consumed(t) =>
              TokenOf(t)' = [TokenOf(t) EXCEPT !.state = "CONSUMED"]
<1>1. token'[t] = token[t] => TokenOf(t)' = TokenOf(t)
  BY DEF TokenOf
<1>2. ASSUME token[t].state # "FREE", token'[t] = Revoked(t)
      PROVE  TokenOf(t)' = [TokenOf(t) EXCEPT !.state = "REVOKED"]
  <2>1. TokenOf(t)' = [state |-> "REVOKED", user |-> token[t].user,
                       purpose |-> token[t].purpose, password |-> token[t].epoch]
    BY <1>2, ChangedRow DEF TokenOf
  <2>2. QED
    BY <1>2, <2>1 DEF TokenOf
<1>3. ASSUME token[t].state # "FREE", token'[t] = Consumed(t)
      PROVE  TokenOf(t)' = [TokenOf(t) EXCEPT !.state = "CONSUMED"]
  <2>1. TokenOf(t)' = [state |-> "CONSUMED", user |-> token[t].user,
                       purpose |-> token[t].purpose, password |-> token[t].epoch]
    BY <1>3, ChangedRow DEF TokenOf
  <2>2. QED
    BY <1>3, <2>1 DEF TokenOf
<1>4. QED
  BY <1>1, <1>2, <1>3

LEMMA MappedSuperseded ==
  ASSUME TypeOK, NEW u \in User, NEW p \in Purpose, NEW T \in SUBSET LiveTokens(u, p),
         NEW t \in TokenId, token'[t] = Superseded(T)[t]
  PROVE  TokenOf(t)' = IF t \in T THEN [TokenOf(t) EXCEPT !.state = "REVOKED"]
                                  ELSE TokenOf(t)
<1>1. CASE t \in T
  <2>1. token[t].state # "FREE" /\ token'[t] = Revoked(t)
    BY <1>1 DEF LiveTokens, Superseded, Revoked
  <2>2. QED
    BY <1>1, <2>1, MappedTokenChange
<1>2. CASE t \notin T
  <2>1. token'[t] = token[t]
    BY <1>2 DEF Superseded
  <2>2. QED
    BY <1>2, <2>1, MappedTokenChange
<1>3. QED
  BY <1>1, <1>2

\* A new token, and what becomes of the live ones for its purpose.
LEMMA MappedNewToken ==
  ASSUME NEW t \in TokenId, NEW u \in User, NEW p \in Purpose, NEW g, NEW e, NEW c,
         token'[t] = NewToken(u, p, g, e, c), token[t].state = "FREE"
  PROVE  /\ Tokens[t] = Abstract!None
         /\ TokenOf(t)' = [state |-> "LIVE", user |-> u, purpose |-> p, password |-> c]
<1>1. Tokens[t] = Abstract!None
  BY DEF Tokens, TokenOf, Abstract!None
<1>2. TokenOf(t)' = [state |-> "LIVE", user |-> u, purpose |-> p, password |-> c]
  BY DEF TokenOf, NewToken
<1>3. QED
  BY <1>1, <1>2

-----------------------------------------------------------------------------
(* Registration and tokens *)

LEMMA SessionsStay ==
  ASSUME TypeOK, session' = session, now' = now,
         \A u \in User : user'[u].version = user[u].version
  PROVE  Sessions' = Sessions
<1>1. ASSUME NEW s \in SessionId
      PROVE  AccessOf(s)' = AccessOf(s)
  <2>1. session[s].state = "FREE" \/ session[s].user \in User
    BY DEF TypeOK, SessionRow, FreeSession
  <2>2. QED
    BY <2>1, AccessStays
<1>2. QED
  BY <1>1 DEF Sessions

LEMMA RegisterRefines ==
  ASSUME RefInv, NEW u \in User, NEW t \in TokenId, Register(u, t)
  PROVE  Abstract!Register(u, t)
<1>a. /\ TypeOK /\ user \in [User -> UserRow] /\ credential \in [User -> Credential]
      /\ token \in [TokenId -> TokenRow \cup {FreeToken}]
      /\ user[u] \in UserRow /\ token[t].state = "FREE" /\ user[u].status = "ABSENT"
  BY DEF RefInv, IInv, TypeOK, Register
<1>1. credential[u].epoch = 0
  BY <1>a DEF RefInv, IInv, AbsentUsersOwnNothing
<1>2. Passwords' = [Passwords EXCEPT ![u] = 1] /\ Passwords[u] = 0
  <2>1. \A x \in User : credential'[x].epoch = IF x = u THEN 1 ELSE credential[x].epoch
    BY <1>a, <1>1 DEF Register, NewPassword, Credential
  <2>2. QED
    BY <1>1, <2>1 DEF Passwords
<1>3. \A x \in User : /\ user'[x].version = user[x].version
                      /\ user'[x].email = user[x].email
  BY <1>a DEF Register, UserRow
<1>4. VerifiedUsers' = VerifiedUsers
  BY <1>3 DEF VerifiedUsers
<1>5. Sessions' = Sessions
  BY <1>a, <1>3, SessionsStay DEF Register
<1>6. PICK at \in Reading :
        token' = [token EXCEPT ![t] =
                    NewToken(u, "EMAIL_VERIFICATION", 1, at + VerificationTtl, 1)]
  BY DEF Register
<1>7. token'[t] = NewToken(u, "EMAIL_VERIFICATION", 1, at + VerificationTtl, 1)
  BY <1>a, <1>6
<1>8. /\ Tokens[t] = Abstract!None
      /\ TokenOf(t)' = [state |-> "LIVE", user |-> u, purpose |-> "EMAIL_VERIFICATION",
                        password |-> 1]
  BY <1>a, <1>7, MappedNewToken DEF Purpose
<1>9. \A x \in TokenId \ {t} : TokenOf(x)' = TokenOf(x)
  <2>1. \A x \in TokenId \ {t} : token'[x] = token[x]
    BY <1>a, <1>6
  <2>2. QED
    BY <1>a, <2>1, MappedTokenChange
<1>10. Tokens' = [Tokens EXCEPT ![t] = [state |-> "LIVE", user |-> u,
                                        purpose |-> "EMAIL_VERIFICATION",
                                        password |-> Passwords'[u]]]
  <2>1. Passwords'[u] = 1
    BY <1>2 DEF Passwords
  <2> HIDE DEF Passwords
  <2>2. QED
    BY <1>8, <1>9, <2>1 DEF Tokens
<1>11. QED
  BY <1>2, <1>4, <1>5, <1>8, <1>10
  DEF Abstract!Register, Abstract!Issued, Passwords, VerifiedUsers, Sessions, Tokens

LEMMA RequestRefines ==
  ASSUME RefInv, NEW u \in User, NEW p \in Purpose, NEW t \in TokenId, RequestToken(u, p, t)
  PROVE  Abstract!Request(u, p, t)
<1>a. /\ TypeOK /\ user[u] \in UserRow /\ token[t].state = "FREE"
      /\ user[u].status # "ABSENT"
      /\ user[u].email = IF p = "EMAIL_VERIFICATION" THEN "UNVERIFIED" ELSE "VERIFIED"
      /\ user' = user /\ credential' = credential /\ session' = session /\ now' = now
  BY DEF RefInv, IInv, TypeOK, RequestToken, Eligible
<1>1. /\ Passwords' = Passwords /\ VerifiedUsers' = VerifiedUsers
      /\ Passwords[u] = credential[u].epoch
  BY <1>a DEF Passwords, VerifiedUsers
<1>2. Passwords[u] # 0
  BY <1>a, <1>1 DEF RefInv, UsersHavePasswords
<1>3. u \in VerifiedUsers <=> p = "PASSWORD_RESET"
  BY <1>a DEF VerifiedUsers, Purpose
<1>4. Sessions' = Sessions
  BY <1>a, SessionsStay
<1>5. PICK g \in 1 .. MaxGeneration :
        /\ token'[t] = NewToken(u, p, g, now + Ttl(p), credential[u].epoch)
        /\ \A x \in TokenId \ {t} : token'[x] = Superseded(LiveTokens(u, p))[x]
  BY <1>a, RequestTokenRows
<1>6. /\ Tokens[t] = Abstract!None
      /\ TokenOf(t)' = [state |-> "LIVE", user |-> u, purpose |-> p,
                        password |-> Passwords'[u]]
  <2>1. Passwords'[u] = credential[u].epoch
    BY <1>1
  <2>2. /\ Tokens[t] = Abstract!None
        /\ TokenOf(t)' = [state |-> "LIVE", user |-> u, purpose |-> p,
                          password |-> credential[u].epoch]
    BY <1>a, <1>5, MappedNewToken
  <2> HIDE DEF Passwords
  <2>3. QED
    BY <2>1, <2>2
<1>7. \A x \in TokenId \ {t} :
        TokenOf(x)' = IF x \in LiveTokens(u, p) THEN [TokenOf(x) EXCEPT !.state = "REVOKED"]
                                                ELSE TokenOf(x)
  BY <1>a, <1>5, MappedSuperseded
<1>8. Tokens' = [Abstract!Withdrawn(Abstract!LiveOf(u, p)) EXCEPT ![t] =
                   [state |-> "LIVE", user |-> u, purpose |-> p, password |-> Passwords'[u]]]
  <2>1. Abstract!LiveOf(u, p) = LiveTokens(u, p)
    BY MappedLiveTokens
  <2>2. Abstract!Withdrawn(LiveTokens(u, p)) =
          [x \in TokenId |-> IF x \in LiveTokens(u, p)
                               THEN [TokenOf(x) EXCEPT !.state = "REVOKED"] ELSE TokenOf(x)]
    BY DEF Abstract!Withdrawn, Tokens
  <2>3. QED
    BY <1>6, <1>7, <2>1, <2>2 DEF Tokens
<1>9. QED
  BY <1>1, <1>2, <1>3, <1>4, <1>6, <1>8
  DEF Abstract!Request, Abstract!Issued, Passwords, VerifiedUsers, Sessions, Tokens

LEMMA VerifyRefines ==
  ASSUME RefInv, NEW t \in TokenId, VerifyEmail(t)
  PROVE  Abstract!Verify(t)
<1> DEFINE u == token[t].user
           L == LiveTokens(u, "EMAIL_VERIFICATION")
<1>a. /\ TypeOK /\ OneLiveToken /\ user \in [User -> UserRow]
      /\ token[t].state = "LIVE" /\ token[t].purpose = "EMAIL_VERIFICATION"
      /\ token[t] \in TokenRow /\ u \in User /\ user[u].email = "UNVERIFIED"
      /\ credential' = credential /\ session' = session /\ now' = now
      /\ user' = [user EXCEPT ![u].email = "VERIFIED"]
  BY DEF RefInv, IInv, TypeOK, VerifyEmail, TokenRow, FreeToken
<1>1. L = {t}
  <2>1. t \in L
    BY <1>a DEF LiveTokens, TokensOf
  <2>2. \A x \in L : x = t
    BY <1>a DEF LiveTokens, TokensOf, OneLiveToken
  <2>3. QED
    BY <2>1, <2>2
<1>2. Passwords' = Passwords
  BY <1>a DEF Passwords
<1>3. \A x \in User : /\ user'[x].version = user[x].version
                      /\ user'[x].email = IF x = u THEN "VERIFIED" ELSE user[x].email
  BY <1>a DEF UserRow
<1>4. VerifiedUsers' = VerifiedUsers \cup {u} /\ u \notin VerifiedUsers
  BY <1>a, <1>3 DEF VerifiedUsers
<1>5. Sessions' = Sessions
  BY <1>a, <1>3, SessionsStay
<1>6. TokenOf(t)' = [TokenOf(t) EXCEPT !.state = "CONSUMED"]
  <2>1. token'[t] = Consumed(t)
    BY <1>a, VerifyEmailRows DEF Consumed
  <2>2. QED
    BY <1>a, <2>1, MappedTokenChange
<1>7. \A x \in TokenId \ {t} : TokenOf(x)' = TokenOf(x)
  <2>1. \A x \in TokenId \ {t} : token'[x] = token[x]
    BY <1>a, <1>1, VerifyEmailRows
  <2>2. QED
    BY <1>a, <2>1, MappedTokenChange
<1>8. /\ Tokens[t].state = "LIVE" /\ Tokens[t].purpose = "EMAIL_VERIFICATION"
      /\ Tokens[t].user = u
  BY <1>a DEF Tokens, TokenOf
<1>9. Tokens' = [Abstract!Withdrawn({t}) EXCEPT ![t].state = "CONSUMED"]
  <2>1. Abstract!Withdrawn({t}) =
          [x \in TokenId |-> IF x \in {t} THEN [TokenOf(x) EXCEPT !.state = "REVOKED"]
                                          ELSE TokenOf(x)]
    BY DEF Abstract!Withdrawn, Tokens
  <2>2. [[TokenOf(t) EXCEPT !.state = "REVOKED"] EXCEPT !.state = "CONSUMED"]
          = [TokenOf(t) EXCEPT !.state = "CONSUMED"]
    BY <1>a DEF TokenOf
  <2>3. QED
    BY <1>6, <1>7, <2>1, <2>2 DEF Tokens
<1>10. Abstract!LiveOf(u, "EMAIL_VERIFICATION") = {t}
  BY <1>1, <1>a, MappedLiveTokens DEF Purpose
<1> HIDE DEF u
<1>11. QED
  BY <1>2, <1>4, <1>5, <1>8, <1>9, <1>10
  DEF Abstract!Verify, Passwords, VerifiedUsers, Sessions, Tokens

-----------------------------------------------------------------------------
(* Logins and new passwords *)

\* The login's comparison of the hash under lock is what makes the session one
\* of the present password.
LEMMA LoginRefines ==
  ASSUME RefInv, NEW c \in candidates, NEW s \in SessionId, Login(c, s)
  PROVE  Abstract!Open(c.user, s) /\ c.user \in User
<1> DEFINE u == c.user
<1>a. /\ TypeOK /\ c \in Candidate /\ u \in User /\ session[s].state = "FREE"
      /\ user[u].email = "VERIFIED"
      /\ credential \in [User -> Credential] /\ credential[u] \in Credential
      /\ session \in [SessionId -> SessionRow \cup {FreeSession}]
      /\ user' = user /\ token' = token /\ now' = now
  BY DEF RefInv, IInv, TypeOK, Candidate, Login
<1>1. c.epoch = credential[u].epoch
  BY DEF RefInv, IInv, CandidatesFollowCredential, Login, StillCurrent
<1>2. Passwords' = Passwords /\ Passwords[u] = credential[u].epoch
  <2>1. \A x \in User : credential'[x].epoch = credential[x].epoch
    BY <1>a DEF Login, Credential
  <2>2. QED
    BY <1>a, <2>1 DEF Passwords
<1>3. VerifiedUsers' = VerifiedUsers /\ u \in VerifiedUsers
  BY <1>a DEF VerifiedUsers
<1>4. Tokens' = Tokens
  BY <1>a DEF Tokens, TokenOf
<1>5. /\ session'[s].state = "LIVE" /\ session'[s].user = u /\ session'[s].epoch = c.epoch
      /\ \A x \in SessionId \ {s} : session'[x] = session[x]
  BY <1>a DEF Login
<1>6. PICK state \in {"OPEN", "OVER"} :
        AccessOf(s)' = [state |-> state, user |-> u, password |-> Passwords[u]]
  <2>1. AccessOf(s)' = [state |-> IF Dead(s)' THEN "OVER" ELSE "OPEN",
                        user |-> u, password |-> c.epoch]
    BY <1>5 DEF AccessOf
  <2>2. AccessOf(s)' = [state |-> "OVER", user |-> u, password |-> Passwords[u]] \/
        AccessOf(s)' = [state |-> "OPEN", user |-> u, password |-> Passwords[u]]
    <3> HIDE DEF Dead, AccessOf
    <3>1. QED
      BY <1>1, <1>2, <2>1
  <2>3. QED
    BY <2>2
<1>7. \A x \in SessionId \ {s} : AccessOf(x)' = AccessOf(x)
  <2>1. ASSUME NEW x \in SessionId \ {s}
        PROVE  AccessOf(x)' = AccessOf(x)
    <3>1. session'[x] = session[x]
      BY <1>5
    <3>2. QED
      BY <1>a, <3>1, AccessStays
  <2>2. QED
    BY <2>1
<1>8. Sessions' = [Sessions EXCEPT ![s] =
                     [state |-> state, user |-> u, password |-> Passwords[u]]]
  BY <1>6, <1>7 DEF Sessions
<1>9. Sessions[s] = Abstract!None
  BY <1>a DEF Sessions, AccessOf, Abstract!None
<1> HIDE DEF u
<1>10. Abstract!Open(u, s)
  BY <1>2, <1>3, <1>4, <1>8, <1>9
  DEF Abstract!Open, Passwords, VerifiedUsers, Sessions, Tokens
<1>11. QED
  BY <1>a, <1>10 DEF u

LEMMA ReplacementRefines ==
  ASSUME TypeOK, NEW u \in User, session' = AllRevoked(u), now' = now,
         user' = [user EXCEPT ![u].version = @ + 1], credential' = NewPassword(u)
  PROVE  Abstract!Replace(u)
<1>a. /\ user \in [User -> UserRow] /\ user[u] \in UserRow
      /\ credential \in [User -> Credential] /\ credential[u] \in Credential
  BY DEF TypeOK
<1>1. Passwords' = [Passwords EXCEPT ![u] = Passwords[u] + 1]
  <2>1. \A x \in User : credential'[x].epoch = IF x = u THEN credential[x].epoch + 1
                                                        ELSE credential[x].epoch
    BY <1>a DEF NewPassword, Credential
  <2>2. QED
    BY <2>1 DEF Passwords
<1>2. VerifiedUsers' = VerifiedUsers
  <2>1. \A x \in User : user'[x].email = user[x].email
    BY <1>a DEF UserRow
  <2>2. QED
    BY <2>1 DEF VerifiedUsers
<1>3. Sessions' = Abstract!Ended({s \in SessionId : Sessions[s].state = "OPEN"
                                                    /\ Sessions[s].user = u})
  BY ReplacementEnds
<1>4. QED
  BY <1>1, <1>2, <1>3 DEF Abstract!Replace, Passwords, VerifiedUsers, Sessions

LEMMA ChangeRefines ==
  ASSUME RefInv, NEW c \in candidates, NEW s \in SessionId, ChangePassword(c, s)
  PROVE  Abstract!Change(s)
<1>u. PICK u \in User : u = session[s].user /\ u = c.user
  BY DEF RefInv, IInv, TypeOK, ChangePassword, Candidate
<1> DEFINE L == LiveTokens(u, "PASSWORD_RESET")
<1>a. /\ TypeOK /\ session[s] \in SessionRow
      /\ session[s].state = "LIVE" /\ session[s].idle > now
      /\ session[s].issued = user[u].version
      /\ session' = AllRevoked(u) /\ now' = now
      /\ user' = [user EXCEPT ![u].version = @ + 1] /\ credential' = NewPassword(u)
      /\ token' = Superseded(L)
  BY <1>u DEF RefInv, IInv, TypeOK, ChangePassword, Usable, FreeSession
<1>1. Sessions[s].state = "OPEN" /\ Sessions[s].user = u
  <2>1. ~ Dead(s)
    <3>1. session[s].idle \in Nat /\ now \in Nat
      BY <1>a DEF SessionRow, TypeOK
    <3>2. QED
      BY <1>u, <1>a, <3>1 DEF Dead
  <2>2. QED
    BY <1>u, <1>a, <2>1, AccessFields DEF Sessions
<1>2. Abstract!Replace(u)
  BY <1>a, ReplacementRefines
<1>3. \A x \in TokenId :
        TokenOf(x)' = IF x \in L THEN [TokenOf(x) EXCEPT !.state = "REVOKED"] ELSE TokenOf(x)
  <2>1. "PASSWORD_RESET" \in Purpose
    BY DEF Purpose
  <2>2. \A x \in TokenId : token'[x] = Superseded(L)[x]
    BY <1>a
  <2> HIDE DEF L
  <2>3. QED
    BY <1>a, <2>1, <2>2, MappedSuperseded DEF L
<1>4. Tokens' = Abstract!Withdrawn(Abstract!LiveOf(u, "PASSWORD_RESET"))
  <2>1. Abstract!LiveOf(u, "PASSWORD_RESET") = L
    BY <1>a, MappedLiveTokens DEF Purpose
  <2>2. QED
    BY <1>3, <2>1 DEF Abstract!Withdrawn, Tokens
<1>5. QED
  BY <1>1, <1>2, <1>4 DEF Abstract!Change, Abstract!Replace, Sessions, Tokens

LEMMA ResetRefines ==
  ASSUME RefInv, NEW t \in TokenId, ResetPassword(t)
  PROVE  Abstract!Reset(t)
<1>u. PICK u \in User : u = token[t].user
  BY DEF RefInv, IInv, TypeOK, ResetPassword, TokenRow, FreeToken
<1> DEFINE L == LiveTokens(u, "PASSWORD_RESET")
<1>a. /\ TypeOK /\ token[t] \in TokenRow
      /\ token[t].state = "LIVE" /\ token[t].purpose = "PASSWORD_RESET"
      /\ session' = AllRevoked(u) /\ now' = now
      /\ user' = [user EXCEPT ![u].version = @ + 1] /\ credential' = NewPassword(u)
  BY <1>u DEF RefInv, IInv, TypeOK, ResetPassword, FreeToken
<1>1. Abstract!Replace(u)
  BY <1>a, ReplacementRefines
<1>2. /\ Tokens[t].state = "LIVE" /\ Tokens[t].purpose = "PASSWORD_RESET"
      /\ Tokens[t].user = u
  BY <1>u, <1>a DEF Tokens, TokenOf
<1>3. TokenOf(t)' = [TokenOf(t) EXCEPT !.state = "CONSUMED"]
  <2>1. token'[t] = Consumed(t)
    BY <1>a, ResetPasswordRows DEF Consumed
  <2>2. QED
    BY <1>a, <2>1, MappedTokenChange
<1>4. \A x \in TokenId \ {t} :
        TokenOf(x)' = IF x \in L THEN [TokenOf(x) EXCEPT !.state = "REVOKED"] ELSE TokenOf(x)
  <2>1. "PASSWORD_RESET" \in Purpose /\ L \ {t} \in SUBSET L
    BY DEF Purpose
  <2>2. \A x \in TokenId \ {t} : token'[x] = Superseded(L \ {t})[x]
    BY <1>u, <1>a, ResetPasswordRows
  <2> HIDE DEF L
  <2>3. \A x \in TokenId \ {t} :
          TokenOf(x)' = IF x \in L \ {t} THEN [TokenOf(x) EXCEPT !.state = "REVOKED"]
                                         ELSE TokenOf(x)
    BY <1>a, <2>1, <2>2, MappedSuperseded DEF L
  <2>4. QED
    BY <2>3
<1>5. Tokens' = [Abstract!Withdrawn(Abstract!LiveOf(u, "PASSWORD_RESET"))
                   EXCEPT ![t].state = "CONSUMED"]
  <2>1. Abstract!LiveOf(u, "PASSWORD_RESET") = L /\ t \in L
    BY <1>u, <1>a, MappedLiveTokens DEF Purpose, LiveTokens, TokensOf
  <2>2. Abstract!Withdrawn(L) =
          [x \in TokenId |-> IF x \in L THEN [TokenOf(x) EXCEPT !.state = "REVOKED"]
                                        ELSE TokenOf(x)]
    BY DEF Abstract!Withdrawn, Tokens
  <2>3. [[TokenOf(t) EXCEPT !.state = "REVOKED"] EXCEPT !.state = "CONSUMED"]
          = [TokenOf(t) EXCEPT !.state = "CONSUMED"]
    BY <1>a DEF TokenOf
  <2> HIDE DEF L
  <2>4. QED
    BY <1>3, <1>4, <2>1, <2>2, <2>3 DEF Tokens
<1>6. QED
  BY <1>1, <1>2, <1>5 DEF Abstract!Reset, Abstract!Replace, Tokens

-----------------------------------------------------------------------------
(* Every step *)

LEMMA StepsRefine ==
  RefInv /\ TypeOK' /\ [Next]_vars => [Abstract!Next]_(Abstract!accessVars)
<1> SUFFICES ASSUME RefInv, TypeOK', [Next]_vars
             PROVE  Abstract!Next
  OBVIOUS
<1>a. user \in [User -> UserRow] /\ credential \in [User -> Credential]
  BY DEF RefInv, IInv, TypeOK
<1>1. CASE \E u \in User, t \in TokenId : Register(u, t)
  BY <1>1, RegisterRefines DEF Abstract!Next
<1>2. CASE \E t \in TokenId : VerifyEmail(t)
  BY <1>2, VerifyRefines DEF Abstract!Next
<1>3. CASE \E u \in User, p \in Purpose, t \in TokenId : RequestToken(u, p, t)
  BY <1>3, RequestRefines DEF Abstract!Next, Purpose
<1>4. CASE \E t \in TokenId : ResetPassword(t)
  BY <1>4, ResetRefines DEF Abstract!Next
<1>5. CASE \E c \in candidates, s \in SessionId : Login(c, s)
  BY <1>5, LoginRefines DEF Abstract!Next
<1>6. CASE \E c \in candidates, s \in SessionId : ChangePassword(c, s)
  BY <1>6, ChangeRefines DEF Abstract!Next
<1>7. ASSUME \A c \in candidates, s \in SessionId : ~ Login(c, s),
             token' = token, \A u \in User : credential'[u].epoch = credential[u].epoch,
             \A u \in User : user'[u].email = user[u].email
      PROVE  Abstract!Next
  <2>1. Passwords' = Passwords /\ VerifiedUsers' = VerifiedUsers /\ Tokens' = Tokens
    BY <1>7 DEF Passwords, VerifiedUsers, Tokens, TokenOf
  <2>2. Abstract!End
    BY <1>7, <2>1, SessionsEnd DEF RefInv
  <2>3. QED
    BY <2>2 DEF Abstract!Next
<1>8. CASE ChangeHashCost
  <2>1. \A u \in User : credential'[u].epoch = credential[u].epoch
    BY <1>a, <1>8 DEF ChangeHashCost, Credential
  <2>2. QED
    BY <1>5, <1>7, <1>8, <2>1 DEF ChangeHashCost
<1>9. CASE \E u \in User : SetStatus(u)
  <2>1. \A u \in User : user'[u].email = user[u].email
    BY <1>a, <1>9 DEF SetStatus, UserRow
  <2>2. QED
    BY <1>5, <1>7, <1>9, <2>1 DEF SetStatus
<1>10. CASE \E s \in SessionId : LogoutAll(s)
  <2>1. \A u \in User : user'[u].email = user[u].email
    BY <1>a, <1>10 DEF LogoutAll, UserRow
  <2>2. QED
    BY <1>5, <1>7, <1>10, <2>1 DEF LogoutAll
<1>11. CASE user' = user /\ credential' = credential /\ token' = token
  BY <1>5, <1>7, <1>11
<1>12. QED
  BY <1>1, <1>2, <1>3, <1>4, <1>5, <1>6, <1>8, <1>9, <1>10, <1>11
  DEF Next, vars, CheckPassword, GetSession, Logout, Tick

\* Whatever requests overlap, however late they commit and whatever clock they
\* read, the handlers of accounts do nothing that Access does not allow: what
\* is over stays over, sessions open under the present password only, and a new
\* password leaves no session and no reset token of the old one.
THEOREM AccessIsImplemented == Spec => ImplementsAccess
<1>1. Init => Abstract!Init
  BY DEF Init, Abstract!Init, Abstract!None, AccessOf, TokenOf, FreeSession, FreeToken
<1>2. QED
  BY <1>1, StepsRefine, RefinementInvariant, TypeCorrectness, PTL
  DEF Spec, ImplementsAccess, Abstract!Spec
=============================================================================
