-------------------------------- MODULE Access --------------------------------
(***************************************************************************)
(* What the handling of accounts promises, without hashes, versions,       *)
(* generations, lifetimes, clocks or requests in flight.  The passwords of *)
(* a user are counted: password[u] is the number of the present one, and a *)
(* session or a token carries the number of the password it was issued     *)
(* under.  A session is opened under the present password only, is over    *)
(* for good when it is over, and no session and no reset token outlives    *)
(* the password it was issued under.  A password is replaced only through  *)
(* an open session of the user or a live reset token, which is used up.    *)
(***************************************************************************)
EXTENDS Naturals

CONSTANTS User, SessionId, TokenId

VARIABLES
  password,  \* the number of each user's present password, 0 without account
  verified,  \* users whose address is verified
  session,   \* whose each session is, under which password, and whether open
  token      \* the same for the tokens sent by mail

accessVars == <<password, verified, session, token>>

None == [state |-> "NONE"]

Init ==
  /\ password = [u \in User |-> 0]
  /\ verified = {}
  /\ session = [s \in SessionId |-> None]
  /\ token = [t \in TokenId |-> None]

Issued(u, p) == [state |-> "LIVE", user |-> u, purpose |-> p, password |-> password'[u]]

LiveOf(u, p) ==
  {t \in TokenId : token[t].state = "LIVE" /\ token[t].user = u /\ token[t].purpose = p}

\* The sessions of S end; those that were open no longer are.
Ended(S) ==
  [s \in SessionId |-> IF s \in S /\ session[s].state = "OPEN"
                         THEN [session[s] EXCEPT !.state = "OVER"] ELSE session[s]]

Withdrawn(T) ==
  [t \in TokenId |-> IF t \in T THEN [token[t] EXCEPT !.state = "REVOKED"] ELSE token[t]]

Register(u, t) ==
  /\ password[u] = 0
  /\ token[t] = None
  /\ password' = [password EXCEPT ![u] = 1]
  /\ token' = [token EXCEPT ![t] = Issued(u, "EMAIL_VERIFICATION")]
  /\ UNCHANGED <<verified, session>>

\* A new token for a purpose withdraws the one before it.
Request(u, p, t) ==
  /\ password[u] # 0
  /\ u \in verified <=> p = "PASSWORD_RESET"
  /\ token[t] = None
  /\ token' = [Withdrawn(LiveOf(u, p)) EXCEPT ![t] = Issued(u, p)]
  /\ UNCHANGED <<password, verified, session>>

Verify(t) ==
  /\ token[t].state = "LIVE"
  /\ token[t].purpose = "EMAIL_VERIFICATION"
  /\ token[t].user \notin verified
  /\ verified' = verified \cup {token[t].user}
  /\ token' = [Withdrawn(LiveOf(token[t].user, "EMAIL_VERIFICATION"))
                 EXCEPT ![t].state = "CONSUMED"]
  /\ UNCHANGED <<password, session>>

\* A session may be over as soon as it is opened: its lifetime counts from a
\* clock reading the login took before it stored the session.
Open(u, s) ==
  /\ u \in verified
  /\ session[s] = None
  /\ \E state \in {"OPEN", "OVER"} :
       session' = [session EXCEPT ![s] =
                     [state |-> state, user |-> u, password |-> password[u]]]
  /\ UNCHANGED <<password, verified, token>>

\* Sessions end, by a logout or because their time is over.
End ==
  /\ \E S \in SUBSET SessionId : session' = Ended(S)
  /\ UNCHANGED <<password, verified, token>>

\* What goes with every new password of a user.
Replace(u) ==
  /\ password' = [password EXCEPT ![u] = @ + 1]
  /\ session' = Ended({s \in SessionId : session[s].state = "OPEN" /\ session[s].user = u})
  /\ UNCHANGED verified

Change(s) ==
  /\ session[s].state = "OPEN"
  /\ Replace(session[s].user)
  /\ token' = Withdrawn(LiveOf(session[s].user, "PASSWORD_RESET"))

Reset(t) ==
  /\ token[t].state = "LIVE"
  /\ token[t].purpose = "PASSWORD_RESET"
  /\ Replace(token[t].user)
  /\ token' = [Withdrawn(LiveOf(token[t].user, "PASSWORD_RESET"))
                 EXCEPT ![t].state = "CONSUMED"]

Next ==
  \/ \E u \in User, t \in TokenId : Register(u, t)
  \/ \E u \in User, p \in {"EMAIL_VERIFICATION", "PASSWORD_RESET"}, t \in TokenId :
       Request(u, p, t)
  \/ \E t \in TokenId : Verify(t) \/ Reset(t)
  \/ \E u \in User, s \in SessionId : Open(u, s)
  \/ \E s \in SessionId : Change(s)
  \/ End

Spec == Init /\ [][Next]_accessVars
=============================================================================
