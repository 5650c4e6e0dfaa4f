--------------------------- MODULE InvitationOutbox ---------------------------
(***************************************************************************)
(* The worker that mails invitations (apps/worker/src/invitation-outbox.ts)*)
(* next to the commands of OrganizationAdministration.                     *)
(*                                                                         *)
(* A worker claims an event in one transaction, reads the five things it   *)
(* needs in five statements that see the database at different moments and *)
(* in any order, hands the mail to the transport, and finishes the event   *)
(* with a compare-and-set on its lock token.  Any of these may fail, a     *)
(* process may die, and the lease may run out under a worker that is slow. *)
(*                                                                         *)
(* Events that do not match their invitation and token (INVALID_EVENT) are *)
(* left out: no code writes one.  The order in which due events are taken  *)
(* is left open, because rows that a command holds are skipped; that the   *)
(* oldest goes first appears as fairness.                                  *)
(***************************************************************************)
EXTENDS OrganizationAdministration

VARIABLES
  worker,  \* what each worker process is at
  mailed   \* the events <<i, g>> that the transport has sent at least once

vars == <<account, organization, member, invitation, token, event, worker, mailed>>

Read == {"INVITATION", "TOKEN", "LATEST", "ORGANIZATION", "CLOCK"}

\* `usable' is not in the program.  It remembers whether the token could have
\* been presented when the worker read the first row, and serves a property.
Idle == [phase |-> "IDLE"]
Down == [phase |-> "DOWN"]
Busy == [phase: {"READING", "SENT", "FAILED"}, i: InvitationId, g: 1 .. MaxGeneration,
         attempt: 1 .. MaxAttempts, unread: SUBSET Read, fit: BOOLEAN, usable: BOOLEAN]

OutboxTypeOK ==
  /\ OrgTypeOK
  /\ worker \in [Worker -> Busy \cup {Idle, Down}]
  /\ mailed \subseteq InvitationId \X (1 .. MaxGeneration)

Init ==
  /\ OrgInit
  /\ worker = [w \in Worker |-> Idle]
  /\ mailed = {}

IsBusy(w) == worker[w].phase \in {"READING", "SENT", "FAILED"}
Claimed(w) == event[worker[w].i][worker[w].g]
Goes(w, phase) == worker' = [worker EXCEPT ![w].phase = phase]

-----------------------------------------------------------------------------
\* Mistaken variant: a lease that has run out is not taken over.
IsPendingAndDue(e) == e.status = "PENDING" /\ e.wait = 0

IsDue(e) ==
  \/ e.status = "PENDING" /\ e.wait = 0
  \/ e.status = "PROCESSING" /\ e.lease = 0

\* claimNext: a lease that has run out is taken over.
Claim(w, i, g) ==
  LET attempt == IF event[i][g].attempt < MaxAttempts THEN event[i][g].attempt + 1
                                                      ELSE MaxAttempts
  IN
  /\ worker[w].phase = "IDLE"
  /\ g \in DOMAIN event[i]
  /\ IsDue(event[i][g])
  /\ event' = [event EXCEPT ![i][g] = [@ EXCEPT !.status = "PROCESSING", !.error = "NONE",
                                         !.attempt = attempt, !.lock = w, !.lease = LeaseTtl]]
  /\ worker' = [worker EXCEPT ![w] = [phase |-> "READING", i |-> i, g |-> g,
                                      attempt |-> attempt, unread |-> Read,
                                      fit |-> TRUE, usable |-> FALSE]]
  /\ UNCHANGED <<account, organization, member, invitation, token, mailed>>

Usable(i, g) == Answers(i, g) /\ InTime(i, g)

\* Mistaken variant: the expiry is not compared.
SuitsAtAnyTime(read, i, g) ==
  CASE read = "INVITATION"   -> invitation[i].status = "PENDING"
    [] read = "TOKEN"        -> token[i][g].state = "LIVE"
    [] read = "LATEST"       -> g = Latest(i)
    [] read = "ORGANIZATION" -> organization = "ACTIVE"
    [] read = "CLOCK"        -> TRUE

\* What one of the reads must find for the mail to be sent.  The expiry of the
\* invitation is never before that of the token, so the token's decides and
\* the moment of the clock is the one that counts.
Suits(read, i, g) ==
  CASE read = "INVITATION"   -> invitation[i].status = "PENDING"
    [] read = "TOKEN"        -> token[i][g].state = "LIVE"
    [] read = "LATEST"       -> g = Latest(i)
    [] read = "ORGANIZATION" -> organization = "ACTIVE"
    [] read = "CLOCK"        -> InTime(i, g)

\* After a read that does not suit, the others no longer matter.
ReadRow(w, read) ==
  LET r == worker[w]
      suits == Suits(read, r.i, r.g)
  IN
  /\ r.phase = "READING"
  /\ read \in r.unread
  /\ worker' = [worker EXCEPT ![w] =
                  [r EXCEPT !.unread = IF suits THEN @ \ {read} ELSE {},
                            !.fit = suits,
                            !.usable = IF r.unread = Read THEN Usable(r.i, r.g) ELSE @]]
  /\ UNCHANGED <<account, organization, member, invitation, token, event, mailed>>

ReadFails(w) ==
  /\ worker[w].phase = "READING"
  /\ worker[w].unread # {}
  /\ Goes(w, "FAILED")
  /\ UNCHANGED <<account, organization, member, invitation, token, event, mailed>>

\* A transport that reports an error may have sent the mail nevertheless.
Deliver(w) ==
  /\ worker[w].phase = "READING"
  /\ worker[w].unread = {}
  /\ worker[w].fit
  /\ \/ /\ mailed' = mailed \cup {<<worker[w].i, worker[w].g>>}
        /\ \E phase \in {"SENT", "FAILED"} : Goes(w, phase)
     \/ /\ mailed' = mailed
        /\ Goes(w, "FAILED")
  /\ UNCHANGED <<account, organization, member, invitation, token, event>>

-----------------------------------------------------------------------------
(* finish *)

\* Mistaken variant: the event is finished by its id alone.
HoldsAnyway(w) == IsBusy(w)

HoldsLock(w) == Claimed(w).status = "PROCESSING" /\ Claimed(w).lock = w

\* What the worker wants to finish its event with.
Outcome(w) ==
  CASE worker[w].phase = "SENT"    -> "PROCESSED"
    [] worker[w].phase = "READING" -> "OBSOLETE"
    [] worker[w].phase = "FAILED"  ->
         IF worker[w].attempt >= MaxAttempts THEN "DEAD_LETTER" ELSE "PENDING"

MayFinish(w) ==
  \/ worker[w].phase \in {"SENT", "FAILED"}
  \/ worker[w].phase = "READING" /\ worker[w].unread = {} /\ ~worker[w].fit

Finish(w) ==
  /\ MayFinish(w)
  /\ HoldsLock(w)
  /\ LET failed == Outcome(w) \in {"PENDING", "DEAD_LETTER"}
         finished == [Claimed(w) EXCEPT
                        !.status = Outcome(w), !.lock = NoLock, !.lease = 0,
                        !.error = IF failed THEN "FAILED" ELSE "NONE",
                        !.wait = IF Outcome(w) = "PENDING" THEN Backoff ELSE @]
     IN event' = [event EXCEPT ![worker[w].i][worker[w].g] = finished]
  /\ worker' = [worker EXCEPT ![w] = Idle]
  /\ UNCHANGED <<account, organization, member, invitation, token, mailed>>

\* finish throws, because the lease was lost or the statement failed.  Within
\* the try block the catch block finishes again, as a failure; there the error
\* ends the cycle and a lease that was still held is left to run out.
FinishFails(w) ==
  /\ MayFinish(w)
  /\ IF worker[w].phase = "FAILED"
       THEN worker' = [worker EXCEPT ![w] = IF HoldsLock(w) THEN Down ELSE Idle]
       ELSE Goes(w, "FAILED")
  /\ UNCHANGED <<account, organization, member, invitation, token, event, mailed>>

Crash(w) ==
  /\ IsBusy(w)
  /\ worker' = [worker EXCEPT ![w] = Down]
  /\ UNCHANGED <<account, organization, member, invitation, token, event, mailed>>

Restart(w) ==
  /\ worker[w].phase = "DOWN"
  /\ worker' = [worker EXCEPT ![w] = Idle]
  /\ UNCHANGED <<account, organization, member, invitation, token, event, mailed>>

\* What a worker does with an event it has claimed, until it is idle again.
Process(w) ==
  \/ \E read \in Read : ReadRow(w, read)
  \/ ReadFails(w)
  \/ Deliver(w)
  \/ Finish(w)
  \/ FinishFails(w)

Next ==
  \/ OrgNext /\ UNCHANGED <<worker, mailed>>
  \/ \E w \in Worker, i \in InvitationId, g \in 1 .. MaxGeneration : Claim(w, i, g)
  \/ \E w \in Worker : Process(w) \/ Crash(w) \/ Restart(w)

Spec == Init /\ [][Next]_vars

\* A worker polls for ever and a call it makes returns.  Due events are taken
\* oldest first and a retry moves an event back, so one that stays due becomes
\* the first; and time passes.
Fairness ==
  /\ \A w \in Worker : WF_vars(Process(w)) /\ WF_vars(Restart(w))
  /\ \A i \in InvitationId, g \in 1 .. MaxGeneration :
       WF_vars(\E w \in Worker : Claim(w, i, g))
  /\ WF_vars(Tick /\ UNCHANGED <<worker, mailed>>)

FairSpec == Spec /\ Fairness

-----------------------------------------------------------------------------
(* Properties *)

IsClosed(e) == e.status \in {"PROCESSED", "OBSOLETE", "DEAD_LETTER"}

\* No mail goes out for a token that could not be used any more when the worker
\* began to read: revoked, answered, superseded or out of time.  The reads are
\* not one snapshot, which the worker can afford because none of these ends.
MailIsForUsableTokens ==
  \A w \in Worker : worker[w].phase = "SENT" => worker[w].usable

\* While a lease lasts only its holder can end or retry the event, whatever the
\* administrators and the other workers do.
LeasesAreRespected ==
  [][\A i \in InvitationId : \A g \in DOMAIN event[i] :
       IsLeased(event[i][g]) /\ event'[i][g].status # "PROCESSING" =>
         LET w == event[i][g].lock IN
         IsBusy(w) /\ worker[w].i = i /\ worker[w].g = g /\ worker'[w].phase = "IDLE"]_vars

\* The worker and the commands together do what the abstract outbox promises:
\* an event is closed once, PROCESSED only after its mail has gone out and
\* DEAD_LETTER only after its last attempt, and a worker whose lease was lost
\* changes nothing.
EventOf == InvitationId \X (1 .. MaxGeneration)
StateOf(e) ==
  IF e[2] \notin DOMAIN event[e[1]] THEN "ABSENT"
  ELSE IF IsClosed(event[e[1]][e[2]]) THEN event[e[1]][e[2]].status
  ELSE "OPEN"
AttemptOf(e) == IF e[2] \in DOMAIN event[e[1]] THEN event[e[1]][e[2]].attempt ELSE 0
Abstract == INSTANCE Outbox WITH Event <- EventOf,
                                 state <- [e \in EventOf |-> StateOf(e)],
                                 attempt <- [e \in EventOf |-> AttemptOf(e)]
ImplementsOutbox == Abstract!Spec

\* If from some moment on no worker dies or outlasts its lease, every event is
\* closed: nothing waits for ever behind a lease, a retry or another event.
Undisturbed ==
  \A w \in Worker : worker[w].phase # "DOWN" /\ (IsBusy(w) => IsLeased(Claimed(w)))
EventsAreClosed ==
  <>[]Undisturbed => \A e \in EventOf : [](StateOf(e) = "OPEN" => <>(StateOf(e) # "OPEN"))

\* An administrator can withdraw or renew any invitation that is pending and in
\* time: the statements of revokeTokens satisfy outbox_event_state_chk.
PendingCanBeWithdrawn ==
  \A i \in InvitationId :
    invitation[i].status = "PENDING" /\ invitation[i].left > 0
      => RevocationAccepted(i, DOMAIN token[i])
=============================================================================
