------------------------------ MODULE OutboxProofs ------------------------------
(***************************************************************************)
(* The worker that mails invitations, next to all commands, for any number *)
(* of workers, invitations and attempts: leases are respected, no dead     *)
(* token is mailed, and worker and commands implement Outbox.              *)
(***************************************************************************)
EXTENDS InvitationOutbox, InvitationProofs

-----------------------------------------------------------------------------
(* The invariant *)

\* What a read found wrong stays wrong, but for a suspension.
Lasting == Read \ {"ORGANIZATION"}

\* The event a worker is busy with is there, and it has counted the attempt.   What
\* was sent is mailed and was usable; a worker whose reads all suited so far began
\* with a usable token, or one of the reads to come will not suit; and one read that
\* did not is the last.
WorkerAgrees(w) ==
  LET r == worker[w] IN
  IsBusy(w) =>
    /\ r.g \in DOMAIN event[r.i]
    /\ r.attempt <= event[r.i][r.g].attempt
    /\ r.phase = "SENT" => <<r.i, r.g>> \in mailed /\ r.usable = TRUE
    /\ r.phase = "READING" /\ r.fit = FALSE => r.unread = {}
    /\ r.phase = "READING" /\ r.fit = TRUE /\ r.unread # Read =>
         \/ r.usable = TRUE
         \/ \E read \in r.unread \cap Lasting : ~Suits(read, r.i, r.g)

OutboxInv ==
  /\ OutboxTypeOK
  /\ InvitationsAgree
  /\ \A w \in Worker : WorkerAgrees(w)

LEMMA WorkerType ==
  ASSUME OutboxTypeOK, NEW w \in Worker, IsBusy(w)
  PROVE  /\ worker[w] \in Busy
         /\ worker[w].i \in InvitationId /\ worker[w].g \in 1 .. MaxGeneration
BY DEF OutboxTypeOK, IsBusy, Idle, Down, Busy

LEMMA PhaseType ==
  ASSUME OutboxTypeOK, NEW w \in Worker, IsBusy(w), NEW phase \in {"READING", "SENT", "FAILED"},
         Goes(w, phase)
  PROVE  /\ worker' \in [Worker -> Busy \cup {Idle, Down}]
         /\ \A x \in Worker \ {w} : worker'[x] = worker[x]
         /\ worker'[w].phase = phase
         /\ worker'[w].i = worker[w].i /\ worker'[w].g = worker[w].g
         /\ worker'[w].attempt = worker[w].attempt
         /\ worker'[w].usable = worker[w].usable
<1>1. worker[w] \in Busy /\ worker \in [Worker -> Busy \cup {Idle, Down}]
  BY WorkerType DEF OutboxTypeOK
<1>2. worker' = [worker EXCEPT ![w] = [worker[w] EXCEPT !.phase = phase]]
  BY DEF Goes
<1>3. [worker[w] EXCEPT !.phase = phase] \in Busy
  BY <1>1 DEF Busy
<1>4. QED
  BY <1>1, <1>2, <1>3 DEF Busy

LEMMA Booleans ==
  ASSUME OutboxTypeOK, NEW i \in InvitationId, NEW g, NEW read \in Read
  PROVE  Suits(read, i, g) \in BOOLEAN /\ Usable(i, g) \in BOOLEAN
BY DEF Suits, Usable, Answers, InTime, Read

\* A change of one event leaves the others and the number of events alone.
LEMMA OneEventChanges ==
  ASSUME OrgTypeOK, NEW i \in InvitationId, NEW g \in DOMAIN event[i], NEW e \in EventRow,
         event' = [event EXCEPT ![i] = [event[i] EXCEPT ![g] = e]]
  PROVE  /\ event' \in [InvitationId -> Seq(EventRow)]
         /\ event'[i][g] = e
         /\ \A x \in InvitationId : /\ DOMAIN event'[x] = DOMAIN event[x]
                                    /\ Len(event'[x]) = Len(event[x])
         /\ \A x \in InvitationId : \A y \in DOMAIN event[x] :
              <<x, y>> # <<i, g>> => event'[x][y] = event[x][y]
<1>1. /\ event \in [InvitationId -> Seq(EventRow)]
      /\ event[i] \in Seq(EventRow) /\ DOMAIN event[i] = 1 .. Len(event[i])
      /\ \A y \in DOMAIN event[i] : event[i][y] \in EventRow
  BY RowsAreSequences DEF OrgTypeOK
<1>2. [event[i] EXCEPT ![g] = e] \in [DOMAIN event[i] -> EventRow]
  BY <1>1
<1>3. /\ [event[i] EXCEPT ![g] = e] \in Seq(EventRow)
      /\ Len([event[i] EXCEPT ![g] = e]) = Len(event[i])
      /\ DOMAIN [event[i] EXCEPT ![g] = e] = DOMAIN event[i]
  BY <1>1, <1>2, SameDomain, SameLength
<1>4. event' \in [InvitationId -> Seq(EventRow)]
  BY <1>1, <1>3
<1>5. /\ event'[i] = [event[i] EXCEPT ![g] = e]
      /\ \A x \in InvitationId \ {i} : event'[x] = event[x]
  BY <1>1
<1>6. QED
  BY <1>3, <1>4, <1>5

-----------------------------------------------------------------------------
(* What no step undoes *)

EventsGrow ==
  \A i \in InvitationId : \A g \in DOMAIN event[i] :
    /\ g \in DOMAIN event'[i]
    /\ event'[i][g].attempt >= event[i][g].attempt

FaultsLast ==
  \A i \in InvitationId : \A g \in DOMAIN event[i] : \A read \in Lasting :
    ~Suits(read, i, g) => ~Suits(read, i, g)'

LEMMA AgreesStill ==
  ASSUME OutboxTypeOK, NEW x \in Worker, WorkerAgrees(x), worker'[x] = worker[x],
         mailed \subseteq mailed', EventsGrow, FaultsLast, OrgTypeOK'
  PROVE  WorkerAgrees(x)'
<1> SUFFICES ASSUME IsBusy(x)
             PROVE  WorkerAgrees(x)'
  BY DEF WorkerAgrees, IsBusy
<1> DEFINE r == worker[x]
<1>1. /\ r \in Busy /\ r.i \in InvitationId /\ r.g \in DOMAIN event[r.i]
      /\ r.attempt <= event[r.i][r.g].attempt
  BY WorkerType DEF WorkerAgrees
<1>2. /\ r.attempt \in Nat
      /\ event[r.i][r.g].attempt \in Nat
  <2>1. event[r.i][r.g] \in EventRow
    BY <1>1, RowsAreSequences DEF OutboxTypeOK
  <2>2. QED
    BY <1>1, <2>1, BoundAssumption DEF Busy, EventRow
<1>3. r.g \in DOMAIN event'[r.i] /\ event'[r.i][r.g].attempt >= event[r.i][r.g].attempt
  BY <1>1 DEF EventsGrow
<1>4. event'[r.i][r.g].attempt \in Nat
  <2>1. event'[r.i] \in Seq(EventRow)
    BY <1>1 DEF OrgTypeOK
  <2>2. event'[r.i][r.g] \in EventRow
    BY <1>3, <2>1, ElementOfSeq, LenProperties
  <2>3. QED
    BY <2>2, BoundAssumption DEF EventRow
<1>5. r.attempt <= event'[r.i][r.g].attempt
  BY <1>1, <1>2, <1>3, <1>4
<1>6. PICK row : row = r
  OBVIOUS
<1>7. worker[x] = row /\ worker'[x] = row
  BY <1>6
<1>8. row.i \in InvitationId /\ row.g \in DOMAIN event[row.i]
  BY <1>1, <1>6
<1>9. ASSUME NEW read \in row.unread \cap Lasting, ~Suits(read, row.i, row.g)
      PROVE  ~Suits(read, row.i, row.g)'
  BY <1>8, <1>9 DEF FaultsLast
<1>10. /\ row.g \in DOMAIN event'[row.i]
       /\ row.attempt <= event'[row.i][row.g].attempt
  BY <1>3, <1>5, <1>6
<1> HIDE DEF r
<1>11. /\ row.phase = "SENT" => <<row.i, row.g>> \in mailed /\ row.usable = TRUE
       /\ row.phase = "READING" /\ row.fit = FALSE => row.unread = {}
       /\ row.phase = "READING" /\ row.fit = TRUE /\ row.unread # Read =>
            \/ row.usable = TRUE
            \/ \E read \in row.unread \cap Lasting : ~Suits(read, row.i, row.g)
  BY <1>7 DEF WorkerAgrees
<1>12. /\ row.phase = "SENT" => <<row.i, row.g>> \in mailed' /\ row.usable = TRUE
       /\ row.phase = "READING" /\ row.fit = FALSE => row.unread = {}
       /\ row.phase = "READING" /\ row.fit = TRUE /\ row.unread # Read =>
            \/ row.usable = TRUE
            \/ \E read \in row.unread \cap Lasting : ~Suits(read, row.i, row.g)'
  BY <1>9, <1>11
<1>13. QED
  BY <1>7, <1>10, <1>12 DEF WorkerAgrees

\* A worker's step leaves alone what the reads look at.
LEMMA FaultsLastForWorkers ==
  ASSUME UNCHANGED <<organization, invitation, token>>
  PROVE  FaultsLast
BY DEF FaultsLast, Suits, Latest, InTime

LEMMA FaultsLastForCommands ==
  ASSUME OutboxTypeOK, OrgTypeOK', InvitationsAgree, [OrgNext]_orgVars
  PROVE  FaultsLast
<1> SUFFICES ASSUME NEW i \in InvitationId, NEW g \in DOMAIN event[i], NEW read \in Lasting,
                    ~Suits(read, i, g)
             PROVE  ~Suits(read, i, g)'
  BY DEF FaultsLast
<1>1. OrgTypeOK
  BY DEF OutboxTypeOK
<1>2. Continues(i) /\ TokensContinue(i) /\ TokensAgree(i)
  BY <1>1, InvitationsContinue, EveryTokenContinues DEF InvitationsAgree
<1>3. /\ DOMAIN token[i] = 1 .. Latest(i) /\ Latest(i) \in Nat
      /\ DOMAIN event[i] = 1 .. Len(event[i])
      /\ g \in DOMAIN token[i] /\ token[i][g] \in TokenRow
  BY <1>1, <1>2, RowsAreSequences DEF TokensAgree
<1>4. Latest(i)' \in Nat /\ g \in DOMAIN token'[i] /\ token'[i][g] \in TokenRow
  <2>1. token'[i] \in Seq(TokenRow) /\ g \in DOMAIN token'[i]
    BY <1>2, <1>3 DEF OrgTypeOK, TokensContinue
  <2>2. QED
    BY <2>1, LenProperties, ElementOfSeq DEF Latest
<1>5. invitation[i].status # "FREE" /\ invitation[i] \in InvitationRow
  BY <1>1, <1>2, <1>3 DEF TokensAgree, OrgTypeOK, FreeInvitation
<1>6. invitation'[i].status # "FREE" /\ invitation'[i] \in InvitationRow
  BY <1>2, <1>5 DEF Continues, OrgTypeOK, FreeInvitation
<1>7. CASE read = "INVITATION"
  <2>1. ~Made(i)
    BY <1>5 DEF Made, Invite
  <2>2. invitation[i].status # "PENDING"
    BY <1>7 DEF Suits
  <2>3. invitation'[i].status # "PENDING"
    BY <1>2, <2>1, <2>2 DEF Continues
  <2>4. QED
    BY <1>7, <2>3 DEF Suits
<1>8. CASE read = "TOKEN"
  <2>1. token[i][g].state # "LIVE"
    BY <1>8 DEF Suits
  <2>2. token'[i][g].state # "LIVE"
    BY <1>2, <1>3, <2>1 DEF TokensContinue
  <2>3. QED
    BY <1>8, <2>2 DEF Suits
<1>9. CASE read = "LATEST"
  <2>1. g # Latest(i)
    BY <1>9 DEF Suits
  <2>2. g # Latest(i)'
    BY <1>2, <1>3, <1>4, <2>1 DEF TokensContinue
  <2>3. QED
    BY <1>9, <2>2 DEF Suits
<1>10. CASE read = "CLOCK"
  <2>1. ~InTime(i, g)
    BY <1>10 DEF Suits
  <2>2. /\ invitation[i].left \in Nat /\ invitation'[i].left \in Nat
        /\ token[i][g].left \in Nat /\ token'[i][g].left \in Nat
    BY <1>3, <1>4, <1>5, <1>6, BoundAssumption DEF InvitationRow, TokenRow
  <2>3. ~InTime(i, g)'
    <3>1. invitation'[i].left = 0 \/ token'[i][g].left = 0
      <4>1. invitation[i].left = 0 \/ token[i][g].left = 0
        BY <2>1, <2>2 DEF InTime
      <4>2. token[i][g].left = 0 => token'[i][g].left = 0
        BY <1>2, <1>3, <2>2 DEF TokensContinue
      <4>3. invitation[i].left = 0 => invitation'[i].left = 0
        BY <1>2, <1>5 DEF Continues
      <4>4. QED
        BY <4>1, <4>2, <4>3
    <3>2. QED
      BY <3>1 DEF InTime
  <2>4. QED
    BY <1>10, <2>3 DEF Suits
<1>11. QED
  BY <1>7, <1>8, <1>9, <1>10 DEF Lasting, Read

LEMMA EventsGrowWithCommands ==
  ASSUME OutboxTypeOK, InvitationsAgree, [OrgNext]_orgVars
  PROVE  EventsGrow
<1> SUFFICES ASSUME NEW i \in InvitationId, NEW g \in DOMAIN event[i]
             PROVE  /\ g \in DOMAIN event'[i]
                    /\ event'[i][g].attempt >= event[i][g].attempt
  BY DEF EventsGrow
<1>1. EventsContinue(i) /\ OrgTypeOK
  BY EveryEventContinues DEF OutboxTypeOK
<1>2. event[i][g] \in EventRow
  BY <1>1, RowsAreSequences
<1>3. event[i][g].attempt \in Nat
  BY <1>2, BoundAssumption DEF EventRow
<1>4. QED
  BY <1>1, <1>3 DEF EventsContinue

-----------------------------------------------------------------------------
(* Steps of a worker *)

LEMMA InvitationsStillAgree ==
  ASSUME InvitationsAgree, UNCHANGED <<invitation, token>>,
         \A i \in InvitationId : Len(event'[i]) = Len(event[i])
  PROVE  InvitationsAgree'
<1> SUFFICES ASSUME NEW i \in InvitationId
             PROVE  TokensAgree(i)'
  BY DEF InvitationsAgree
<1>1. TokensAgree(i)
  BY DEF InvitationsAgree
<1>2. Latest(i)' = Latest(i) /\ Len(event'[i]) = Len(event[i])
  BY DEF Latest
<1>3. QED
  BY <1>1, <1>2 DEF TokensAgree

LEMMA AWorkerSteps ==
  ASSUME OutboxInv, NEW w \in Worker,
         UNCHANGED <<organization, invitation, token>>,
         \A x \in Worker \ {w} : worker'[x] = worker[x],
         mailed \subseteq mailed',
         EventsGrow,
         \A i \in InvitationId : Len(event'[i]) = Len(event[i]),
         OutboxTypeOK',
         WorkerAgrees(w)'
  PROVE  OutboxInv'
<1>1. InvitationsAgree'
  BY InvitationsStillAgree DEF OutboxInv
<1>2. FaultsLast
  BY FaultsLastForWorkers
<1>3. ASSUME NEW x \in Worker, x # w
      PROVE  WorkerAgrees(x)'
  BY <1>2, <1>3, AgreesStill DEF OutboxInv, OutboxTypeOK
<1>4. QED
  BY <1>1, <1>3 DEF OutboxInv

LEMMA SameEventsGrow ==
  ASSUME OutboxTypeOK, event' = event
  PROVE  EventsGrow /\ \A i \in InvitationId : Len(event'[i]) = Len(event[i])
<1>1. ASSUME NEW i \in InvitationId, NEW g \in DOMAIN event[i]
      PROVE  event[i][g].attempt \in Nat
  <2>1. event[i][g] \in EventRow
    BY RowsAreSequences DEF OutboxTypeOK
  <2>2. QED
    BY <2>1, BoundAssumption DEF EventRow
<1>2. QED
  BY <1>1 DEF EventsGrow

\* A step in which the worker stops being busy, or gives its attempt up.
LEMMA WorkerStops ==
  ASSUME OutboxInv, NEW w \in Worker,
         UNCHANGED <<account, organization, member, invitation, token, event, mailed>>,
         \/ worker' = [worker EXCEPT ![w] = Idle]
         \/ worker' = [worker EXCEPT ![w] = Down]
         \/ IsBusy(w) /\ Goes(w, "FAILED")
  PROVE  OutboxInv'
<1>1. OutboxTypeOK /\ WorkerAgrees(w)
  BY DEF OutboxInv
<1>2. OrgTypeOK'
  BY <1>1 DEF OutboxTypeOK, OrgTypeOK
<1>3. CASE \/ worker' = [worker EXCEPT ![w] = Idle]
           \/ worker' = [worker EXCEPT ![w] = Down]
  <2>1. /\ OutboxTypeOK'
        /\ \A x \in Worker \ {w} : worker'[x] = worker[x]
        /\ worker'[w] \in {Idle, Down}
    BY <1>1, <1>2, <1>3 DEF OutboxTypeOK
  <2>2. WorkerAgrees(w)'
    BY <2>1 DEF WorkerAgrees, IsBusy, Idle, Down
  <2>3. QED
    BY <1>1, <2>1, <2>2, SameEventsGrow, AWorkerSteps
<1>4. CASE IsBusy(w) /\ Goes(w, "FAILED")
  <2>1. /\ worker' \in [Worker -> Busy \cup {Idle, Down}]
        /\ \A x \in Worker \ {w} : worker'[x] = worker[x]
        /\ worker'[w].phase = "FAILED"
        /\ worker'[w].i = worker[w].i /\ worker'[w].g = worker[w].g
        /\ worker'[w].attempt = worker[w].attempt
    BY <1>1, <1>4, PhaseType
  <2>2. OutboxTypeOK'
    BY <1>1, <1>2, <2>1 DEF OutboxTypeOK
  <2>3. WorkerAgrees(w)'
    BY <1>1, <1>4, <2>1 DEF WorkerAgrees
  <2>4. QED
    BY <1>1, <2>1, <2>2, <2>3, SameEventsGrow, AWorkerSteps
<1>5. QED
  BY <1>3, <1>4

\* What a claim writes.
ClaimedEvent(w, i, g) ==
  [event[i][g] EXCEPT !.status = "PROCESSING", !.error = "NONE",
                      !.attempt = IF event[i][g].attempt < MaxAttempts
                                    THEN event[i][g].attempt + 1 ELSE MaxAttempts,
                      !.lock = w, !.lease = LeaseTtl]

\* What a claim does.
Claims(w, i, g) ==
  /\ g \in DOMAIN event[i]
  /\ ClaimedEvent(w, i, g) \in EventRow
  /\ event' = [event EXCEPT ![i] = [event[i] EXCEPT ![g] = ClaimedEvent(w, i, g)]]
  /\ event[i][g].attempt \in 0 .. MaxAttempts
  /\ ClaimedEvent(w, i, g).status = "PROCESSING"
  /\ ClaimedEvent(w, i, g).attempt = IF event[i][g].attempt < MaxAttempts
                                       THEN event[i][g].attempt + 1 ELSE MaxAttempts
  /\ worker'[w] \in Busy
  /\ worker'[w].i = i /\ worker'[w].g = g
  /\ worker'[w].phase = "READING" /\ worker'[w].unread = Read
  /\ worker'[w].fit = TRUE
  /\ worker'[w].attempt = ClaimedEvent(w, i, g).attempt

LEMMA ClaimEffect ==
  ASSUME OutboxTypeOK, NEW w \in Worker, NEW i \in InvitationId,
         NEW g \in 1 .. MaxGeneration, Claim(w, i, g)
  PROVE  Claims(w, i, g)
<1>1. g \in DOMAIN event[i]
  BY DEF Claim
<1>2. event[i][g] \in EventRow
  BY <1>1, RowsAreSequences DEF OutboxTypeOK
<1> DEFINE attempt == IF event[i][g].attempt < MaxAttempts THEN event[i][g].attempt + 1
                                                           ELSE MaxAttempts
<1>3. attempt \in 1 .. MaxAttempts /\ event[i][g].attempt \in 0 .. MaxAttempts
  <2>1. event[i][g].attempt \in 0 .. MaxAttempts
    BY <1>2 DEF EventRow
  <2>2. QED
    BY <2>1, BoundAssumption
<1>4. ClaimedEvent(w, i, g) = [event[i][g] EXCEPT !.status = "PROCESSING", !.error = "NONE",
                                 !.attempt = attempt, !.lock = w, !.lease = LeaseTtl]
  BY DEF ClaimedEvent
<1>5. event' = [event EXCEPT ![i] = [event[i] EXCEPT ![g] = ClaimedEvent(w, i, g)]]
  BY <1>4 DEF Claim
<1>6. worker'[w] = [phase |-> "READING", i |-> i, g |-> g, attempt |-> attempt,
                    unread |-> Read, fit |-> TRUE, usable |-> FALSE]
  BY DEF Claim, OutboxTypeOK
<1> HIDE DEF attempt
<1>7. LeaseTtl \in 0 .. LeaseTtl /\ attempt \in 0 .. MaxAttempts
  BY <1>3, BoundAssumption
<1>8. /\ ClaimedEvent(w, i, g) \in EventRow
      /\ ClaimedEvent(w, i, g).status = "PROCESSING"
      /\ ClaimedEvent(w, i, g).attempt = attempt
  BY <1>2, <1>4, <1>7 DEF EventRow
<1>9. worker'[w] \in Busy
  BY <1>3, <1>6 DEF Busy
<1>10. QED
  BY <1>1, <1>3, <1>5, <1>6, <1>8, <1>9 DEF attempt, Claims

LEMMA ClaimKeepsInv ==
  ASSUME OutboxInv, NEW w \in Worker, NEW i \in InvitationId,
         NEW g \in 1 .. MaxGeneration, Claim(w, i, g)
  PROVE  OutboxInv'
<1>0. OutboxTypeOK
  BY DEF OutboxInv
<1>1. OutboxTypeOK /\ OrgTypeOK
  BY <1>0 DEF OutboxTypeOK
<1>2. Claims(w, i, g)
  BY <1>0, ClaimEffect
<1>3. /\ event' \in [InvitationId -> Seq(EventRow)]
      /\ event'[i][g] = ClaimedEvent(w, i, g)
      /\ \A x \in InvitationId : /\ DOMAIN event'[x] = DOMAIN event[x]
                                 /\ Len(event'[x]) = Len(event[x])
      /\ \A x \in InvitationId : \A y \in DOMAIN event[x] :
           <<x, y>> # <<i, g>> => event'[x][y] = event[x][y]
  <2>1. /\ g \in DOMAIN event[i] /\ ClaimedEvent(w, i, g) \in EventRow
        /\ event' = [event EXCEPT ![i] = [event[i] EXCEPT ![g] = ClaimedEvent(w, i, g)]]
    BY <1>2 DEF Claims
  <2>2. QED
    BY <1>1, <2>1, OneEventChanges
<1>4. EventsGrow
  <2> SUFFICES ASSUME NEW x \in InvitationId, NEW y \in DOMAIN event[x]
               PROVE  event'[x][y].attempt >= event[x][y].attempt
    BY <1>3 DEF EventsGrow
  <2>1. event[x][y] \in EventRow
    BY <1>1, RowsAreSequences
  <2>2. event[x][y].attempt \in Nat
    BY <2>1, BoundAssumption DEF EventRow
  <2>3. CASE x = i /\ y = g
    BY <1>2, <1>3, <2>2, <2>3, BoundAssumption DEF Claims
  <2>4. CASE ~(x = i /\ y = g)
    BY <1>3, <2>2, <2>4
  <2>5. QED
    BY <2>3, <2>4
<1>5. /\ worker' \in [Worker -> Busy \cup {Idle, Down}]
      /\ \A x \in Worker \ {w} : worker'[x] = worker[x]
  <2>1. /\ worker \in [Worker -> Busy \cup {Idle, Down}]
        /\ worker' = [worker EXCEPT ![w] = worker'[w]]
    BY <1>1 DEF Claim, OutboxTypeOK
  <2>2. QED
    BY <1>2, <2>1 DEF Claims
<1>6. OutboxTypeOK'
  BY <1>1, <1>3, <1>5 DEF Claim, OutboxTypeOK, OrgTypeOK
<1>7. WorkerAgrees(w)'
  <2>1. ClaimedEvent(w, i, g).attempt <= ClaimedEvent(w, i, g).attempt
    BY <1>2, BoundAssumption DEF Claims
  <2>2. PICK row : row = worker'[w]
    OBVIOUS
  <2>3. /\ row.phase # "SENT" /\ row.fit # FALSE /\ row.unread = Read
        /\ row.g \in DOMAIN event'[row.i]
        /\ row.attempt <= event'[row.i][row.g].attempt
    BY <1>2, <1>3, <2>1, <2>2 DEF Claims
  <2>4. QED
    BY <2>2, <2>3 DEF WorkerAgrees
<1>8. QED
  BY <1>3, <1>4, <1>5, <1>6, <1>7, AWorkerSteps DEF Claim

LEMMA ReadRowKeepsInv ==
  ASSUME OutboxInv, NEW w \in Worker, NEW read \in Read, ReadRow(w, read)
  PROVE  OutboxInv'
<1>1. OutboxTypeOK /\ OrgTypeOK /\ WorkerAgrees(w) /\ InvitationsAgree
  BY DEF OutboxInv, OutboxTypeOK
<1>2. PICK r : r = worker[w]
  OBVIOUS
<1>3. IsBusy(w) /\ r.phase = "READING" /\ read \in r.unread
  BY <1>2 DEF ReadRow, IsBusy
<1>4. /\ r \in Busy /\ r.i \in InvitationId
      /\ r.unread \subseteq Read /\ r.fit \in BOOLEAN /\ r.usable \in BOOLEAN
  BY <1>1, <1>2, <1>3, WorkerType DEF Busy
<1> DEFINE suits == Suits(read, r.i, r.g)
           usable == IF r.unread = Read THEN Usable(r.i, r.g) ELSE r.usable
           s == [r EXCEPT !.unread = IF suits THEN @ \ {read} ELSE {},
                          !.fit = suits, !.usable = usable]
<1>5. worker' = [worker EXCEPT ![w] = s]
  BY <1>2 DEF ReadRow
<1>6. suits \in BOOLEAN /\ usable \in BOOLEAN
  BY <1>1, <1>4, Booleans
<1> HIDE DEF suits, usable
<1>7. /\ s \in Busy
      /\ s.phase = "READING" /\ s.i = r.i /\ s.g = r.g /\ s.attempt = r.attempt
      /\ s.fit = suits /\ s.usable = usable
      /\ suits => s.unread = r.unread \ {read}
      /\ ~suits => s.unread = {}
  BY <1>3, <1>4, <1>6 DEF Busy
<1> HIDE DEF s
<1>8. /\ worker' \in [Worker -> Busy \cup {Idle, Down}]
      /\ \A x \in Worker \ {w} : worker'[x] = worker[x]
      /\ worker'[w] = s
  BY <1>1, <1>5, <1>7 DEF OutboxTypeOK
<1>9. OutboxTypeOK'
  BY <1>1, <1>8 DEF ReadRow, OutboxTypeOK, OrgTypeOK
<1>10. /\ r.g \in DOMAIN event[r.i]
       /\ r.attempt <= event[r.i][r.g].attempt
  BY <1>1, <1>2, <1>3 DEF WorkerAgrees
<1>11. ASSUME s.fit = TRUE
       PROVE  \/ s.usable = TRUE
              \/ \E other \in s.unread \cap Lasting : ~Suits(other, r.i, r.g)
  <2>1. suits /\ s.unread = r.unread \ {read} /\ Suits(read, r.i, r.g)
    BY <1>6, <1>7, <1>11 DEF suits
  <2>2. \/ usable = TRUE
        \/ \E other \in r.unread \cap Lasting : ~Suits(other, r.i, r.g)
    <3>1. CASE r.unread = Read
      <4>1. usable = Usable(r.i, r.g)
        BY <3>1 DEF usable
      <4>2. Usable(r.i, r.g) \/ \E other \in Lasting : ~Suits(other, r.i, r.g)
        <5>1. Suits("INVITATION", r.i, r.g) <=> invitation[r.i].status = "PENDING"
          BY DEF Suits
        <5>2. Suits("TOKEN", r.i, r.g) <=> token[r.i][r.g].state = "LIVE"
          BY DEF Suits
        <5>3. Suits("LATEST", r.i, r.g) <=> r.g = Latest(r.i)
          BY DEF Suits
        <5>4. Suits("CLOCK", r.i, r.g) <=> InTime(r.i, r.g)
          BY DEF Suits
        <5>5. {"INVITATION", "TOKEN", "LATEST", "CLOCK"} \subseteq Lasting
          BY DEF Lasting, Read
        <5>6. QED
          BY <5>1, <5>2, <5>3, <5>4, <5>5 DEF Usable, Answers
      <4>3. Lasting \subseteq r.unread
        BY <3>1 DEF Lasting
      <4>4. usable \in BOOLEAN
        BY <1>6
      <4>5. CASE Usable(r.i, r.g)
        BY <4>1, <4>4, <4>5
      <4>6. CASE \E other \in Lasting : ~Suits(other, r.i, r.g)
        BY <4>3, <4>6
      <4>7. QED
        BY <4>2, <4>5, <4>6
    <3>2. CASE r.unread # Read
      <4>1. usable = r.usable
        BY <3>2 DEF usable
      <4>2. r.fit # FALSE
        BY <1>1, <1>2, <1>3 DEF WorkerAgrees
      <4>3. r.fit = TRUE
        BY <1>4, <4>2
      <4>4. QED
        BY <1>1, <1>2, <1>3, <3>2, <4>1, <4>3 DEF WorkerAgrees
    <3>3. QED
      BY <3>1, <3>2
  <2>3. QED
    BY <1>7, <2>1, <2>2
<1>12. WorkerAgrees(w)'
  <2>1. /\ worker'[w].phase = "READING"
        /\ worker'[w].i = r.i /\ worker'[w].g = r.g
        /\ worker'[w].attempt = r.attempt
        /\ worker'[w].unread = s.unread
        /\ worker'[w].fit = s.fit /\ worker'[w].usable = s.usable
    BY <1>7, <1>8
  <2>2. \A other \in Read : Suits(other, r.i, r.g)' <=> Suits(other, r.i, r.g)
    BY DEF ReadRow, Suits, Latest, InTime
  <2>3. s.unread \subseteq Read
    BY <1>7 DEF Busy
  <2>4. QED
    BY <1>6, <1>7, <1>10, <1>11, <2>1, <2>2, <2>3 DEF WorkerAgrees, ReadRow
<1>13. QED
  BY <1>1, <1>8, <1>9, <1>12, SameEventsGrow, AWorkerSteps DEF ReadRow

LEMMA DeliverKeepsInv ==
  ASSUME OutboxInv, NEW w \in Worker, Deliver(w)
  PROVE  OutboxInv'
<1>1. OutboxTypeOK /\ OrgTypeOK /\ WorkerAgrees(w)
  BY DEF OutboxInv, OutboxTypeOK
<1>2. PICK r : r = worker[w]
  OBVIOUS
<1>3. IsBusy(w) /\ r.phase = "READING" /\ r.unread = {} /\ r.fit
  BY <1>2 DEF Deliver, IsBusy
<1>4. /\ r \in Busy /\ r.i \in InvitationId /\ r.g \in 1 .. MaxGeneration
      /\ r.fit \in BOOLEAN /\ r.g \in DOMAIN event[r.i]
      /\ r.attempt <= event[r.i][r.g].attempt
  BY <1>1, <1>2, <1>3, WorkerType DEF Busy, WorkerAgrees
<1>5. r.usable = TRUE
  <2>1. r.fit = TRUE /\ r.unread # Read
    BY <1>3, <1>4 DEF Read
  <2>2. QED
    BY <1>1, <1>2, <1>3, <2>1 DEF WorkerAgrees
<1>6. PICK phase \in {"SENT", "FAILED"} :
        /\ Goes(w, phase)
        /\ \/ mailed' = mailed \cup {<<r.i, r.g>>}
           \/ mailed' = mailed /\ phase = "FAILED"
  BY <1>2 DEF Deliver
<1>7. /\ worker' \in [Worker -> Busy \cup {Idle, Down}]
      /\ \A x \in Worker \ {w} : worker'[x] = worker[x]
      /\ worker'[w].phase = phase
      /\ worker'[w].i = r.i /\ worker'[w].g = r.g
      /\ worker'[w].attempt = r.attempt
      /\ worker'[w].usable = r.usable
  BY <1>1, <1>2, <1>3, <1>6, PhaseType
<1>8. /\ mailed \subseteq mailed' /\ mailed' \subseteq InvitationId \X (1 .. MaxGeneration)
      /\ phase = "SENT" => <<r.i, r.g>> \in mailed'
  BY <1>1, <1>4, <1>6 DEF OutboxTypeOK
<1>9. UNCHANGED <<account, organization, member, invitation, token, event>>
  BY DEF Deliver
<1>10. OutboxTypeOK'
  BY <1>1, <1>7, <1>8, <1>9 DEF OutboxTypeOK, OrgTypeOK
<1>11. WorkerAgrees(w)'
  <2>1. PICK row : row = worker'[w]
    OBVIOUS
  <2>2. /\ row.phase # "READING"
        /\ row.i = r.i /\ row.g = r.g /\ row.attempt = r.attempt /\ row.usable = r.usable
        /\ row.phase = "SENT" => <<r.i, r.g>> \in mailed'
    BY <1>6, <1>7, <1>8, <2>1
  <2>3. QED
    BY <1>4, <1>5, <1>9, <2>1, <2>2 DEF WorkerAgrees
<1>12. QED
  BY <1>1, <1>7, <1>8, <1>9, <1>10, <1>11, SameEventsGrow, AWorkerSteps

\* The event that a worker finishes.
FinishedEvent(w) ==
  [Claimed(w) EXCEPT
     !.status = Outcome(w), !.lock = NoLock, !.lease = 0,
     !.error = IF Outcome(w) \in {"PENDING", "DEAD_LETTER"} THEN "FAILED" ELSE "NONE",
     !.wait = IF Outcome(w) = "PENDING" THEN Backoff ELSE @]

LEMMA FinishEffect ==
  ASSUME OutboxTypeOK, NEW w \in Worker, WorkerAgrees(w), Finish(w)
  PROVE  /\ IsBusy(w)
         /\ worker[w].i \in InvitationId /\ worker[w].g \in DOMAIN event[worker[w].i]
         /\ Claimed(w) \in EventRow
         /\ FinishedEvent(w) \in EventRow
         /\ event' = [event EXCEPT ![worker[w].i] =
                        [event[worker[w].i] EXCEPT ![worker[w].g] = FinishedEvent(w)]]
         /\ FinishedEvent(w).attempt = Claimed(w).attempt
         /\ FinishedEvent(w).status = Outcome(w)
         /\ Outcome(w) \in {"PROCESSED", "OBSOLETE", "DEAD_LETTER", "PENDING"}
<1>1. IsBusy(w) /\ worker[w].phase \in {"READING", "SENT", "FAILED"}
  BY DEF Finish, MayFinish, IsBusy
<1>2. /\ worker[w].i \in InvitationId /\ worker[w].g \in DOMAIN event[worker[w].i]
  BY <1>1, WorkerType DEF WorkerAgrees
<1>3. Claimed(w) \in EventRow
  BY <1>2, RowsAreSequences DEF OutboxTypeOK, Claimed
<1>4. Outcome(w) \in {"PROCESSED", "OBSOLETE", "DEAD_LETTER", "PENDING"}
  BY <1>1 DEF Outcome
<1>5. 0 \in 0 .. LeaseTtl /\ Backoff \in 0 .. Backoff
  BY BoundAssumption
<1> DEFINE status == Outcome(w)
           error == IF Outcome(w) \in {"PENDING", "DEAD_LETTER"} THEN "FAILED" ELSE "NONE"
           wait == IF Outcome(w) = "PENDING" THEN Backoff ELSE Claimed(w).wait
<1>6. FinishedEvent(w) = [Claimed(w) EXCEPT !.status = status, !.lock = NoLock, !.lease = 0,
                                            !.error = error, !.wait = wait]
  BY DEF FinishedEvent
<1>7. status \in {"PROCESSED", "OBSOLETE", "DEAD_LETTER", "PENDING"}
  BY <1>4
<1>8. error \in {"FAILED", "NONE"}
  OBVIOUS
<1>9. wait \in 0 .. Backoff
  BY <1>3, <1>5 DEF EventRow
<1> HIDE DEF status, error, wait
<1>10. /\ FinishedEvent(w) \in EventRow
       /\ FinishedEvent(w).attempt = Claimed(w).attempt
       /\ FinishedEvent(w).status = status
  BY <1>3, <1>5, <1>6, <1>7, <1>8, <1>9 DEF EventRow
<1>11. event' = [event EXCEPT ![worker[w].i] =
                   [event[worker[w].i] EXCEPT ![worker[w].g] = FinishedEvent(w)]]
  BY DEF Finish, FinishedEvent
<1>12. QED
  BY <1>1, <1>2, <1>3, <1>4, <1>10, <1>11 DEF status

LEMMA FinishKeepsInv ==
  ASSUME OutboxInv, NEW w \in Worker, Finish(w)
  PROVE  OutboxInv'
<1>1. OutboxTypeOK /\ OrgTypeOK /\ WorkerAgrees(w)
  BY DEF OutboxInv, OutboxTypeOK
<1>2. PICK i, g, e : i = worker[w].i /\ g = worker[w].g /\ e = FinishedEvent(w)
  OBVIOUS
<1>3. /\ i \in InvitationId /\ g \in DOMAIN event[i] /\ e \in EventRow
      /\ event' = [event EXCEPT ![i] = [event[i] EXCEPT ![g] = e]]
      /\ e.attempt = event[i][g].attempt
  BY <1>1, <1>2, FinishEffect DEF Claimed
<1>4. /\ event' \in [InvitationId -> Seq(EventRow)]
      /\ event'[i][g] = e
      /\ \A x \in InvitationId : /\ DOMAIN event'[x] = DOMAIN event[x]
                                 /\ Len(event'[x]) = Len(event[x])
      /\ \A x \in InvitationId : \A y \in DOMAIN event[x] :
           <<x, y>> # <<i, g>> => event'[x][y] = event[x][y]
  BY <1>1, <1>3, OneEventChanges
<1>5. EventsGrow
  <2> SUFFICES ASSUME NEW x \in InvitationId, NEW y \in DOMAIN event[x]
               PROVE  event'[x][y].attempt >= event[x][y].attempt
    BY <1>4 DEF EventsGrow
  <2>1. event[x][y] \in EventRow
    BY <1>1, RowsAreSequences
  <2>2. event[x][y].attempt \in Nat
    BY <2>1, BoundAssumption DEF EventRow
  <2>3. event'[x][y].attempt = event[x][y].attempt
    BY <1>3, <1>4
  <2>4. QED
    BY <2>2, <2>3
<1>6. /\ worker' \in [Worker -> Busy \cup {Idle, Down}]
      /\ \A x \in Worker \ {w} : worker'[x] = worker[x]
      /\ worker'[w] = Idle
  BY <1>1 DEF Finish, OutboxTypeOK
<1>7. OutboxTypeOK'
  BY <1>1, <1>4, <1>6 DEF Finish, OutboxTypeOK, OrgTypeOK
<1>8. WorkerAgrees(w)'
  BY <1>6 DEF WorkerAgrees, IsBusy, Idle
<1>9. QED
  BY <1>4, <1>5, <1>6, <1>7, <1>8, AWorkerSteps DEF Finish

\* Commands and time.
LEMMA CommandsKeepInv ==
  ASSUME OutboxInv, [OrgNext]_orgVars, UNCHANGED <<worker, mailed>>
  PROVE  OutboxInv'
<1>1. OutboxTypeOK /\ OrgTypeOK /\ InvitationsAgree
  BY DEF OutboxInv, OutboxTypeOK
<1>2. OrgTypeOK'
  BY <1>1, OrgTypesKept
<1>3. OutboxTypeOK'
  BY <1>1, <1>2 DEF OutboxTypeOK
<1>4. InvitationsAgree'
  BY <1>1, TokensAgreeAfterwards DEF InvitationsAgree
<1>5. EventsGrow /\ FaultsLast
  BY <1>1, <1>2, EventsGrowWithCommands, FaultsLastForCommands
<1>6. ASSUME NEW w \in Worker
      PROVE  WorkerAgrees(w)'
  BY <1>1, <1>2, <1>5, AgreesStill DEF OutboxInv
<1>7. QED
  BY <1>3, <1>4, <1>6 DEF OutboxInv

LEMMA OutboxInitially == Init => OutboxInv
<1> SUFFICES ASSUME Init
             PROVE  OutboxInv
  OBVIOUS
<1>1. OrgTypeOK
  BY OrgTypesInitially DEF Init
<1>2. OutboxTypeOK
  BY <1>1 DEF Init, OutboxTypeOK
<1>3. InvitationsAgree
  BY TokensAgreeInitially DEF Init, InvitationsAgree
<1>4. ASSUME NEW w \in Worker
      PROVE  WorkerAgrees(w)
  BY DEF Init, WorkerAgrees, IsBusy, Idle
<1>5. QED
  BY <1>2, <1>3, <1>4 DEF OutboxInv

LEMMA OutboxStep == OutboxInv /\ [Next]_vars => OutboxInv'
<1> SUFFICES ASSUME OutboxInv, [Next]_vars
             PROVE  OutboxInv'
  OBVIOUS
<1>1. CASE OrgNext /\ UNCHANGED <<worker, mailed>>
  BY <1>1, CommandsKeepInv
<1>2. ASSUME NEW w \in Worker, NEW i \in InvitationId, NEW g \in 1 .. MaxGeneration,
             Claim(w, i, g)
      PROVE  OutboxInv'
  BY <1>2, ClaimKeepsInv
<1>3. ASSUME NEW w \in Worker, Process(w)
      PROVE  OutboxInv'
  <2>1. ASSUME NEW read \in Read, ReadRow(w, read)
        PROVE  OutboxInv'
    BY <2>1, ReadRowKeepsInv
  <2>2. CASE ReadFails(w)
    BY <2>2, WorkerStops DEF ReadFails, IsBusy
  <2>3. CASE Deliver(w)
    BY <2>3, DeliverKeepsInv
  <2>4. CASE Finish(w)
    BY <2>4, FinishKeepsInv
  <2>5. CASE FinishFails(w)
    <3>1. IsBusy(w)
      BY <2>5 DEF FinishFails, MayFinish, IsBusy
    <3>2. QED
      BY <2>5, <3>1, WorkerStops DEF FinishFails
  <2>6. QED
    BY <1>3, <2>1, <2>2, <2>3, <2>4, <2>5 DEF Process
<1>4. ASSUME NEW w \in Worker, Crash(w) \/ Restart(w)
      PROVE  OutboxInv'
  BY <1>4, WorkerStops DEF Crash, Restart
<1>5. CASE UNCHANGED vars
  BY <1>5, CommandsKeepInv DEF vars, orgVars
<1>6. QED
  BY <1>1, <1>2, <1>3, <1>4, <1>5 DEF Next

LEMMA OutboxInvariant == Spec => []OutboxInv
BY OutboxInitially, OutboxStep, PTL DEF Spec

-----------------------------------------------------------------------------

\* The rows and the states of the workers keep their types.
THEOREM OutboxTypeCorrect == Spec => []OutboxTypeOK
<1>1. OutboxInv => OutboxTypeOK
  BY DEF OutboxInv
<1>2. QED
  BY <1>1, OutboxInvariant, PTL

\* The token of a mail that goes out could still be used when the worker began to
\* read, although the five reads are not one snapshot: what one of them would find
\* wrong stays wrong until it is read.  Only a suspension can end before it is seen,
\* and it does not make a token unusable.
THEOREM MailIsForUsable == Spec => []MailIsForUsableTokens
<1>1. OutboxInv => MailIsForUsableTokens
  <2> SUFFICES ASSUME OutboxInv, NEW w \in Worker, worker[w].phase = "SENT"
               PROVE  worker[w].usable
    BY DEF MailIsForUsableTokens
  <2>1. QED
    BY DEF OutboxInv, WorkerAgrees, IsBusy
<1>2. QED
  BY <1>1, OutboxInvariant, PTL

LEMMA LeaseEnds ==
  ASSUME OutboxInv, Next, NEW i \in InvitationId, NEW g \in DOMAIN event[i],
         IsLeased(event[i][g]), event'[i][g].status # "PROCESSING"
  PROVE  LET w == event[i][g].lock IN
         IsBusy(w) /\ worker[w].i = i /\ worker[w].g = g /\ worker'[w].phase = "IDLE"
<1>1. OutboxTypeOK /\ OrgTypeOK /\ InvitationsAgree
  BY DEF OutboxInv, OutboxTypeOK
<1>2. event[i][g].status = "PROCESSING"
  BY DEF IsLeased
<1>3. event' # event
  BY <1>2
<1>4. ~(OrgNext /\ UNCHANGED <<worker, mailed>>)
  <2>1. SUFFICES ASSUME OrgNext
                 PROVE  FALSE
    OBVIOUS
  <2>2. EventsContinue(i)
    BY <1>1, <2>1, EveryEventContinues
  <2>3. QED
    BY <1>2, <2>2 DEF EventsContinue
<1>5. ASSUME NEW w \in Worker, NEW j \in InvitationId, NEW h \in 1 .. MaxGeneration,
             Claim(w, j, h)
      PROVE  FALSE
  <2>1. /\ h \in DOMAIN event[j] /\ ClaimedEvent(w, j, h) \in EventRow
        /\ event' = [event EXCEPT ![j] = [event[j] EXCEPT ![h] = ClaimedEvent(w, j, h)]]
        /\ ClaimedEvent(w, j, h).status = "PROCESSING"
    <3>1. Claims(w, j, h)
      BY <1>1, <1>5, ClaimEffect
    <3>2. QED
      BY <3>1 DEF Claims
  <2>2. /\ event'[j][h] = ClaimedEvent(w, j, h)
        /\ \A x \in InvitationId : \A y \in DOMAIN event[x] :
             <<x, y>> # <<j, h>> => event'[x][y] = event[x][y]
    BY <1>1, <2>1, OneEventChanges
  <2>3. ClaimedEvent(w, j, h).status = "PROCESSING"
    BY <2>1
  <2>4. QED
    BY <1>2, <2>2, <2>3
<1>6. PICK w \in Worker : Finish(w)
  BY <1>3, <1>4, <1>5 DEF Next, Process, ReadRow, ReadFails, Deliver, FinishFails, Crash, Restart
<1>7. WorkerAgrees(w)
  BY DEF OutboxInv
<1>8. PICK j, h, e : j = worker[w].i /\ h = worker[w].g /\ e = FinishedEvent(w)
  OBVIOUS
<1>9. /\ IsBusy(w) /\ j \in InvitationId /\ h \in DOMAIN event[j] /\ e \in EventRow
      /\ event' = [event EXCEPT ![j] = [event[j] EXCEPT ![h] = e]]
  BY <1>1, <1>6, <1>7, <1>8, FinishEffect
<1>10. \A x \in InvitationId : \A y \in DOMAIN event[x] :
         <<x, y>> # <<j, h>> => event'[x][y] = event[x][y]
  BY <1>1, <1>9, OneEventChanges
<1>11. i = j /\ g = h
  BY <1>2, <1>10
<1>12. event[i][g].lock = w
  BY <1>6, <1>8, <1>11 DEF Finish, HoldsLock, Claimed
<1>13. worker'[w].phase = "IDLE"
  BY <1>1, <1>6 DEF Finish, OutboxTypeOK, Idle
<1>14. QED
  BY <1>8, <1>9, <1>11, <1>12, <1>13

\* While a lease lasts, only the worker that holds it ends or retries the event.
THEOREM LeasesAlwaysRespected == Spec => LeasesAreRespected
<1>1. OutboxInv /\ [Next]_vars =>
        [\A i \in InvitationId : \A g \in DOMAIN event[i] :
           IsLeased(event[i][g]) /\ event'[i][g].status # "PROCESSING" =>
             LET w == event[i][g].lock IN
             IsBusy(w) /\ worker[w].i = i /\ worker[w].g = g /\ worker'[w].phase = "IDLE"]_vars
  BY LeaseEnds
<1>2. QED
  BY <1>1, OutboxInvariant, PTL DEF Spec, LeasesAreRespected

-----------------------------------------------------------------------------
(* The refinement of Outbox *)

AbstractState == [e \in EventOf |-> StateOf(e)]
AbstractAttempt == [e \in EventOf |-> AttemptOf(e)]

\* What Outbox allows to happen to one event when states are written.
Moves(e) ==
  /\ AttemptOf(e)' = AttemptOf(e)
  /\ \/ StateOf(e)' = StateOf(e)
     \/ StateOf(e) = "ABSENT" /\ StateOf(e)' = "OPEN"
     \/ /\ StateOf(e) = "OPEN"
        /\ StateOf(e)' \in {"PROCESSED", "OBSOLETE", "DEAD_LETTER"}
        /\ StateOf(e)' = "PROCESSED" => e \in mailed
        /\ StateOf(e)' = "DEAD_LETTER" => AttemptOf(e) = MaxAttempts

LEMMA StatesAreWritten ==
  ASSUME UNCHANGED mailed, \A e \in EventOf : Moves(e)
  PROVE  Abstract!Write
<1>1. \A e \in EventOf : StateOf(e)' \in {"ABSENT", "OPEN", "PROCESSED", "OBSOLETE", "DEAD_LETTER"}
  BY DEF StateOf, IsClosed
<1>2. AbstractState' \in [EventOf -> {"ABSENT", "OPEN"} \cup Abstract!Outcome]
  BY <1>1 DEF AbstractState, Abstract!Outcome
<1>3. AbstractAttempt' = AbstractAttempt
  BY DEF AbstractAttempt, Moves
<1>4. ASSUME NEW e \in EventOf
      PROVE  /\ Abstract!Move(AbstractState[e], AbstractState'[e])
             /\ AbstractState[e] = "OPEN" /\ AbstractState'[e] = "PROCESSED" => e \in mailed
             /\ AbstractState[e] = "OPEN" /\ AbstractState'[e] = "DEAD_LETTER"
                  => AbstractAttempt[e] = MaxAttempts
  <2>1. /\ AbstractState[e] = StateOf(e) /\ AbstractState'[e] = StateOf(e)'
        /\ AbstractAttempt[e] = AttemptOf(e)
    BY DEF AbstractState, AbstractAttempt
  <2>2. Moves(e)
    OBVIOUS
  <2>3. QED
    BY <2>1, <2>2 DEF Moves, Abstract!Move, Abstract!Outcome
<1>5. QED
  BY <1>2, <1>3, <1>4 DEF Abstract!Write, AbstractState, AbstractAttempt

\* The state and the attempts of an event that is there, and of one that is not.
LEMMA EventIsThere ==
  ASSUME NEW i \in InvitationId, NEW g \in 1 .. MaxGeneration
  PROVE  /\ <<i, g>> \in EventOf
         /\ g \notin DOMAIN event[i] => StateOf(<<i, g>>) = "ABSENT" /\ AttemptOf(<<i, g>>) = 0
         /\ g \in DOMAIN event[i] =>
              /\ AttemptOf(<<i, g>>) = event[i][g].attempt
              /\ IsClosed(event[i][g]) => StateOf(<<i, g>>) = event[i][g].status
              /\ ~IsClosed(event[i][g]) => StateOf(<<i, g>>) = "OPEN"
BY DEF EventOf, StateOf, AttemptOf

LEMMA EventIsThereAfterwards ==
  ASSUME NEW i \in InvitationId, NEW g \in 1 .. MaxGeneration
  PROVE  /\ g \notin DOMAIN event'[i] => StateOf(<<i, g>>)' = "ABSENT" /\ AttemptOf(<<i, g>>)' = 0
         /\ g \in DOMAIN event'[i] =>
              /\ AttemptOf(<<i, g>>)' = event'[i][g].attempt
              /\ IsClosed(event'[i][g]) => StateOf(<<i, g>>)' = event'[i][g].status
              /\ ~IsClosed(event'[i][g]) => StateOf(<<i, g>>)' = "OPEN"
BY DEF EventOf, StateOf, AttemptOf, IsClosed

LEMMA CommandsWrite ==
  ASSUME OutboxInv, OrgNext, UNCHANGED <<worker, mailed>>
  PROVE  Abstract!Write
<1> SUFFICES ASSUME NEW i \in InvitationId, NEW g \in 1 .. MaxGeneration
             PROVE  Moves(<<i, g>>)
  BY StatesAreWritten DEF EventOf
<1>1. EventsContinue(i)
  BY EveryEventContinues DEF OutboxInv, OutboxTypeOK
<1>2. CASE g \in DOMAIN event[i]
  <2>1. /\ g \in DOMAIN event'[i] /\ event'[i][g].attempt = event[i][g].attempt
        /\ \/ event'[i][g].status = event[i][g].status
           \/ /\ event[i][g].status \in {"PENDING", "PROCESSING"}
              /\ event'[i][g].status = "OBSOLETE"
    BY <1>1, <1>2 DEF EventsContinue
  <2>2. QED
    BY <1>2, <2>1, EventIsThere, EventIsThereAfterwards DEF Moves, IsClosed
<1>3. CASE g \notin DOMAIN event[i] /\ g \in DOMAIN event'[i]
  <2>1. event'[i][g].status = "PENDING" /\ event'[i][g].attempt = 0
    BY <1>1, <1>3 DEF EventsContinue, NewEvent
  <2>2. QED
    BY <1>3, <2>1, EventIsThere, EventIsThereAfterwards DEF Moves, IsClosed
<1>4. CASE g \notin DOMAIN event[i] /\ g \notin DOMAIN event'[i]
  BY <1>4, EventIsThere, EventIsThereAfterwards DEF Moves
<1>5. QED
  BY <1>2, <1>3, <1>4

LEMMA FinishWrites ==
  ASSUME OutboxInv, NEW w \in Worker, Finish(w)
  PROVE  Abstract!Write
<1>1. OutboxTypeOK /\ OrgTypeOK /\ WorkerAgrees(w)
  BY DEF OutboxInv, OutboxTypeOK
<1>2. PICK r, i, g, e : r = worker[w] /\ i = r.i /\ g = r.g /\ e = FinishedEvent(w)
  OBVIOUS
<1>3. /\ IsBusy(w) /\ i \in InvitationId /\ g \in DOMAIN event[i] /\ e \in EventRow
      /\ event' = [event EXCEPT ![i] = [event[i] EXCEPT ![g] = e]]
      /\ e.attempt = event[i][g].attempt
      /\ e.status = Outcome(w)
      /\ event[i][g] \in EventRow
      /\ Outcome(w) \in {"PROCESSED", "OBSOLETE", "DEAD_LETTER", "PENDING"}
  BY <1>1, <1>2, FinishEffect DEF Claimed
<1>4. /\ event'[i][g] = e
      /\ \A x \in InvitationId : DOMAIN event'[x] = DOMAIN event[x]
      /\ \A x \in InvitationId : \A y \in DOMAIN event[x] :
           <<x, y>> # <<i, g>> => event'[x][y] = event[x][y]
  BY <1>1, <1>3, OneEventChanges
<1>5. event[i][g].status = "PROCESSING"
  BY <1>2 DEF Finish, HoldsLock, Claimed
<1>6. Outcome(w) = "PROCESSED" => <<i, g>> \in mailed
  <2>1. Outcome(w) = "PROCESSED" => r.phase = "SENT"
    BY <1>2, <1>3 DEF Outcome, IsBusy
  <2>2. QED
    BY <1>1, <1>2, <1>3, <2>1 DEF WorkerAgrees
<1>7. Outcome(w) = "DEAD_LETTER" => event[i][g].attempt = MaxAttempts
  <2>1. Outcome(w) = "DEAD_LETTER" => r.attempt >= MaxAttempts
    BY <1>2, <1>3 DEF Outcome, IsBusy
  <2>2. r.attempt <= event[i][g].attempt
    BY <1>1, <1>2, <1>3 DEF WorkerAgrees
  <2>3. event[i][g].attempt \in 0 .. MaxAttempts
    BY <1>3 DEF EventRow
  <2>4. r.attempt \in 1 .. MaxAttempts
    BY <1>1, <1>2, <1>3, WorkerType DEF Busy
  <2>5. QED
    BY <2>1, <2>2, <2>3, <2>4, BoundAssumption
<1>8. ASSUME NEW x \in InvitationId, NEW y \in 1 .. MaxGeneration
      PROVE  Moves(<<x, y>>)
  <2>1. CASE x = i /\ y = g
    BY <1>3, <1>4, <1>5, <1>6, <1>7, <2>1, EventIsThere, EventIsThereAfterwards
    DEF Moves, IsClosed
  <2>2. CASE ~(x = i /\ y = g) /\ y \in DOMAIN event[x]
    <3>1. y \in DOMAIN event'[x] /\ event'[x][y] = event[x][y]
      BY <1>4, <2>2
    <3>2. QED
      BY <2>2, <3>1, EventIsThere, EventIsThereAfterwards DEF Moves
  <2>3. CASE y \notin DOMAIN event[x]
    BY <1>4, <2>3, EventIsThere, EventIsThereAfterwards DEF Moves
  <2>4. QED
    BY <2>1, <2>2, <2>3
<1>9. QED
  BY <1>8, StatesAreWritten DEF EventOf, Finish

LEMMA ClaimTakesUp ==
  ASSUME OutboxInv, NEW w \in Worker, NEW i \in InvitationId,
         NEW g \in 1 .. MaxGeneration, Claim(w, i, g)
  PROVE  Abstract!TakeUp(<<i, g>>) \/ UNCHANGED Abstract!outboxVars
<1>0. OutboxTypeOK
  BY DEF OutboxInv
<1>1. OrgTypeOK
  BY <1>0 DEF OutboxTypeOK
<1>2. Claims(w, i, g)
  BY <1>0, ClaimEffect
<1>3. /\ event'[i][g] = ClaimedEvent(w, i, g)
      /\ \A x \in InvitationId : DOMAIN event'[x] = DOMAIN event[x]
      /\ \A x \in InvitationId : \A y \in DOMAIN event[x] :
           <<x, y>> # <<i, g>> => event'[x][y] = event[x][y]
  <2>1. /\ g \in DOMAIN event[i] /\ ClaimedEvent(w, i, g) \in EventRow
        /\ event' = [event EXCEPT ![i] = [event[i] EXCEPT ![g] = ClaimedEvent(w, i, g)]]
    BY <1>2 DEF Claims
  <2>2. QED
    BY <1>1, <2>1, OneEventChanges
<1>4. /\ event[i][g].status \in {"PENDING", "PROCESSING"}
      /\ event'[i][g].status = "PROCESSING" /\ g \in DOMAIN event[i]
  BY <1>2, <1>3 DEF Claim, IsDue, Claims
<1>5. ASSUME NEW x \in InvitationId, NEW y \in 1 .. MaxGeneration
      PROVE  /\ StateOf(<<x, y>>)' = StateOf(<<x, y>>)
             /\ <<x, y>> # <<i, g>> => AttemptOf(<<x, y>>)' = AttemptOf(<<x, y>>)
  <2>1. CASE x = i /\ y = g
    BY <1>3, <1>4, <2>1, EventIsThere, EventIsThereAfterwards DEF IsClosed
  <2>2. CASE ~(x = i /\ y = g) /\ y \in DOMAIN event[x]
    <3>1. y \in DOMAIN event'[x] /\ event'[x][y] = event[x][y]
      BY <1>3, <2>2
    <3>2. QED
      BY <2>2, <3>1, EventIsThere, EventIsThereAfterwards
  <2>3. CASE ~(x = i /\ y = g) /\ y \notin DOMAIN event[x]
    BY <1>3, <2>3, EventIsThere, EventIsThereAfterwards
  <2>4. QED
    BY <2>1, <2>2, <2>3
<1>6. /\ AttemptOf(<<i, g>>) = event[i][g].attempt
      /\ AttemptOf(<<i, g>>)' = ClaimedEvent(w, i, g).attempt
      /\ StateOf(<<i, g>>) = "OPEN"
      /\ <<i, g>> \in EventOf
  BY <1>3, <1>4, EventIsThere, EventIsThereAfterwards DEF IsClosed
<1>7. /\ event[i][g].attempt \in 0 .. MaxAttempts
      /\ event[i][g].attempt < MaxAttempts =>
           ClaimedEvent(w, i, g).attempt = event[i][g].attempt + 1
      /\ event[i][g].attempt >= MaxAttempts =>
           ClaimedEvent(w, i, g).attempt = event[i][g].attempt
  <2>1. event[i][g].attempt \in 0 .. MaxAttempts
    BY <1>2 DEF Claims
  <2>2. ClaimedEvent(w, i, g).attempt = IF event[i][g].attempt < MaxAttempts
                                          THEN event[i][g].attempt + 1 ELSE MaxAttempts
    BY <1>2 DEF Claims
  <2>3. QED
    BY <2>1, <2>2, BoundAssumption
<1>8. AbstractState' = AbstractState /\ mailed' = mailed
  BY <1>5 DEF AbstractState, EventOf, Claim
<1>9. CASE event[i][g].attempt < MaxAttempts
  <2>1. AbstractAttempt' = [AbstractAttempt EXCEPT ![<<i, g>>] = AbstractAttempt[<<i, g>>] + 1]
    <3>1. AbstractAttempt[<<i, g>>] = event[i][g].attempt
      BY <1>6 DEF AbstractAttempt
    <3>2. ASSUME NEW e \in EventOf
          PROVE  AttemptOf(e)' = IF e = <<i, g>> THEN event[i][g].attempt + 1
                                                 ELSE AttemptOf(e)
      BY <1>5, <1>6, <1>7, <1>9 DEF EventOf
    <3>3. QED
      BY <3>1, <3>2 DEF AbstractAttempt
  <2>2. AbstractState[<<i, g>>] = "OPEN" /\ AbstractAttempt[<<i, g>>] < MaxAttempts
    BY <1>6, <1>9 DEF AbstractState, AbstractAttempt
  <2>3. QED
    BY <1>8, <2>1, <2>2 DEF Abstract!TakeUp, AbstractState, AbstractAttempt
<1>10. CASE ~(event[i][g].attempt < MaxAttempts)
  <2>1. AttemptOf(<<i, g>>)' = AttemptOf(<<i, g>>)
    BY <1>6, <1>7, <1>10, BoundAssumption
  <2>2. AbstractAttempt' = AbstractAttempt
    BY <1>5, <2>1 DEF AbstractAttempt, EventOf
  <2>3. QED
    BY <1>8, <2>2 DEF Abstract!outboxVars, AbstractState, AbstractAttempt
<1>11. QED
  BY <1>9, <1>10

LEMMA OtherwiseStays ==
  ASSUME event' = event
  PROVE  AbstractState' = AbstractState /\ AbstractAttempt' = AbstractAttempt
BY DEF AbstractState, AbstractAttempt, StateOf, AttemptOf, IsClosed

LEMMA DeliverMails ==
  ASSUME OutboxInv, NEW w \in Worker, Deliver(w)
  PROVE  \/ \E e \in EventOf : Abstract!Mail(e)
         \/ UNCHANGED Abstract!outboxVars
<1>1. AbstractState' = AbstractState /\ AbstractAttempt' = AbstractAttempt
  BY OtherwiseStays DEF Deliver
<1>2. CASE mailed' = mailed
  BY <1>1, <1>2 DEF Abstract!outboxVars, AbstractState, AbstractAttempt
<1>3. CASE mailed' = mailed \cup {<<worker[w].i, worker[w].g>>}
  <2>1. PICK i, g : i = worker[w].i /\ g = worker[w].g
    OBVIOUS
  <2>2. OutboxTypeOK /\ WorkerAgrees(w) /\ IsBusy(w)
    BY DEF OutboxInv, Deliver, IsBusy
  <2>3. i \in InvitationId /\ g \in 1 .. MaxGeneration /\ g \in DOMAIN event[i]
    BY <2>1, <2>2, WorkerType DEF WorkerAgrees
  <2>4. StateOf(<<i, g>>) # "ABSENT" /\ <<i, g>> \in EventOf
    BY <2>3, EventIsThere DEF IsClosed
  <2>5. AbstractState[<<i, g>>] # "ABSENT"
    BY <2>4 DEF AbstractState
  <2>6. Abstract!Mail(<<i, g>>)
    BY <1>1, <1>3, <2>1, <2>5 DEF Abstract!Mail, AbstractState, AbstractAttempt
  <2>7. QED
    BY <2>4, <2>6
<1>4. QED
  BY <1>2, <1>3 DEF Deliver

LEMMA StepsImplement ==
  OutboxInv /\ [Next]_vars => [Abstract!Next]_(Abstract!outboxVars)
<1> SUFFICES ASSUME OutboxInv, [Next]_vars
             PROVE  Abstract!Next \/ UNCHANGED Abstract!outboxVars
  OBVIOUS
<1>1. ASSUME event' = event, mailed' = mailed
      PROVE  UNCHANGED Abstract!outboxVars
  BY <1>1, OtherwiseStays DEF Abstract!outboxVars, AbstractState, AbstractAttempt
<1>2. CASE OrgNext /\ UNCHANGED <<worker, mailed>>
  BY <1>2, CommandsWrite DEF Abstract!Next
<1>3. ASSUME NEW w \in Worker, NEW i \in InvitationId, NEW g \in 1 .. MaxGeneration,
             Claim(w, i, g)
      PROVE  Abstract!Next \/ UNCHANGED Abstract!outboxVars
  <2>1. <<i, g>> \in EventOf
    BY DEF EventOf
  <2>2. QED
    BY <1>3, <2>1, ClaimTakesUp DEF Abstract!Next
<1>4. ASSUME NEW w \in Worker, Deliver(w)
      PROVE  Abstract!Next \/ UNCHANGED Abstract!outboxVars
  BY <1>4, DeliverMails DEF Abstract!Next
<1>5. ASSUME NEW w \in Worker, Finish(w)
      PROVE  Abstract!Next \/ UNCHANGED Abstract!outboxVars
  BY <1>5, FinishWrites DEF Abstract!Next
<1>6. ASSUME NEW w \in Worker,
             \/ \E read \in Read : ReadRow(w, read)
             \/ ReadFails(w) \/ FinishFails(w) \/ Crash(w) \/ Restart(w)
      PROVE  UNCHANGED Abstract!outboxVars
  BY <1>1, <1>6 DEF ReadRow, ReadFails, FinishFails, Crash, Restart
<1>7. CASE UNCHANGED vars
  BY <1>1, <1>7 DEF vars
<1>8. QED
  BY <1>2, <1>3, <1>4, <1>5, <1>6, <1>7 DEF Next, Process

\* Workers, leases, retries and crashes next to all commands do what Outbox promises:
\* an event is closed once, as PROCESSED only after its mail went out and as
\* DEAD_LETTER only after its last attempt.
THEOREM OutboxIsImplemented == Spec => ImplementsOutbox
<1>1. Init => Abstract!Init
  <2> SUFFICES ASSUME Init
               PROVE  Abstract!Init
    OBVIOUS
  <2>1. \A i \in InvitationId : DOMAIN event[i] = {}
    BY DEF Init, OrgInit
  <2>2. \A e \in EventOf : StateOf(e) = "ABSENT" /\ AttemptOf(e) = 0
    BY <2>1 DEF EventOf, StateOf, AttemptOf
  <2>3. mailed = {}
    BY DEF Init
  <2>4. QED
    BY <2>2, <2>3 DEF Abstract!Init
<1>2. QED
  BY <1>1, StepsImplement, OutboxInvariant, PTL DEF Spec, ImplementsOutbox, Abstract!Spec

-----------------------------------------------------------------------------
(* The organization next to the workers *)

\* A worker changes events only.
LEMMA WorkersChangeEventsOnly ==
  ASSUME [Next]_vars
  PROVE  \/ [OrgNext]_orgVars
         \/ UNCHANGED <<account, organization, member, invitation, token>>
BY DEF Next, Claim, Process, ReadRow, ReadFails, Deliver, Finish, FinishFails, Crash, Restart,
       vars, orgVars

\* What a worker may not disturb.
OrganizationInv == MembershipInv /\ AlwaysAnAdmin /\ OnePendingInvitation

LEMMA OrganizationStays ==
  OutboxInv /\ OrganizationInv /\ [Next]_vars => OrganizationInv'
<1> SUFFICES ASSUME OutboxInv, OrganizationInv, [Next]_vars
             PROVE  OrganizationInv'
  OBVIOUS
<1>1. OrgTypeOK
  BY DEF OutboxInv, OutboxTypeOK
<1>2. CASE [OrgNext]_orgVars
  BY <1>1, <1>2, MembershipStays, AdministratorStays, PendingStaysUnique DEF OrganizationInv
<1>3. CASE UNCHANGED <<account, organization, member, invitation, token>>
  <2>1. MembershipInv'
    BY <1>3 DEF OrganizationInv, MembershipInv, OneActiveMembership, MembersWereInvited
  <2>2. AlwaysAnAdmin'
    BY <1>3 DEF OrganizationInv, AlwaysAnAdmin, IsActiveAdmin
  <2>3. OnePendingInvitation'
    BY <1>3 DEF OrganizationInv, OnePendingInvitation, PendingFor
  <2>4. QED
    BY <2>1, <2>2, <2>3 DEF OrganizationInv
<1>4. QED
  BY <1>2, <1>3, WorkersChangeEventsOnly

LEMMA OrganizationInvariant == Spec => []OrganizationInv
<1>1. Init => OrganizationInv
  BY MembershipInitially, AdministratorInitially, PendingInitially DEF Init, OrganizationInv
<1>2. QED
  BY <1>1, OrganizationStays, OutboxInvariant, PTL DEF Spec

\* Next to any number of workers, their crashes and retries, the commands keep what
\* they promise without them: the composition implements the abstract membership.
THEOREM MembershipNextToWorkers == Spec => ImplementsMembership
<1>1. Init => OrgAbstract!Init
  BY MembershipInitiallyRefines DEF Init
<1>2. OutboxInv /\ OutboxInv' /\ OrganizationInv /\ [Next]_vars
        => [OrgAbstract!Next]_(OrgAbstract!membershipVars)
  <2> SUFFICES ASSUME OutboxInv, OutboxInv', OrganizationInv, [Next]_vars
               PROVE  OrgAbstract!Next \/ UNCHANGED OrgAbstract!membershipVars
    OBVIOUS
  <2>1. OrgTypeOK /\ OrgTypeOK' /\ OneActiveMembership /\ OnePendingInvitation
    BY DEF OutboxInv, OutboxTypeOK, OrganizationInv, MembershipInv
  <2>2. CASE [OrgNext]_orgVars
    BY <2>1, <2>2, MembershipStep
  <2>3. CASE UNCHANGED <<account, organization, member, invitation, token>>
    BY <2>3 DEF OrgAbstract!membershipVars, People, Members, Admins, IsActiveAdmin, Invited, Stands
  <2>4. QED
    BY <2>2, <2>3, WorkersChangeEventsOnly
<1>3. QED
  BY <1>1, <1>2, OrganizationInvariant, OutboxInvariant, PTL
  DEF Spec, ImplementsMembership, OrgAbstract!Spec
=============================================================================
