---------------------------- MODULE ProcessProofs ----------------------------
(***************************************************************************)
(* Proofs about the processes: what WorkerLoop, UploadAdmission and        *)
(* AuthRateLimit keep, each by an inductive invariant of its own.          *)
(***************************************************************************)
EXTENDS AuthRateLimit, WorkerLoop, UploadAdmission, FiniteSetTheorems, TLAPS

-----------------------------------------------------------------------------
(* WorkerLoop *)

\* The cycle in progress is the active task, and the shutdown waits for it.
LoopInv ==
  /\ LoopTypeOK
  /\ \A c \in Cycle : stage[c] # "IDLE" => activeTask = c
  /\ stopped => ~timer /\ activeTask \in {NoTask, taskToDrain}
  /\ shutdownTask = "DISCONNECTED" => \A c \in Cycle : stage[c] = "IDLE"

LEMMA LoopInitially == LoopInit => LoopInv
  BY NoTaskAssumption DEF LoopInit, LoopInv, LoopTypeOK, stopped

\* The promise of a cycle that runs is settled: the shutdown may go on.
LEMMA SettleKeeps ==
  ASSUME LoopInv, NEW c \in Cycle, stage[c] # "IDLE", Settle(c)
  PROVE  LoopInv'
<1>1. LoopTypeOK'
  BY DEF LoopInv, LoopTypeOK, Settle
<1>2. \A e \in Cycle : stage'[e] # "IDLE" => activeTask' = e
  BY DEF LoopInv, LoopTypeOK, Settle
<1>3. stopped' => ~timer' /\ activeTask' \in {NoTask, taskToDrain'}
  BY DEF LoopInv, LoopTypeOK, Settle, stopped
<1>4. shutdownTask' = "DISCONNECTED" => \A e \in Cycle : stage'[e] = "IDLE"
  BY DEF LoopInv, LoopTypeOK, Settle
<1> QED
  BY <1>1, <1>2, <1>3, <1>4 DEF LoopInv

LEMMA LoopStep == LoopInv /\ [LoopNext]_loopVars => LoopInv'
<1> SUFFICES ASSUME LoopInv, [LoopNext]_loopVars
             PROVE  LoopInv'
  OBVIOUS
<1> USE NoTaskAssumption
<1>1. ASSUME NEW c \in Cycle, PollNow(c)
      PROVE  LoopInv'
  BY <1>1 DEF LoopInv, LoopTypeOK, PollNow, stopped
<1>2. ASSUME NEW c \in Cycle, CleanUp(c)
      PROVE  LoopInv'
  BY <1>2 DEF LoopInv, LoopTypeOK, CleanUp, stopped
<1>3. ASSUME NEW c \in Cycle, FailToCleanUp(c)
      PROVE  LoopInv'
  BY <1>3, SettleKeeps DEF FailToCleanUp
<1>4. ASSUME NEW c \in Cycle, EndCycle(c)
      PROVE  LoopInv'
  BY <1>4, SettleKeeps DEF EndCycle
<1>5. CASE Start
  BY <1>5 DEF LoopInv, LoopTypeOK, Start, stopped
<1>6. CASE FailToStart
  BY <1>6 DEF LoopInv, LoopTypeOK, FailToStart, Shutdown, stopped
<1>7. CASE Signal
  BY <1>7 DEF LoopInv, LoopTypeOK, Signal, Shutdown, stopped
<1>8. CASE Disconnect
  BY <1>8 DEF LoopInv, LoopTypeOK, Disconnect, stopped
<1>9. CASE UNCHANGED loopVars
  BY <1>9 DEF LoopInv, LoopTypeOK, loopVars, stopped
<1> QED
  BY <1>1, <1>2, <1>3, <1>4, <1>5, <1>6, <1>7, <1>8, <1>9 DEF LoopNext

\* The variables of the worker's loop have their types.
THEOREM LoopTypeCorrect == LoopSpec => []LoopTypeOK
<1>1. LoopInv => LoopTypeOK
  BY DEF LoopInv
<1> QED
  BY <1>1, LoopInitially, LoopStep, PTL DEF LoopSpec

\* The worker disconnects after its last cycle, for every number of promises.
THEOREM StopsInOrderAlways == LoopSpec => []StopsInOrder
<1>1. LoopInv => StopsInOrder
  BY DEF LoopInv, StopsInOrder
<1> QED
  BY <1>1, LoopInitially, LoopStep, PTL DEF LoopSpec

-----------------------------------------------------------------------------
(* UploadAdmission *)

InProgress == {u \in Upload : phase[u] # "NONE"}

UploadInv == UploadTypeOK /\ SlotsMatchUploads

LEMMA InProgressIsFinite == IsFiniteSet(InProgress)
  BY UploadAssumption, FS_Subset DEF InProgress

LEMMA UploadInitially == UploadInit => UploadInv
<1> SUFFICES ASSUME UploadInit
             PROVE  UploadInv
  OBVIOUS
<1>1. UploadTypeOK
  BY DEF UploadInit, UploadTypeOK, Receipt
<1>2. InProgress = {}
  BY DEF UploadInit, InProgress
<1>3. Cardinality(InProgress) = 0
  BY <1>2, FS_EmptySet
<1> QED
  BY <1>1, <1>3, UploadAssumption DEF UploadInit, UploadInv, SlotsMatchUploads, InProgress

\* What was taken by a request that ends is given back once.
LEMMA FinishFreesOne ==
  ASSUME UploadInv, NEW u \in Upload, phase[u] # "NONE", Finish(u)
  PROVE  SlotsMatchUploads' /\ activeUploads' \in Nat
<1>1. InProgress' = InProgress \ {u}
  BY DEF UploadInv, UploadTypeOK, Finish, InProgress
<1>2. u \in InProgress
  BY DEF InProgress
<1>3. Cardinality(InProgress') = Cardinality(InProgress) - 1
  BY <1>1, <1>2, InProgressIsFinite, FS_RemoveElement
<1>4. Cardinality(InProgress) # 0
  BY <1>2, InProgressIsFinite, FS_EmptySet
<1>5. activeUploads = Cardinality(InProgress) /\ activeUploads \in Nat /\ activeUploads <= MaxUploads
  BY DEF UploadInv, UploadTypeOK, SlotsMatchUploads, InProgress
<1>6. activeUploads' = activeUploads - 1
  BY DEF Finish
<1>7. activeUploads' = Cardinality(InProgress') /\ activeUploads' <= MaxUploads /\ activeUploads' \in Nat
  BY <1>3, <1>4, <1>5, <1>6, UploadAssumption
<1> QED
  BY <1>7 DEF SlotsMatchUploads, InProgress

LEMMA ProceedKeeps ==
  ASSUME UploadInv, NEW u \in Upload, phase[u] # "NONE", NEW next, next # "NONE",
         Proceed(u, next)
  PROVE  SlotsMatchUploads' /\ activeUploads' \in Nat
<1>1. InProgress' = InProgress
  BY DEF UploadInv, UploadTypeOK, Proceed, InProgress
<1> QED
  BY <1>1 DEF UploadInv, UploadTypeOK, SlotsMatchUploads, Proceed, InProgress

LEMMA AdmitTakesOne ==
  ASSUME UploadInv, NEW u \in Upload, Admit(u)
  PROVE  SlotsMatchUploads' /\ activeUploads' \in Nat
<1>1. InProgress' = InProgress \cup {u}
  BY DEF UploadInv, UploadTypeOK, Admit, InProgress
<1>2. u \notin InProgress
  BY DEF Admit, InProgress
<1>3. Cardinality(InProgress') = Cardinality(InProgress) + 1
  BY <1>1, <1>2, InProgressIsFinite, FS_AddElement
<1>4. activeUploads = Cardinality(InProgress) /\ activeUploads \in Nat
  BY DEF UploadInv, UploadTypeOK, SlotsMatchUploads, InProgress
<1>5. activeUploads' = activeUploads + 1 /\ activeUploads < MaxUploads
  BY DEF Admit
<1>6. activeUploads' = Cardinality(InProgress') /\ activeUploads' <= MaxUploads /\ activeUploads' \in Nat
  BY <1>3, <1>4, <1>5, UploadAssumption
<1> QED
  BY <1>6 DEF SlotsMatchUploads, InProgress

LEMMA UploadStep == UploadInv /\ [UploadNext]_uploadVars => UploadInv'
<1> SUFFICES ASSUME UploadInv, [UploadNext]_uploadVars
             PROVE  UploadInv'
  OBVIOUS
<1> DEFINE Types(u) == /\ phase' \in [Upload -> {"NONE", "PREFLIGHT", "RECEIVE", "UPLOAD"}]
                       /\ connected' \in [Upload -> BOOLEAN]
                       /\ received' \in [Upload -> Receipt]
<1>1. ASSUME NEW u \in Upload, Admit(u)
      PROVE  UploadInv'
  <2>1. Types(u)
    BY <1>1 DEF UploadInv, UploadTypeOK, Admit, Receipt
  <2> QED
    BY <1>1, <2>1, AdmitTakesOne DEF UploadInv, UploadTypeOK
<1>2. ASSUME NEW u \in Upload, Preflight(u)
      PROVE  UploadInv'
  <2>1. Types(u)
    BY <1>2 DEF UploadInv, UploadTypeOK, Preflight, Finish, Proceed
  <2>2. SlotsMatchUploads' /\ activeUploads' \in Nat
    BY <1>2, FinishFreesOne, ProceedKeeps DEF Preflight
  <2> QED
    BY <2>1, <2>2 DEF UploadInv, UploadTypeOK
<1>3. ASSUME NEW u \in Upload, EndUpload(u)
      PROVE  UploadInv'
  <2>1. Types(u)
    BY <1>3 DEF UploadInv, UploadTypeOK, EndUpload, Finish
  <2>2. SlotsMatchUploads' /\ activeUploads' \in Nat
    BY <1>3, FinishFreesOne DEF EndUpload
  <2> QED
    BY <2>1, <2>2 DEF UploadInv, UploadTypeOK
<1>4. ASSUME NEW u \in Upload, NEW so_far \in Receipt, Data(u, so_far)
      PROVE  UploadInv'
  <2>1. Types(u)
    BY <1>4 DEF UploadInv, UploadTypeOK, Data, Finish, Proceed
  <2>2. SlotsMatchUploads' /\ activeUploads' \in Nat
    BY <1>4, FinishFreesOne, ProceedKeeps DEF Data
  <2> QED
    BY <2>1, <2>2 DEF UploadInv, UploadTypeOK
<1>5. ASSUME NEW u \in Upload, End(u)
      PROVE  UploadInv'
  <2>1. Types(u)
    BY <1>5 DEF UploadInv, UploadTypeOK, End, Finish, Proceed
  <2>2. SlotsMatchUploads' /\ activeUploads' \in Nat
    BY <1>5, FinishFreesOne, ProceedKeeps DEF End
  <2> QED
    BY <2>1, <2>2 DEF UploadInv, UploadTypeOK
<1>6. ASSUME NEW u \in Upload, Abort(u)
      PROVE  UploadInv'
  <2>1. Types(u)
    BY <1>6 DEF UploadInv, UploadTypeOK, Abort, Finish
  <2>2. CASE phase[u] = "RECEIVE"
    <3>1. SlotsMatchUploads' /\ activeUploads' \in Nat
      BY <1>6, <2>2, FinishFreesOne DEF Abort
    <3> QED
      BY <2>1, <3>1 DEF UploadInv, UploadTypeOK
  <2>3. CASE phase[u] # "RECEIVE"
    <3>1. UNCHANGED <<activeUploads, phase>>
      BY <1>6, <2>3 DEF Abort
    <3>2. SlotsMatchUploads'
      BY <3>1 DEF UploadInv, SlotsMatchUploads
    <3>3. activeUploads' \in Nat
      BY <3>1 DEF UploadInv, UploadTypeOK
    <3> QED
      BY <2>1, <3>2, <3>3 DEF UploadInv, UploadTypeOK
  <2> QED
    BY <2>2, <2>3
<1>7. ASSUME NEW u \in Upload, Timeout(u)
      PROVE  UploadInv'
  <2>1. Types(u)
    BY <1>7 DEF UploadInv, UploadTypeOK, Timeout, Finish
  <2>2. SlotsMatchUploads' /\ activeUploads' \in Nat
    BY <1>7, FinishFreesOne DEF Timeout
  <2> QED
    BY <2>1, <2>2 DEF UploadInv, UploadTypeOK
<1>8. CASE UNCHANGED uploadVars
  BY <1>8 DEF UploadInv, UploadTypeOK, SlotsMatchUploads, uploadVars
<1> QED
  BY <1>1, <1>2, <1>3, <1>4, <1>5, <1>6, <1>7, <1>8 DEF UploadNext

\* The counter counts the uploads in progress and keeps within the limit, for any
\* limit and any number of connections.
THEOREM SlotsMatchUploadsAlways == UploadSpec => []SlotsMatchUploads
<1>1. UploadInv => SlotsMatchUploads
  BY DEF UploadInv
<1> QED
  BY <1>1, UploadInitially, UploadStep, PTL DEF UploadSpec

-----------------------------------------------------------------------------
(* AuthRateLimit *)

\* A row is kept as long as its block lasts.
KeptWhileBlocked ==
  \A b \in Bucket : row[b] # NoRow => row[b].expires >= row[b].blocked

RateInv == RateTypeOK /\ KeptWhileBlocked

LEMMA RateInitially == RateInit => RateInv
<1> SUFFICES ASSUME RateInit
             PROVE  RateInv
  OBVIOUS
<1>1. now \in Moment
  BY PolicyAssumption DEF RateInit, Moment
<1>2. row \in [Bucket -> Row \cup {NoRow}] /\ KeptWhileBlocked
  BY DEF RateInit, KeptWhileBlocked
<1>3. admitted \in [Bucket -> [Moment -> Nat]]
  BY DEF RateInit
<1> QED
  BY <1>1, <1>2, <1>3 DEF RateInv, RateTypeOK

\* A counted attempt neither shortens a block nor lets the row go before its end.
LEMMA CountedIsKept ==
  ASSUME NEW r \in Row, NEW n \in Nat, r.expires >= r.blocked
  PROVE  /\ Counted(r, n) \in Row
         /\ Counted(r, n).expires >= Counted(r, n).blocked
         /\ Counted(r, n).blocked >= r.blocked
<1> DEFINE renewed == r.ends <= n
           count == IF renewed THEN 1 ELSE IF r.count <= Limit THEN r.count + 1 ELSE r.count
           block == IF count > Limit THEN n + Block ELSE 0
<1>1. /\ r.count \in 1 .. Limit + 1 /\ r.ends \in Nat /\ r.blocked \in Nat /\ r.expires \in Nat
  BY DEF Row
<1>2. count \in 1 .. Limit + 1
  BY <1>1, PolicyAssumption
<1>3. block \in Nat
  BY PolicyAssumption
<1>4. Counted(r, n) = [count |-> count,
                       ends |-> IF renewed THEN n + Window ELSE r.ends,
                       blocked |-> Later(r.blocked, block),
                       expires |-> Later(r.expires, Later(n + Window, block))]
  BY DEF Counted
<1> HIDE DEF count, block
<1>5. /\ Later(r.blocked, block) \in Nat
      /\ Later(r.expires, Later(n + Window, block)) \in Nat
      /\ Later(r.expires, Later(n + Window, block)) >= Later(r.blocked, block)
      /\ Later(r.blocked, block) >= r.blocked
  BY <1>1, <1>3, PolicyAssumption DEF Later
<1>6. (IF renewed THEN n + Window ELSE r.ends) \in Nat
  BY <1>1, PolicyAssumption
<1> QED
  BY <1>2, <1>4, <1>5, <1>6 DEF Row

LEMMA FirstIsKept ==
  ASSUME NEW n \in Nat
  PROVE  First(n) \in Row /\ First(n).expires >= First(n).blocked
  BY PolicyAssumption DEF First, Row

LEMMA NoRowIsNone == NoRow \notin Row
  BY DEF NoRow, Row

\* The row of a bucket after a request has counted into it.
LEMMA ConsumeRow ==
  ASSUME RateInv, NEW buckets \in SUBSET Bucket, NEW n \in Nat, Consume(buckets, n),
         NEW b \in Bucket
  PROVE  \/ row'[b] = row[b]
         \/ row'[b] \in Row /\ row'[b].expires >= row'[b].blocked
            /\ (IsThere(b) => row'[b].blocked >= row[b].blocked)
<1>1. CASE b \notin buckets
  BY <1>1 DEF Consume
<1>2. CASE b \in buckets /\ IsThere(b)
  <2>1. row'[b] = Counted(row[b], n)
    BY <1>2 DEF Consume
  <2>2. row[b] \in Row /\ row[b].expires >= row[b].blocked
    BY <1>2 DEF RateInv, RateTypeOK, KeptWhileBlocked, IsThere
  <2> QED
    BY <2>1, <2>2, CountedIsKept
<1>3. CASE b \in buckets /\ ~IsThere(b)
  <2>1. row'[b] = First(n)
    BY <1>3 DEF Consume
  <2> QED
    BY <1>3, <2>1, FirstIsKept
<1> QED
  BY <1>1, <1>2, <1>3

LEMMA RateStep == RateInv /\ [RateNext]_rateVars => RateInv'
<1> SUFFICES ASSUME RateInv, [RateNext]_rateVars
             PROVE  RateInv'
  OBVIOUS
<1>1. ASSUME NEW buckets \in SUBSET Bucket \ {{}}, NEW n \in Clock, Consume(buckets, n)
      PROVE  RateInv'
  <2>1. n \in Nat /\ buckets \in SUBSET Bucket /\ now \in Moment
    BY DEF Clock, Moment, RateInv, RateTypeOK
  <2>2. \A b \in Bucket : row'[b] \in Row \cup {NoRow}
                          /\ (row'[b] # NoRow => row'[b].expires >= row'[b].blocked)
    <3> TAKE b \in Bucket
    <3> QED
      BY <1>1, <2>1, ConsumeRow DEF RateInv, RateTypeOK, KeptWhileBlocked
  <2>3. row' \in [Bucket -> Row \cup {NoRow}]
    <3>1. row' = [b \in Bucket |-> row'[b]]
      BY <1>1 DEF Consume
    <3> QED
      BY <2>2, <3>1
  <2>4. \A b \in Bucket : admitted'[b] \in [Moment -> Nat]
    <3> TAKE b \in Bucket
    <3>1. admitted[b] \in [Moment -> Nat]
      BY DEF RateInv, RateTypeOK
    <3>2. \/ admitted'[b] = admitted[b]
          \/ admitted'[b] = [admitted[b] EXCEPT ![now] = @ + 1]
      BY <1>1 DEF Consume
    <3> QED
      BY <2>1, <3>1, <3>2
  <2>5. admitted' \in [Bucket -> [Moment -> Nat]]
    <3>1. admitted' = [b \in Bucket |-> admitted'[b]]
      BY <1>1 DEF Consume
    <3> QED
      BY <2>4, <3>1
  <2>6. now' \in Moment
    BY <1>1, <2>1 DEF Consume
  <2> QED
    BY <2>2, <2>3, <2>5, <2>6 DEF RateInv, RateTypeOK, KeptWhileBlocked
<1>2. ASSUME NEW buckets \in SUBSET Bucket \ {{}}, NEW n \in Clock, Cleanup(buckets, n)
      PROVE  RateInv'
  BY <1>2 DEF Cleanup, RateInv, RateTypeOK, KeptWhileBlocked
<1>3. CASE RateTick
  <2>1. now' \in Moment
    BY <1>3, PolicyAssumption DEF RateTick, Moment, RateInv, RateTypeOK
  <2> QED
    BY <1>3, <2>1 DEF RateTick, RateInv, RateTypeOK, KeptWhileBlocked
<1>4. CASE UNCHANGED rateVars
  BY <1>4 DEF rateVars, RateInv, RateTypeOK, KeptWhileBlocked
<1> QED
  BY <1>1, <1>2, <1>3, <1>4 DEF RateNext

\* The heart of BlocksAreRemembered: no step lets anybody through a bucket that is
\* blocked, shortens its block or deletes it.
LEMMA BlockedStaysBlocked ==
  ASSUME RateInv, RateNext, NEW b \in Bucket, IsBlocked(b)
  PROVE  /\ row'[b] # NoRow /\ row'[b].blocked >= row[b].blocked
         /\ admitted'[b] = admitted[b]
<1>1. /\ row[b] \in Row /\ row[b].expires >= row[b].blocked /\ row[b].blocked > now
      /\ now \in Nat /\ row[b].blocked \in Nat /\ row[b].expires \in Nat /\ IsThere(b)
  <2>1. row[b] \in Row /\ row[b].expires >= row[b].blocked /\ now \in Moment
    BY DEF IsBlocked, IsThere, RateInv, RateTypeOK, KeptWhileBlocked
  <2> QED
    BY <2>1 DEF Row, IsBlocked, Moment
<1>2. ASSUME NEW buckets \in SUBSET Bucket \ {{}}, NEW n \in Clock, Consume(buckets, n)
      PROVE  /\ row'[b] # NoRow /\ row'[b].blocked >= row[b].blocked
             /\ admitted'[b] = admitted[b]
  <2>1. n \in Nat /\ n <= now /\ buckets \in SUBSET Bucket
    BY DEF Clock, Moment
  <2>2. row'[b] # NoRow /\ row'[b].blocked >= row[b].blocked
    <3>1. CASE row'[b] = row[b]
      BY <1>1, <3>1 DEF IsThere
    <3>2. CASE row'[b] # row[b]
      BY <1>1, <1>2, <2>1, <3>2, ConsumeRow, NoRowIsNone
    <3> QED
      BY <3>1, <3>2
  <2>3. CASE b \notin buckets
    BY <1>2, <2>2, <2>3 DEF Consume
  <2>4. CASE b \in buckets
    <3>1. row'[b] = Counted(row[b], n)
      BY <1>1, <1>2, <2>4 DEF Consume
    <3>2. ~(Counted(row[b], n).blocked <= n)
      <4>1. Counted(row[b], n).blocked >= row[b].blocked /\ Counted(row[b], n) \in Row
        BY <1>1, <2>1, CountedIsKept
      <4>2. Counted(row[b], n).blocked \in Nat
        BY <4>1 DEF Row
      <4> QED
        BY <1>1, <2>1, <4>1, <4>2
    <3>3. admitted'[b] = admitted[b]
      BY <1>1, <1>2, <2>4, <3>2 DEF Consume
    <3> QED
      BY <2>2, <3>3
  <2> QED
    BY <2>3, <2>4
<1>3. ASSUME NEW buckets \in SUBSET Bucket \ {{}}, NEW n \in Clock, Cleanup(buckets, n)
      PROVE  /\ row'[b] # NoRow /\ row'[b].blocked >= row[b].blocked
             /\ admitted'[b] = admitted[b]
  <2>1. n \in Nat /\ n <= now
    BY DEF Clock, Moment
  <2>2. b \notin buckets
    BY <1>1, <1>3, <2>1 DEF Cleanup
  <2>3. row'[b] = row[b] /\ admitted' = admitted
    BY <1>3, <2>2 DEF Cleanup
  <2> QED
    BY <1>1, <2>3 DEF IsThere
<1>4. CASE RateTick
  BY <1>1, <1>4 DEF RateTick, IsThere
<1> QED
  BY <1>2, <1>3, <1>4 DEF RateNext

\* The variables of the rate limits have their types.
THEOREM RateTypeCorrect == RateSpec => []RateTypeOK
<1>1. RateInv => RateTypeOK
  BY DEF RateInv
<1> QED
  BY <1>1, RateInitially, RateStep, PTL DEF RateSpec

\* Blocks are remembered for every policy, delay and number of buckets.
THEOREM BlocksAreRememberedAlways == RateSpec => BlocksAreRemembered
<1>1. RateInv /\ [RateNext]_rateVars =>
        [\A b \in Bucket : IsBlocked(b) =>
           /\ row'[b] # NoRow /\ row'[b].blocked >= row[b].blocked
           /\ admitted'[b] = admitted[b]]_rateVars
  BY BlockedStaysBlocked
<1> QED
  BY <1>1, RateInitially, RateStep, PTL DEF RateSpec, BlocksAreRemembered

-----------------------------------------------------------------------------
(* How many attempts the windows let through *)

\* Windows begin at least this far apart.
Step == Window - MaxDelay
Since(from) == {t \in Moment : t >= from}
Admitted(b, from) == Cardinality(AdmittedAt(b, Since(from)))
Counts(b) == IF row[b].count <= Limit THEN row[b].count ELSE Limit

\* The window of a row began at moment t: what was let through later is in its count,
\* and what was let through less than a Step before is of this window or the last.
Began(b, t) ==
  /\ t <= now /\ t + Step <= row[b].ends
  /\ \A from \in Moment : from > t => Admitted(b, from) <= Counts(b)
  /\ \A from \in Moment : from > t - Step => Admitted(b, from) <= Limit + Counts(b)

\* No window has begun within a Step.
Quiet(b) == \A from \in Moment : from > now - Step => Admitted(b, from) <= Limit

WindowAgrees(b) ==
  /\ IsFiniteSet(AdmittedAt(b, Moment))
  /\ \A t \in Moment : t > now => admitted[b][t] = 0
  /\ IsThere(b) => row[b].expires >= row[b].ends /\ \E t \in Moment : Began(b, t)
  /\ ~IsThere(b) => Quiet(b)

IsLimited(b) == \A from \in Moment : Cardinality(AdmittedAt(b, Span(from))) <= 2 * Limit

LimitInv == RateInv /\ \A b \in Bucket : WindowAgrees(b) /\ IsLimited(b)

LEMMA CountedInRow ==
  ASSUME NEW r \in Row, NEW n \in Nat
  PROVE  Counted(r, n) \in Row
<1> DEFINE renewed == r.ends <= n
           count == IF renewed THEN 1 ELSE IF r.count <= Limit THEN r.count + 1 ELSE r.count
           block == IF count > Limit THEN n + Block ELSE 0
           ends == IF renewed THEN n + Window ELSE r.ends
<1>1. count \in 1 .. Limit + 1 /\ ends \in Nat
  BY PolicyAssumption DEF Row
<1>2. block \in Nat
  BY PolicyAssumption
<1>3. Counted(r, n) = [count |-> count, ends |-> ends, blocked |-> Later(r.blocked, block),
                       expires |-> Later(r.expires, Later(n + Window, block))]
  BY DEF Counted
<1> HIDE DEF count, block, ends
<1>4. /\ Later(r.blocked, block) \in Nat
      /\ Later(r.expires, Later(n + Window, block)) \in Nat
  BY <1>2, PolicyAssumption DEF Later, Row
<1>5. QED
  BY <1>1, <1>3, <1>4 DEF Row

LEMMA MomentsAreNumbers ==
  /\ Moment \subseteq Nat /\ Step \in Int
  /\ \A from \in Moment : Span(from) \subseteq Since(from) /\ Since(from) \subseteq Moment
BY PolicyAssumption DEF Moment, Span, Since, Step

LEMMA AdmittedMember ==
  ASSUME NEW b \in Bucket, NEW moments, NEW p
  PROVE  p \in AdmittedAt(b, moments) <=>
           \E t \in moments : \E k \in 1 .. admitted[b][t] : p = <<t, k>>
BY DEF AdmittedAt

LEMMA AdmittedIsCounted ==
  ASSUME NEW b \in Bucket, WindowAgrees(b), NEW moments \in SUBSET Moment
  PROVE  /\ IsFiniteSet(AdmittedAt(b, moments))
         /\ Cardinality(AdmittedAt(b, moments)) \in Nat
         /\ \A fewer \in SUBSET moments :
              Cardinality(AdmittedAt(b, fewer)) <= Cardinality(AdmittedAt(b, moments))
<1>1. \A S \in SUBSET Moment : \A T \in SUBSET S : AdmittedAt(b, T) \subseteq AdmittedAt(b, S)
  BY AdmittedMember
<1>2. \A S \in SUBSET Moment : IsFiniteSet(AdmittedAt(b, S))
  BY <1>1, FS_Subset DEF WindowAgrees
<1>3. QED
  BY <1>1, <1>2, FS_Subset, FS_CardinalityType

\* One more request is let through now.
LEMMA OneMoreAdmitted ==
  ASSUME RateTypeOK, NEW b \in Bucket, WindowAgrees(b), NEW moments \in SUBSET Moment,
         admitted'[b] = [admitted[b] EXCEPT ![now] = @ + 1]
  PROVE  /\ IsFiniteSet(AdmittedAt(b, moments)')
         /\ Cardinality(AdmittedAt(b, moments)')
              = Cardinality(AdmittedAt(b, moments)) + IF now \in moments THEN 1 ELSE 0
<1>1. admitted[b] \in [Moment -> Nat] /\ now \in Moment
  BY DEF RateTypeOK
<1> DEFINE new == <<now, admitted[b][now] + 1>>
<1>2. \A t \in Moment : admitted'[b][t] = IF t = now THEN admitted[b][now] + 1 ELSE admitted[b][t]
  BY <1>1
<1>3. CASE now \in moments
  <2>1. \A p : p \in AdmittedAt(b, moments)' <=>
                 \E t \in moments : \E k \in 1 .. admitted'[b][t] : p = <<t, k>>
    BY DEF AdmittedAt
  <2>2. \A p : p \in AdmittedAt(b, moments)' <=> p \in AdmittedAt(b, moments) \cup {new}
    <3> SUFFICES ASSUME NEW p
                 PROVE  p \in AdmittedAt(b, moments)' <=> p \in AdmittedAt(b, moments) \cup {new}
      OBVIOUS
    <3>1. admitted[b][now] \in Nat
      BY <1>1
    <3>2. ASSUME p \in AdmittedAt(b, moments)'
          PROVE  p \in AdmittedAt(b, moments) \cup {new}
      <4>1. PICK t \in moments : \E k \in 1 .. admitted'[b][t] : p = <<t, k>>
        BY <2>1, <3>2
      <4>2. PICK k \in 1 .. admitted'[b][t] : p = <<t, k>>
        BY <4>1
      <4>3. CASE t = now /\ k = admitted[b][now] + 1
        BY <4>2, <4>3
      <4>4. CASE ~(t = now /\ k = admitted[b][now] + 1)
        <5>1. k \in 1 .. admitted[b][t]
          BY <1>2, <3>1, <4>4
        <5>2. QED
          BY <4>2, <5>1, AdmittedMember
      <4>5. QED
        BY <4>3, <4>4
    <3>3. ASSUME p \in AdmittedAt(b, moments)
          PROVE  p \in AdmittedAt(b, moments)'
      <4>1. PICK t \in moments : \E k \in 1 .. admitted[b][t] : p = <<t, k>>
        BY <3>3, AdmittedMember
      <4>2. PICK k \in 1 .. admitted[b][t] : p = <<t, k>>
        BY <4>1
      <4>3. k \in 1 .. admitted'[b][t]
        BY <1>2, <3>1
      <4>4. QED
        BY <2>1, <4>2, <4>3
    <3>4. new \in AdmittedAt(b, moments)'
      <4>1. admitted[b][now] + 1 \in 1 .. admitted'[b][now]
        BY <1>1, <1>2, <3>1
      <4>2. QED
        BY <1>3, <2>1, <4>1
    <3>5. QED
      BY <3>2, <3>3, <3>4
  <2>3. AdmittedAt(b, moments)' = AdmittedAt(b, moments) \cup {new}
    BY <2>2
  <2>4. new \notin AdmittedAt(b, moments)
    <3>1. admitted[b][now] \in Nat
      BY <1>1
    <3>2. QED
      BY <3>1, AdmittedMember
  <2>5. IsFiniteSet(AdmittedAt(b, moments)) /\ Cardinality(AdmittedAt(b, moments)) \in Nat
    BY AdmittedIsCounted
  <2> HIDE DEF new
  <2>6. QED
    BY <1>3, <2>3, <2>4, <2>5, FS_AddElement
<1>4. CASE now \notin moments
  <2>1. \A t \in moments : admitted'[b][t] = admitted[b][t]
    BY <1>2, <1>4
  <2>2. AdmittedAt(b, moments)' = AdmittedAt(b, moments)
    BY <2>1 DEF AdmittedAt
  <2>3. IsFiniteSet(AdmittedAt(b, moments)) /\ Cardinality(AdmittedAt(b, moments)) \in Nat
    BY AdmittedIsCounted
  <2>4. QED
    BY <1>4, <2>2, <2>3
<1>5. QED
  BY <1>3, <1>4

LEMMA AdmittedNumber ==
  ASSUME NEW b \in Bucket, WindowAgrees(b), NEW from \in Moment
  PROVE  Admitted(b, from) \in Nat
BY MomentsAreNumbers, AdmittedIsCounted DEF Admitted

LEMMA NothingAhead ==
  ASSUME NEW b \in Bucket, \A t \in Moment : t > now => admitted[b][t] = 0,
         NEW from \in Moment, from > now, now \in Moment
  PROVE  Admitted(b, from) = 0
<1>1. \A t \in Since(from) : t \in Moment /\ t > now
  BY MomentsAreNumbers DEF Since
<1>2. \A t \in Since(from) : 1 .. admitted[b][t] = {}
  BY <1>1
<1>3. AdmittedAt(b, Since(from)) = {}
  BY <1>2 DEF AdmittedAt
<1>4. QED
  BY <1>3, FS_EmptySet DEF Admitted

\* A window that is over began more than a Step ago.
LEMMA OverIsQuiet ==
  ASSUME RateTypeOK, NEW b \in Bucket, WindowAgrees(b), IsThere(b), row[b].ends <= now
  PROVE  Quiet(b)
<1>1. PICK t \in Moment : Began(b, t)
  BY DEF WindowAgrees
<1>2. /\ now \in Nat /\ t \in Nat /\ Step \in Int /\ row[b].ends \in Nat
      /\ row[b].count \in 1 .. Limit + 1 /\ Limit \in Nat /\ Counts(b) <= Limit
  <2>1. row[b] \in Row
    BY DEF RateTypeOK, IsThere
  <2>2. row[b].count \in 1 .. Limit + 1 /\ row[b].ends \in Nat
    BY <2>1 DEF Row
  <2>3. Counts(b) <= Limit
    BY <2>2, PolicyAssumption DEF Counts
  <2>4. QED
    BY <2>2, <2>3, MomentsAreNumbers, PolicyAssumption DEF RateTypeOK
<1>3. t + Step <= row[b].ends
  BY <1>1 DEF Began
<1>4. ASSUME NEW from \in Moment, from > now - Step
      PROVE  Admitted(b, from) <= Limit
  <2>1. from > t
    BY <1>2, <1>3, <1>4, MomentsAreNumbers
  <2>2. Admitted(b, from) <= Counts(b)
    BY <1>1, <2>1 DEF Began
  <2>3. Admitted(b, from) \in Nat /\ Counts(b) \in Nat
    BY <1>2, AdmittedNumber DEF Counts
  <2>4. QED
    BY <1>2, <2>2, <2>3
<1>5. QED
  BY <1>4 DEF Quiet

\* What a request makes of the numbers, whether it is let through or not.
Tries(b) ==
  \/ admitted'[b] = admitted[b]
  \/ admitted'[b] = [admitted[b] EXCEPT ![now] = @ + 1]

LEMMA TriesEffect ==
  ASSUME RateTypeOK, NEW b \in Bucket, WindowAgrees(b), now' = now, Tries(b)
  PROVE  /\ IsFiniteSet(AdmittedAt(b, Moment)')
         /\ \A t \in Moment : t > now' => admitted'[b][t] = 0
         /\ \A from \in Moment :
              /\ Admitted(b, from) \in Nat /\ Admitted(b, from)' \in Nat
              /\ Admitted(b, from)' <= Admitted(b, from) + 1
              /\ admitted'[b] = admitted[b] => Admitted(b, from)' = Admitted(b, from)
              /\ from > now => Admitted(b, from)' = 0
<1>1. now \in Moment /\ admitted[b] \in [Moment -> Nat]
  BY DEF RateTypeOK
<1>2. \A t \in Moment : t > now' => admitted'[b][t] = 0
  <2>1. \A t \in Moment : t > now => admitted[b][t] = 0
    BY DEF WindowAgrees
  <2>2. \A t \in Moment : t > now => admitted'[b][t] = admitted[b][t]
    BY <1>1, MomentsAreNumbers DEF Tries
  <2>3. QED
    BY <2>1, <2>2
<1>3. CASE admitted'[b] = admitted[b]
  <2>1. \A moments : AdmittedAt(b, moments)' = AdmittedAt(b, moments)
    BY <1>3 DEF AdmittedAt
  <2>2. ASSUME NEW from \in Moment
        PROVE  Admitted(b, from)' = Admitted(b, from) /\ Admitted(b, from) \in Nat
    <3>1. AdmittedAt(b, Since(from))' = AdmittedAt(b, Since(from))
      BY <1>3 DEF AdmittedAt
    <3>2. QED
      BY <3>1, AdmittedNumber DEF Admitted
  <2>3. \A from \in Moment : from > now => Admitted(b, from) = 0
    BY <1>1, NothingAhead DEF WindowAgrees
  <2>4. IsFiniteSet(AdmittedAt(b, Moment)')
    <3>1. AdmittedAt(b, Moment)' = AdmittedAt(b, Moment)
      BY <1>3 DEF AdmittedAt
    <3>2. QED
      BY <3>1 DEF WindowAgrees
  <2>5. QED
    BY <1>2, <2>2, <2>3, <2>4
<1>4. CASE admitted'[b] = [admitted[b] EXCEPT ![now] = @ + 1]
  <2>1. IsFiniteSet(AdmittedAt(b, Moment)')
    BY <1>4, OneMoreAdmitted
  <2>2. ASSUME NEW from \in Moment
        PROVE  /\ Admitted(b, from) \in Nat
               /\ Admitted(b, from)' = Admitted(b, from) + IF from <= now THEN 1 ELSE 0
    <3>1. Cardinality(AdmittedAt(b, Since(from))') =
            Cardinality(AdmittedAt(b, Since(from))) + IF now \in Since(from) THEN 1 ELSE 0
      BY <1>4, MomentsAreNumbers, OneMoreAdmitted
    <3>2. now \in Since(from) <=> from <= now
      BY <1>1, MomentsAreNumbers DEF Since
    <3>3. QED
      BY <3>1, <3>2, AdmittedNumber DEF Admitted
  <2>3. \A from \in Moment : from > now => Admitted(b, from) = 0
    BY <1>1, NothingAhead DEF WindowAgrees
  <2>4. admitted'[b] # admitted[b]
    <3>1. admitted'[b][now] = admitted[b][now] + 1 /\ admitted[b][now] \in Nat
      BY <1>1, <1>4
    <3>2. QED
      BY <3>1
  <2>5. \A from \in Moment : Admitted(b, from)' \in Nat
    BY <2>2
  <2>6. \A from \in Moment : from > now => ~(from <= now)
    BY <1>1, MomentsAreNumbers
  <2>7. QED
    BY <1>2, <2>1, <2>2, <2>3, <2>4, <2>5, <2>6
<1>5. QED
  BY <1>3, <1>4 DEF Tries

\* An attempt within the window of its row.
LEMMA CountsOneMore ==
  ASSUME RateTypeOK, NEW b \in Bucket, WindowAgrees(b), IsThere(b), now' = now,
         NEW n \in Nat, row[b].ends > n, row'[b] = Counted(row[b], n), Tries(b),
         admitted'[b] # admitted[b] => row'[b].blocked <= n
  PROVE  WindowAgrees(b)'
<1>1. row[b] \in Row
  BY DEF RateTypeOK, IsThere
<1>2. /\ row[b].count \in 1 .. Limit + 1 /\ row[b].ends \in Nat
      /\ row[b].blocked \in Nat /\ row[b].expires \in Nat
      /\ Limit \in Nat /\ Window \in Nat /\ Block \in Nat \ {0} /\ Step \in Int /\ now \in Nat
  BY <1>1, MomentsAreNumbers, PolicyAssumption DEF Row, RateTypeOK
<1> DEFINE count == IF row[b].count <= Limit THEN row[b].count + 1 ELSE row[b].count
           block == IF count > Limit THEN n + Block ELSE 0
<1>3. /\ row'[b].count = count /\ row'[b].ends = row[b].ends
      /\ row'[b].blocked = Later(row[b].blocked, block)
      /\ row'[b].expires >= row[b].expires
  <2>1. ~(row[b].ends <= n)
    BY <1>2
  <2>2. Counted(row[b], n) =
          [count |-> count, ends |-> row[b].ends, blocked |-> Later(row[b].blocked, block),
           expires |-> Later(row[b].expires, Later(n + Window, block))]
    BY <2>1 DEF Counted
  <2>3. Later(row[b].expires, Later(n + Window, block)) >= row[b].expires
    BY <1>2 DEF Later
  <2>4. QED
    BY <2>2, <2>3
<1>4. PICK t \in Moment : Began(b, t)
  BY DEF WindowAgrees
<1>5. /\ Counts(b) \in Nat /\ Counts(b)' \in Nat /\ Counts(b)' >= Counts(b)
      /\ admitted'[b] # admitted[b] => Counts(b)' = Counts(b) + 1
  <2>1. ASSUME admitted'[b] # admitted[b]
        PROVE  count <= Limit
    <3>1. Later(row[b].blocked, block) <= n
      BY <1>3, <2>1
    <3>2. block <= n
      BY <1>2, <3>1 DEF Later
    <3>3. QED
      BY <1>2, <3>2
  <2>2. Counts(b) = IF row[b].count <= Limit THEN row[b].count ELSE Limit
    BY DEF Counts
  <2>3. Counts(b)' = IF count <= Limit THEN count ELSE Limit
    BY <1>3 DEF Counts
  <2>4. QED
    BY <1>2, <2>1, <2>2, <2>3
<1>6. /\ IsFiniteSet(AdmittedAt(b, Moment)')
      /\ \A u \in Moment : u > now' => admitted'[b][u] = 0
  BY TriesEffect
<1>7. ASSUME NEW from \in Moment
      PROVE  /\ Admitted(b, from) \in Nat /\ Admitted(b, from)' \in Nat
             /\ Admitted(b, from)' <= Admitted(b, from) + 1
             /\ admitted'[b] = admitted[b] => Admitted(b, from)' = Admitted(b, from)
  BY TriesEffect
<1> HIDE DEF count, block
<1>8. ASSUME NEW from \in Moment, from > t
      PROVE  Admitted(b, from)' <= Counts(b)'
  <2>1. Admitted(b, from) <= Counts(b)
    BY <1>4, <1>8 DEF Began
  <2>2. QED
    BY <1>5, <1>7, <2>1
<1>9. ASSUME NEW from \in Moment, from > t - Step
      PROVE  Admitted(b, from)' <= Limit + Counts(b)'
  <2>1. Admitted(b, from) <= Limit + Counts(b)
    BY <1>4, <1>9 DEF Began
  <2>2. QED
    BY <1>2, <1>5, <1>7, <2>1
<1>10. Began(b, t)'
  BY <1>3, <1>4, <1>8, <1>9 DEF Began
<1>11. row'[b].expires >= row'[b].ends
  <2>1. row[b].expires >= row[b].ends
    BY DEF WindowAgrees
  <2>2. row'[b] \in Row
    BY <1>1, CountedInRow
  <2>3. row'[b].expires \in Nat
    BY <2>2 DEF Row
  <2>4. QED
    BY <1>2, <1>3, <2>1, <2>3
<1>12. IsThere(b)'
  BY <1>1, CountedInRow, NoRowIsNone DEF IsThere
<1>13. QED
  BY <1>6, <1>10, <1>11, <1>12 DEF WindowAgrees

\* An attempt that begins a window.
LEMMA BeginsWindow ==
  ASSUME RateTypeOK, NEW b \in Bucket, WindowAgrees(b), now' = now,
         NEW n \in Clock, Tries(b),
         \/ ~IsThere(b) /\ row'[b] = First(n)
         \/ IsThere(b) /\ row[b].ends <= n /\ row'[b] = Counted(row[b], n)
  PROVE  WindowAgrees(b)'
<1>1. /\ n \in Nat /\ now \in Nat /\ n <= now /\ now - n <= MaxDelay
      /\ Limit \in Nat \ {0} /\ Window \in Nat /\ MaxDelay \in Nat /\ Block \in Nat
      /\ now \in Moment /\ Step = Window - MaxDelay
  BY MomentsAreNumbers, PolicyAssumption DEF Clock, RateTypeOK, Step
<1>2. Quiet(b)
  <2>1. ASSUME IsThere(b), row[b].ends <= n
        PROVE  Quiet(b)
    <3>1. row[b].ends \in Nat
      BY <2>1 DEF RateTypeOK, IsThere, Row
    <3>2. row[b].ends <= now
      BY <1>1, <2>1, <3>1
    <3>3. QED
      BY <2>1, <3>2, OverIsQuiet
  <2>2. QED
    BY <2>1 DEF WindowAgrees
<1>3. /\ row'[b].count = 1 /\ row'[b].ends = n + Window
      /\ row'[b].expires >= row'[b].ends /\ row'[b] \in Row
  <2>1. CASE row'[b] = First(n)
    BY <1>1, <2>1, FirstIsKept DEF First
  <2>2. CASE IsThere(b) /\ row[b].ends <= n /\ row'[b] = Counted(row[b], n)
    <3>1. row[b] \in Row
      BY <2>2 DEF RateTypeOK, IsThere
    <3>2. row[b].expires \in Nat
      BY <3>1 DEF Row
    <3> DEFINE block == IF 1 > Limit THEN n + Block ELSE 0
    <3>3. Counted(row[b], n) =
            [count |-> 1, ends |-> n + Window, blocked |-> Later(row[b].blocked, block),
             expires |-> Later(row[b].expires, Later(n + Window, block))]
      BY <2>2 DEF Counted
    <3>4. Later(row[b].expires, Later(n + Window, block)) >= n + Window
      BY <1>1, <3>2 DEF Later
    <3>5. Counted(row[b], n) \in Row
      BY <1>1, <3>1, CountedInRow
    <3> HIDE DEF block
    <3>6. QED
      BY <2>2, <3>3, <3>4, <3>5
  <2>3. QED
    BY <2>1, <2>2
<1>4. Counts(b)' = 1
  BY <1>1, <1>3 DEF Counts
<1>5. /\ IsFiniteSet(AdmittedAt(b, Moment)')
      /\ \A u \in Moment : u > now' => admitted'[b][u] = 0
  BY TriesEffect
<1>6. ASSUME NEW from \in Moment, from > now
      PROVE  Admitted(b, from)' <= Counts(b)'
  <2>1. Admitted(b, from)' = 0
    BY <1>6, TriesEffect
  <2>2. QED
    BY <1>4, <2>1
<1>7. ASSUME NEW from \in Moment, from > now - Step
      PROVE  Admitted(b, from)' <= Limit + Counts(b)'
  <2>1. Admitted(b, from) <= Limit
    BY <1>2, <1>7 DEF Quiet
  <2>2. /\ Admitted(b, from) \in Nat /\ Admitted(b, from)' \in Nat
        /\ Admitted(b, from)' <= Admitted(b, from) + 1
    BY TriesEffect
  <2>3. QED
    BY <1>1, <1>4, <2>1, <2>2
<1>8. Began(b, now)'
  <2>1. now <= now' /\ now + Step <= row'[b].ends
    BY <1>1, <1>3
  <2>2. QED
    BY <1>1, <1>6, <1>7, <2>1 DEF Began
<1>9. IsThere(b)'
  BY <1>3, NoRowIsNone DEF IsThere
<1>10. QED
  BY <1>1, <1>3, <1>5, <1>8, <1>9 DEF WindowAgrees

\* A span in which somebody was let through now began less than a Step ago.
LEMMA LimitHolds ==
  ASSUME RateTypeOK, NEW b \in Bucket, WindowAgrees(b), IsLimited(b), now' = now, Tries(b),
         IsThere(b)', row'[b] \in Row, WindowAgrees(b)'
  PROVE  IsLimited(b)'
<1> SUFFICES ASSUME NEW from \in Moment
             PROVE  Cardinality(AdmittedAt(b, Span(from))') <= 2 * Limit
  BY DEF IsLimited
<1>1. /\ now \in Nat /\ from \in Nat /\ Step = Window - MaxDelay /\ Step \in Int
      /\ Limit \in Nat /\ Window \in Nat /\ MaxDelay \in Nat /\ now \in Moment
  BY MomentsAreNumbers, PolicyAssumption DEF RateTypeOK, Step
<1>2. Cardinality(AdmittedAt(b, Span(from))) <= 2 * Limit
  BY DEF IsLimited
<1>3. Span(from) \subseteq Since(from) /\ Since(from) \subseteq Moment
  BY MomentsAreNumbers
<1>4. Cardinality(AdmittedAt(b, Span(from))) \in Nat
  BY <1>3, AdmittedIsCounted
<1>5. CASE admitted'[b] = admitted[b]
  <2>1. AdmittedAt(b, Span(from))' = AdmittedAt(b, Span(from))
    BY <1>5 DEF AdmittedAt
  <2>2. QED
    BY <1>2, <2>1
<1>6. CASE admitted'[b] = [admitted[b] EXCEPT ![now] = @ + 1] /\ now \notin Span(from)
  <2>1. Cardinality(AdmittedAt(b, Span(from))') = Cardinality(AdmittedAt(b, Span(from))) + 0
    BY <1>3, <1>6, OneMoreAdmitted
  <2>2. QED
    BY <1>2, <1>4, <2>1
<1>7. CASE now \in Span(from)
  <2>1. from > now - Step
    BY <1>1, <1>7 DEF Span
  <2>2. PICK t \in Moment : Began(b, t)'
    BY DEF WindowAgrees
  <2>3. Admitted(b, from)' <= Limit + Counts(b)'
    <3>1. t <= now /\ t \in Nat
      BY <2>2, MomentsAreNumbers DEF Began
    <3>2. from > t - Step
      BY <1>1, <2>1, <3>1
    <3>3. QED
      BY <2>2, <3>2 DEF Began
  <2>4. Counts(b)' <= Limit /\ Counts(b)' \in Nat
    <3>1. row'[b].count \in 1 .. Limit + 1
      BY DEF Row
    <3>2. QED
      BY <1>1, <3>1 DEF Counts
  <2>5. Admitted(b, from)' \in Nat
    BY TriesEffect
  <2>6. /\ IsFiniteSet(AdmittedAt(b, Since(from))')
        /\ AdmittedAt(b, Span(from))' \subseteq AdmittedAt(b, Since(from))'
    <3>1. AdmittedAt(b, Span(from))' \subseteq AdmittedAt(b, Since(from))'
      BY <1>3 DEF AdmittedAt
    <3>2. AdmittedAt(b, Since(from))' \subseteq AdmittedAt(b, Moment)'
      BY <1>3 DEF AdmittedAt
    <3>3. IsFiniteSet(AdmittedAt(b, Moment)')
      BY TriesEffect
    <3>4. QED
      BY <3>1, <3>2, <3>3, FS_Subset
  <2>7. /\ Cardinality(AdmittedAt(b, Span(from))') <= Admitted(b, from)'
        /\ Cardinality(AdmittedAt(b, Span(from))') \in Nat
    BY <2>6, FS_Subset, FS_CardinalityType DEF Admitted
  <2>8. QED
    BY <1>1, <2>3, <2>4, <2>5, <2>7
<1>8. QED
  BY <1>5, <1>6, <1>7 DEF Tries

LEMMA StillWithin ==
  ASSUME NEW from \in Nat, NEW before \in Nat, NEW after \in Nat, NEW step \in Int,
         after >= before, from > after - step
  PROVE  from > before - step
OBVIOUS

\* A bucket that a step leaves alone, while time may pass.
LEMMA LeftAlone ==
  ASSUME RateTypeOK, NEW b \in Bucket, WindowAgrees(b), IsLimited(b),
         row'[b] = row[b], admitted'[b] = admitted[b], now' \in Moment, now' >= now
  PROVE  WindowAgrees(b)' /\ IsLimited(b)'
<1>1. now \in Nat /\ now' \in Nat /\ Step \in Int /\ Moment \subseteq Nat
  BY MomentsAreNumbers DEF RateTypeOK
<1>2. \A moments \in SUBSET Moment : AdmittedAt(b, moments)' = AdmittedAt(b, moments)
  BY DEF AdmittedAt
<1>3. \A from \in Moment : /\ Admitted(b, from)' = Admitted(b, from)
                           /\ AdmittedAt(b, Span(from))' = AdmittedAt(b, Span(from))
  BY <1>2, MomentsAreNumbers DEF Admitted
<1>4. IsFiniteSet(AdmittedAt(b, Moment)')
  BY <1>2 DEF WindowAgrees
<1>5. \A t \in Moment : t > now' => admitted'[b][t] = 0
  BY <1>1 DEF WindowAgrees
<1>6. ASSUME NEW t \in Moment, Began(b, t)
      PROVE  Began(b, t)'
  <2>1. t <= now' /\ t + Step <= row'[b].ends
    <3>1. t \in Nat /\ t <= now /\ t + Step <= row[b].ends
      BY <1>1, <1>6 DEF Began
    <3>2. QED
      BY <1>1, <3>1
  <2>2. Counts(b)' = Counts(b)
    BY DEF Counts
  <2>3. QED
    BY <1>3, <1>6, <2>1, <2>2 DEF Began
<1>7. Quiet(b) => Quiet(b)'
  <2> SUFFICES ASSUME Quiet(b), NEW from \in Moment, from > now' - Step
               PROVE  Admitted(b, from)' <= Limit
    BY DEF Quiet
  <2>1. from \in Nat
    BY <1>1
  <2>2. from > now - Step
    BY <1>1, <2>1, StillWithin
  <2>3. QED
    BY <1>3, <2>2 DEF Quiet
<1>8. WindowAgrees(b)'
  BY <1>4, <1>5, <1>6, <1>7 DEF WindowAgrees, IsThere
<1>9. IsLimited(b)'
  BY <1>3 DEF IsLimited
<1>10. QED
  BY <1>8, <1>9

\* The cleanup takes a bucket only after its window.
LEMMA CleanedIsQuiet ==
  ASSUME RateTypeOK, NEW b \in Bucket, WindowAgrees(b), IsLimited(b), IsThere(b),
         NEW n \in Clock, row[b].expires < n, row'[b] = NoRow, admitted' = admitted, now' = now
  PROVE  WindowAgrees(b)' /\ IsLimited(b)'
<1>1. n \in Nat /\ n <= now /\ now \in Nat
  BY MomentsAreNumbers DEF Clock, RateTypeOK
<1>2. row[b].ends \in Nat /\ row[b].expires \in Nat
  BY DEF RateTypeOK, IsThere, Row
<1>3. row[b].ends <= now
  BY <1>1, <1>2 DEF WindowAgrees
<1>4. Quiet(b)
  BY <1>3, OverIsQuiet
<1>5. Quiet(b)' /\ IsLimited(b)'
  BY <1>4 DEF Quiet, Admitted, AdmittedAt, IsLimited
<1>6. /\ IsFiniteSet(AdmittedAt(b, Moment)')
      /\ \A t \in Moment : t > now' => admitted'[b][t] = 0
  BY DEF WindowAgrees, AdmittedAt
<1>7. QED
  BY <1>5, <1>6 DEF WindowAgrees, IsThere

LEMMA LimitInitially == RateInit => LimitInv
<1> SUFFICES ASSUME RateInit, NEW b \in Bucket
             PROVE  WindowAgrees(b) /\ IsLimited(b)
  BY RateInitially DEF LimitInv
<1>1. \A t \in Moment : admitted[b][t] = 0
  BY DEF RateInit
<1>2. ASSUME NEW moments \in SUBSET Moment
      PROVE  AdmittedAt(b, moments) = {}
  <2>1. \A t \in moments : 1 .. admitted[b][t] = {}
    BY <1>1
  <2>2. QED
    BY <2>1 DEF AdmittedAt
<1>3. \A moments \in SUBSET Moment : /\ IsFiniteSet(AdmittedAt(b, moments))
                                     /\ Cardinality(AdmittedAt(b, moments)) = 0
  BY <1>2, FS_EmptySet
<1>4. \A from \in Moment : Admitted(b, from) <= Limit
  BY <1>3, MomentsAreNumbers, PolicyAssumption DEF Admitted
<1>5. IsLimited(b)
  <2>1. \A from \in Moment : Span(from) \in SUBSET Moment
    BY DEF Span
  <2>2. QED
    BY <1>3, <2>1, PolicyAssumption DEF IsLimited
<1>6. ~IsThere(b)
  BY DEF RateInit, IsThere
<1>7. QED
  BY <1>1, <1>3, <1>4, <1>5, <1>6 DEF WindowAgrees, Quiet

LEMMA LimitStep == LimitInv /\ [RateNext]_rateVars => LimitInv'
<1> SUFFICES ASSUME LimitInv, [RateNext]_rateVars, NEW b \in Bucket
             PROVE  WindowAgrees(b)' /\ IsLimited(b)'
  BY RateStep DEF LimitInv
<1>1. RateTypeOK /\ RateTypeOK' /\ WindowAgrees(b) /\ IsLimited(b) /\ now \in Moment /\ now \in Nat
  BY RateStep, MomentsAreNumbers DEF LimitInv, RateInv, RateTypeOK
<1>2. ASSUME NEW buckets \in SUBSET Bucket \ {{}}, NEW n \in Clock, Consume(buckets, n),
             b \in buckets
      PROVE  WindowAgrees(b)' /\ IsLimited(b)'
  <2>1. n \in Nat /\ now' = now
    BY <1>2, MomentsAreNumbers DEF Clock, Consume
  <2>2. row'[b] = IF IsThere(b) THEN Counted(row[b], n) ELSE First(n)
    BY <1>2 DEF Consume
  <2>3. Tries(b) /\ (admitted'[b] # admitted[b] => row'[b].blocked <= n)
    BY <1>2, <2>2 DEF Consume, Tries
  <2>4. row'[b] \in Row
    BY <1>1, <2>1, <2>2, CountedInRow, FirstIsKept DEF RateTypeOK, IsThere
  <2>5. IsThere(b) => row[b].ends \in Nat
    BY <1>1 DEF RateTypeOK, IsThere, Row
  <2>6. WindowAgrees(b)'
    <3>1. CASE IsThere(b) /\ row[b].ends > n
      BY <1>1, <2>1, <2>2, <2>3, <3>1, CountsOneMore
    <3>2. CASE ~IsThere(b) \/ row[b].ends <= n
      BY <1>1, <2>1, <2>2, <2>3, <3>2, BeginsWindow
    <3>3. QED
      BY <2>1, <2>5, <3>1, <3>2
  <2>7. IsThere(b)'
    BY <2>4, NoRowIsNone DEF IsThere
  <2>8. QED
    BY <1>1, <2>1, <2>3, <2>4, <2>6, <2>7, LimitHolds
<1>3. ASSUME NEW buckets \in SUBSET Bucket \ {{}}, NEW n \in Clock, Cleanup(buckets, n),
             b \in buckets
      PROVE  WindowAgrees(b)' /\ IsLimited(b)'
  <2>1. /\ IsThere(b) /\ row[b].expires < n /\ row'[b] = NoRow
        /\ admitted' = admitted /\ now' = now
    BY <1>3 DEF Cleanup
  <2>2. QED
    BY <1>1, <2>1, CleanedIsQuiet
<1>4. ASSUME NEW buckets \in SUBSET Bucket \ {{}}, NEW n \in Clock,
             Consume(buckets, n) \/ Cleanup(buckets, n), b \notin buckets
      PROVE  WindowAgrees(b)' /\ IsLimited(b)'
  <2>1. row'[b] = row[b] /\ admitted'[b] = admitted[b] /\ now' = now
    BY <1>4 DEF Consume, Cleanup
  <2>2. QED
    BY <1>1, <2>1, LeftAlone
<1>5. CASE RateTick \/ UNCHANGED rateVars
  <2>1. row' = row /\ admitted' = admitted /\ now' \in Moment /\ now' >= now
    BY <1>1, <1>5 DEF RateTick, rateVars, RateTypeOK
  <2>2. QED
    BY <1>1, <2>1, LeftAlone
<1>6. QED
  BY <1>2, <1>3, <1>4, <1>5 DEF RateNext

\* In any span a Step long a subject gets no more than two windows' worth of attempts
\* through, for every policy, delay of the clocks and number of buckets.
THEOREM AttemptsAreAlwaysLimited == RateSpec => []AttemptsAreLimited
<1>1. LimitInv => AttemptsAreLimited
  BY DEF LimitInv, IsLimited, AttemptsAreLimited
<1>2. QED
  BY <1>1, LimitInitially, LimitStep, PTL DEF RateSpec
=============================================================================
