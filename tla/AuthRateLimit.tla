----------------------------- MODULE AuthRateLimit -----------------------------
(***************************************************************************)
(* The limits on attempts (auth/rate-limit.service.ts): buckets that count *)
(* the requests of a subject in windows of time and block it once there    *)
(* are too many, and the cleanup that deletes buckets out of use.          *)
(*                                                                         *)
(* Every call reads the clock of its process before it comes to the        *)
(* database, where it may wait for others: it uses a moment that is up to  *)
(* MaxDelay in the past.  A transaction keeps the rows it has written      *)
(* locked to its end and the cleanup skips locked rows, so that each is    *)
(* one step.  A bucket is one subject under one version of the pepper; a   *)
(* request counts into several.  A transaction that fails counts nothing   *)
(* and admits nobody.                                                      *)
(***************************************************************************)
EXTENDS Integers, FiniteSets

CONSTANTS
  Bucket,
  Limit, Window, Block,  \* of the policy
  MaxDelay,              \* between reading the clock and the write
  MaxTime                \* bound of the clock

ASSUME PolicyAssumption ==
  /\ Limit \in Nat \ {0} /\ Window \in Nat \ {0} /\ Block \in Nat \ {0}
  /\ MaxDelay \in Nat /\ MaxTime \in Nat

VARIABLES
  now,
  row,      \* of every bucket
  admitted  \* how many requests were let through, by bucket and moment

rateVars == <<now, row, admitted>>

NoRow == [count |-> 0, ends |-> 0, blocked |-> 0, expires |-> 0]
Moment == 0 .. MaxTime
\* Above Limit + 1 all counts act alike.  No block is a block until 0.
Row == [count: 1 .. Limit + 1, ends: Nat, blocked: Nat, expires: Nat]

RateTypeOK ==
  /\ now \in Moment
  /\ row \in [Bucket -> Row \cup {NoRow}]
  /\ admitted \in [Bucket -> [Moment -> Nat]]

RateInit ==
  /\ now = 0
  /\ row = [b \in Bucket |-> NoRow]
  /\ admitted = [b \in Bucket |-> [t \in Moment |-> 0]]

IsThere(b) == row[b] # NoRow
Later(x, y) == IF x >= y THEN x ELSE y

\* The moments a call may take for the present.
Clock == {n \in Moment : n <= now /\ now - n <= MaxDelay}

-----------------------------------------------------------------------------
(* consume *)

\* Mistaken variant: the bucket is kept no longer than its window.
CountedKeepingWindow(r, n) ==
  LET renewed == r.ends <= n
      count == IF renewed THEN 1 ELSE IF r.count <= Limit THEN r.count + 1 ELSE r.count
      block == IF count > Limit THEN n + Block ELSE 0
  IN [count |-> count,
      ends |-> IF renewed THEN n + Window ELSE r.ends,
      blocked |-> Later(r.blocked, block),
      expires |-> Later(r.expires, n + Window)]

\* Mistaken variant: the limit is asked of the count before this attempt.
CountedTooLate(r, n) ==
  LET renewed == r.ends <= n
      block == IF ~renewed /\ r.count > Limit THEN n + Block ELSE 0
  IN [count |-> IF renewed THEN 1 ELSE IF r.count <= Limit THEN r.count + 1 ELSE r.count,
      ends |-> IF renewed THEN n + Window ELSE r.ends,
      blocked |-> Later(r.blocked, block),
      expires |-> Later(r.expires, Later(n + Window, block))]

\* The row after one more attempt: ON CONFLICT DO UPDATE.
Counted(r, n) ==
  LET renewed == r.ends <= n
      count == IF renewed THEN 1 ELSE IF r.count <= Limit THEN r.count + 1 ELSE r.count
      block == IF count > Limit THEN n + Block ELSE 0
  IN [count |-> count,
      ends |-> IF renewed THEN n + Window ELSE r.ends,
      blocked |-> Later(r.blocked, block),
      expires |-> Later(r.expires, Later(n + Window, block))]

\* The row of the first attempt: VALUES.
First(n) == [count |-> 1, ends |-> n + Window, blocked |-> 0, expires |-> n + Window]

\* A request counts into all its buckets, also when one of them refuses it.
Consume(buckets, n) ==
  LET after(b) == IF IsThere(b) THEN Counted(row[b], n) ELSE First(n)
      passes == \A b \in buckets : after(b).blocked <= n
  IN
  /\ row' = [b \in Bucket |-> IF b \in buckets THEN after(b) ELSE row[b]]
  /\ admitted' = [b \in Bucket |-> IF b \in buckets /\ passes
                                     THEN [admitted[b] EXCEPT ![now] = @ + 1]
                                     ELSE admitted[b]]
  /\ UNCHANGED now

\* cleanupExpiredBuckets: some of the rows, for a batch is limited.
Cleanup(buckets, n) ==
  /\ \A b \in buckets : IsThere(b) /\ row[b].expires < n
  /\ row' = [b \in Bucket |-> IF b \in buckets THEN NoRow ELSE row[b]]
  /\ UNCHANGED <<now, admitted>>

RateTick ==
  /\ now < MaxTime
  /\ now' = now + 1
  /\ UNCHANGED <<row, admitted>>

RateNext ==
  \/ \E buckets \in SUBSET Bucket \ {{}}, n \in Clock :
       Consume(buckets, n) \/ Cleanup(buckets, n)
  \/ RateTick

RateSpec == RateInit /\ [][RateNext]_rateVars

-----------------------------------------------------------------------------
(* Properties *)

\* The requests let through at some moments: the k-th of each moment.
AdmittedAt(b, moments) == UNION {{t} \X (1 .. admitted[b][t]) : t \in moments}

\* A subject gets no more than two windows' worth of attempts through in any
\* time as long as a window, less what a delayed call may be behind: windows do
\* not overlap, no attempt is counted in none, and a bucket is not deleted while
\* its window lasts.
Span(from) == {t \in Moment : from <= t /\ t < from + Window - MaxDelay}
AttemptsAreLimited ==
  \A b \in Bucket, from \in Moment : Cardinality(AdmittedAt(b, Span(from))) <= 2 * Limit

\* While a block lasts nobody is let through, it is not shortened by a call that
\* read its clock earlier, and the cleanup does not forget it.
IsBlocked(b) == IsThere(b) /\ row[b].blocked > now
BlocksAreRemembered ==
  [][\A b \in Bucket : IsBlocked(b) =>
       /\ row'[b] # NoRow /\ row'[b].blocked >= row[b].blocked
       /\ admitted'[b] = admitted[b]]_rateVars
=============================================================================
