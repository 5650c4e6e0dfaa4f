----------------------------- MODULE MCLockOrder -----------------------------
(* An instance of LockOrder for TLC. *)
EXTENDS LockOrder, FiniteSets

CONSTANT First  \* one of the requests

ASSUME FirstAssumption == First \in Request

\* If a request takes a single row of one of these kinds, it is one of these rows.
TakesOne(r, kinds, groups, ids) ==
  \A j \in DOMAIN plan[r] :
    plan[r][j].kind \in kinds /\ Cardinality(plan[r][j].keys) = 1
      => plan[r][j].keys \subseteq groups \X ids

\* The first request is by user 1, the other one by the same person or by the other,
\* and each may lock both.  Two rows of a kind are there for the statements that
\* take several: a command that takes a single session, member, listing or event of
\* a photograph takes the first.  Buckets and events of invitations are never locked
\* in an order of theirs, so the first request may have row 1.  The other request is
\* the one that is tried again.
Few ==
  /\ TakesOne(First, {"User"}, {0}, {1})
  /\ TakesOne(First, {"Session"}, {1}, {1})
  /\ TakesOne(First, {"InvitationEvent", "EmailBucket", "AddressBucket"}, Nat, {1})
  /\ \A r \in Request :
       TakesOne(r, {"Session", "OrganizationMember", "Listing", "MediaEvent"}, Nat, {1})
  /\ attempt[First] <= 1
=============================================================================
