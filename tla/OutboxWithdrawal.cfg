SPECIFICATION Spec
CONSTANTS
  User = {u1}
  MemberId = {m1}
  InvitationId = {i1}
  Worker = {w1}
  InvitationTtl = 2
  LeaseTtl = 1
  Backoff = 0
  MaxAttempts = 2
  MaxGeneration = 2
INVARIANT PendingCanBeWithdrawn
