SPECIFICATION FairSpec
CONSTANTS
  User = {u1}
  MemberId = {m1}
  InvitationId = {i1}
  Worker = {w1}
  InvitationTtl = 2
  LeaseTtl = 1
  Backoff = 1
  MaxAttempts = 2
  MaxGeneration = 2
CONSTRAINT WorkersOnly
INVARIANTS
  MailIsForUsableTokens
PROPERTIES
  EventsAreClosed
