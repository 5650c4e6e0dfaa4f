SPECIFICATION Spec
CONSTANTS
  User = {u1}
  MemberId = {m1}
  InvitationId = {i1}
  Worker = {w1, w2}
  InvitationTtl = 1
  LeaseTtl = 1
  Backoff = 0
  MaxAttempts = 2
  MaxGeneration = 1
SYMMETRY Symmetry
CONSTRAINT WorkersOnly
PROPERTIES
  LeasesAreRespected
  ImplementsOutbox
