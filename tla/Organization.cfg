SPECIFICATION OrgSpec
CONSTANTS
  User = {u1, u2, u3}
  MemberId = {m1, m2, m3}
  InvitationId = {i1, i2}
  Worker = {w1}
  InvitationTtl = 2
  LeaseTtl = 1
  Backoff = 0
  MaxAttempts = 1
  MaxGeneration = 2
SYMMETRY Symmetry
CONSTRAINT OneOfEach
INVARIANTS
  AlwaysAnAdmin
  OneActiveMembership
  OnePendingInvitation
  AnswersAgree
  PendingCanBeAnswered
PROPERTIES
  EndedStaysEnded
  ImplementsMembership
  SuspensionFreezes
