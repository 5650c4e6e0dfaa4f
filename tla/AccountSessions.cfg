SPECIFICATION Spec
CONSTANTS
  User = {u1}
  SessionId = {s1, s2}
  TokenId = {t1, t2}
  IdleTtl = 2
  AbsoluteTtl = 3
  WriteInterval = 1
  VerificationTtl = 2
  ResetTtl = 1
  MaxDelay = 0
  MaxGeneration = 3
  MaxTime = 2
SYMMETRY Symmetry
INVARIANTS
  SessionsFollowPassword
  NoLiveSessionIsStale
  SessionTimesOrdered
