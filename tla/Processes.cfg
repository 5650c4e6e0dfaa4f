SPECIFICATION Spec
CONSTANTS
  Bucket = {b1, b2}
  Limit = 1
  Window = 3
  Block = 5
  MaxDelay = 1
  MaxTime = 6
  Cycle = {c1, c2}
  NoTask = NoTask
  Upload = {u1, u2, u3}
  MaxUploads = 2
INVARIANTS
  AttemptsAreLimited
  StopsInOrder
  SlotsMatchUploads
PROPERTIES
  BlocksAreRemembered
  InvitationsAreReached
  SlotsAreFreed
CHECK_DEADLOCK FALSE
