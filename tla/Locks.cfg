SPECIFICATION FairSpec
CONSTANTS
  Request = {r1, r2}
  First = r1
  User = {1, 2}
  Organization = {1}
  Invitation = {1}
  Property = {1}
  Id = {1, 2}
  MaxAttempts = 2
CONSTRAINT Few
INVARIANTS
  NoDeadlock
PROPERTIES
  RequestsAreAnswered
