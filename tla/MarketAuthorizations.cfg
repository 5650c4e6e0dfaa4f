SPECIFICATION Spec
SYMMETRY NameSymmetry
CONSTANTS
  User = {u1, u2}
  Organization = {g1}
  AuthorizationId = {a1, a2, a3}
  ListingId = {l1}
  Location = {}
  Area = {}
  Instant = {}
  Horizon = 2
  MaxVersion = 0
INVARIANTS
  OwnerRemains
  OneActiveGrant
PROPERTIES
  AuthorizationsEndOnce
  ImplementsAuthority
