SPECIFICATION Spec
SYMMETRY NameSymmetry
CONSTANTS
  User = {u1, u2}
  Organization = {}
  AuthorizationId = {a1, a2}
  ListingId = {l1}
  Location = {p1, p2}
  Area = {1, 2}
  Instant = {1, 2}
  Horizon = 0
  MaxVersion = 3
INVARIANTS
  MarketTypeOK
  VersionsNameLocations
