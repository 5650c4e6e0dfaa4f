SPECIFICATION Spec
CONSTANTS
  Media = {m1}
  Ttl = 1
  MaxDelay = 1
  Limit = 1
  MaxVersion = 1
INVARIANT ObjectsBelongToRows
