SPECIFICATION FairSpec
CONSTANTS
  Media = {m1, m2}
  Ttl = 1
  MaxDelay = 1
  Limit = 2
  MaxVersion = 3
INVARIANTS
  ConfirmedKeepObject
  CleanupIsScheduled
  PositionsDistinct
PROPERTIES
  ImplementsGallery
  HistoryIsKept
  UploadsEnd
