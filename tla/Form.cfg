SPECIFICATION Spec
CONSTANTS
  None = None
  s1 = s1
  s2 = s2
  s3 = s3
  Snapshots <- MCSnapshots
  Locked <- MCLocked
  Listings <- MCListings
  MaxJobs = 2
  MaxChanges = 2
INVARIANTS FormOffersLoaded SyncsChosenSnapshot
PROPERTIES JobsEnd
CHECK_DEADLOCK FALSE
