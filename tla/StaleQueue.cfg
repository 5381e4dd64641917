SPECIFICATION Spec
CONSTANTS
  None = None
  id1 = id1
  id2 = id2
  m1 = m1
  m2 = m2
  m3 = m3
  Sites = {1, 2}
  Devices = {1, 2}
  Vlans = {1}
  SiteIds <- MCSiteIds
  Models <- MCModels
  Vendor <- MCVendor
  Vids = {10, 11}
  Snapshots <- PairSnapshots
  Options <- WholeJobs
  InitialRows <- OnlyApart
  MaxRuns = 2
  MaxEdits = 0
INVARIANT
  DeletesOnlyWhatNeedsToBe
CHECK_DEADLOCK FALSE
