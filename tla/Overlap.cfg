SPECIFICATION FairSpec
CONSTANTS
  None = None
  w1 = w1
  w2 = w2
  Workers <- MCWorkers
  Devices = {1, 2}
  Sites = {1, 2}
  TypeOf <- MCTypeOf
  MakerOf <- MCMakerOf
  Data = {1, 2}
  Snapshots <- MCSnapshots
  Options <- MCOptions
  InitialRows <- MCInitialRows
  MaxJobs = 3
INVARIANTS TwinsNeedOverlap
PROPERTIES TwinsStay NoJobWaitsForEver
CHECK_DEADLOCK FALSE
