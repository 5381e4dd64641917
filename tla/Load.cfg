SPECIFICATION Spec
CONSTANTS
  None = None
  id1 = id1
  id2 = id2
  m1 = m1
  m2 = m2
  mtu = mtu
  dscr = dscr
  Sites = {1, 2}
  Devices = {1, 2}
  Vlans = {1, 2, 3, 9}
  SiteIds <- MCSiteIds
  Models <- MCModels
  Vendor <- MCVendor
  Vids <- MCVids
  PseudoName = 7
  PseudoText = dscr
  DefaultMtu = mtu
  LongNames = {9}
  FallbackName <- MCFallbackName
  DefaultModel <- MCDefaultModel
  device_serial_max_length = 50
  Tables <- MCTables
INVARIANTS
  LoadIsSnapshot
  FirstRowWins
  LoginInterfaceLoaded
CHECK_DEADLOCK FALSE
