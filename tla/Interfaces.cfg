SPECIFICATION Spec
CONSTANTS
  None = None
  PseudoName = 9
  PseudoText = "nat"
  DefaultMtu = 1500
  Devices = {1, 2}
  Ifaces = {1, 2, 9}
  Hosts = {1, 2, 3, 6}
  Family <- MCFamily
  Texts = {"", "up", "old", "nat"}
  Mtus = {1500, 9000}
  Snapshots <- MCSnapshots
  Options <- HalfOptions
  InitialDbs <- MCInitialDbs
  FirstId = 7
  MaxRuns = 2
  MaxEdits = 1
INVARIANTS
  TypeOK
  CommittedPrimaryIsOwn
  SafeRunKeepsInterfaces
  OnlyTheNewAddress
  SecondRunSetsPrimary
  SecondRunSettles
PROPERTIES
  Implements
CHECK_DEADLOCK FALSE
