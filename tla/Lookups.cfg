SPECIFICATION Spec
CONSTANTS
  Devices = {1, 2}
  Vendors = {1, 2}
  Models <- MCModels
  Slugify <- MCSlugify
  Inventories <- MCInventories
  DEFAULT_DEVICE_ROLE = "Network Device"
  OtherRoles = {"Core"}
  MaxEdits = 2
INVARIANTS TypeOK StampShows 
 
