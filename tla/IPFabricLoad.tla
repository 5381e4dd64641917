---------------------------- MODULE IPFabricLoad ----------------------------
(***************************************************************************)
(* IPFabricDiffSync.load (diffsync/adapter_ipfabric.py): the store of the  *)
(* source adapter, made from four tables of IP Fabric, location by         *)
(* location. What it leaves is what DiffSync calls a snapshot, and what    *)
(* SSoTSync assumes of its snapshots.                                      *)
(*                                                                         *)
(* The name of a VLAN is a rank, like all names; LongNames are those with  *)
(* more characters than VLAN.name has room for. Of a serial number only    *)
(* its length is kept.                                                     *)
(***************************************************************************)
EXTENDS DiffSync, IPFabricInterfaces, TLC

CONSTANTS
  Tables,                    \* the tables IP Fabric may return
  LongNames,                 \* names longer than name_max_length
  FallbackName(_, _),        \* the name of a VLAN without one: site and vid
  DefaultModel,              \* "Default-" and the vendor
  device_serial_max_length

VARIABLES
  tables,      \* what the REST calls returned
  pc,          \* the table that is read, or "loaded"
  next,        \* the position of the row that is read next
  locations,   \* names of the loaded locations, in the order of the store
  visit,       \* the location that is visited
  store,       \* the models of locations, devices and VLANs
  interfaces,  \* the models of interfaces
  serials      \* serial_number of the devices that are loaded
vars == <<tables, pc, next, locations, visit, store, interfaces, serials>>

Init ==
  /\ tables \in Tables /\ pc = "sites" /\ next = 1 /\ locations = <<>> /\ visit = 0
  /\ store = {} /\ interfaces = {} /\ serials = <<>>

-----------------------------------------------------------------------------
(* Rows to models                                                          *)

ToLocation(row) == [kind |-> "location", name |-> row.siteName, site |-> row.siteName,
                    data |-> row.id]
ToVlan(row) == [kind |-> "vlan", site |-> row.siteName, data |-> row.vlanId,
                name |-> IF row.vlanName = None THEN FallbackName(row.siteName, row.vlanId)
                         ELSE row.vlanName]
ToDevice(row) == [kind |-> "device", name |-> row.hostname, site |-> row.siteName,
                  data |-> IF row.model = None THEN DefaultModel[row.vendor] ELSE row.model]

(* Mutant: 4094 is taken for a reserved number.                            *)
IsLegalBelow4094(row) == row.vlanId \in 1..4093 /\ ToVlan(row).name \notin LongNames
(* Other VLANs are logged and not synced.                                  *)
IsLegal(row) == row.vlanId \in 1..4094 /\ ToVlan(row).name \notin LongNames

(* The serial number that is recorded: 0 for none.                         *)
SerialNumber(row) == IF row.sn < device_serial_max_length THEN row.sn ELSE 0

(* A table is a sequence of rows. Rows of sites have an id, VLANs a number *)
(* or none, and what is loaded of them has a name and a number that the    *)
(* constants of Nautobot list.                                             *)
IsTable(t) == Len(t) \in Nat /\ DOMAIN t = 1..Len(t)
ASSUME NumbersAssumption == None \notin Nat \cup SiteIds
ASSUME TablesAssumption ==
  \A T \in Tables :
    /\ IsTable(T.sites) /\ IsTable(T.vlans) /\ IsTable(T.devices) /\ IsTable(T.interfaces)
    /\ \A i \in DOMAIN T.sites : T.sites[i].siteName \in Sites /\ T.sites[i].id \in SiteIds
    /\ \A i \in DOMAIN T.vlans :
         LET vlan == T.vlans[i]
         IN  /\ vlan.vlanId \in Nat \cup {None}
             /\ IsLegal(vlan) => ToVlan(vlan).name \in Vlans /\ vlan.vlanId \in Vids
    /\ \A i \in DOMAIN T.devices :
         LET device == T.devices[i]
         IN  device.hostname \in Devices /\ device.sn \in Nat /\ ToDevice(device).data \in Models

(* Mutant: a model is known by its whole place in the tree.                *)
AddByKey(S, x) == IF Key(x) \in Keys(S) THEN S ELSE S \cup {x}
(* DiffSync.add; ObjectAlreadyExists is logged and forgotten.              *)
Add(S, x) == IF Stored(S, x) THEN S ELSE S \cup {x}

-----------------------------------------------------------------------------
(* One row of the table of sites.                                          *)
LoadSite ==
  /\ pc = "sites" /\ next \in DOMAIN tables.sites /\ next' = next + 1
  /\ LET x == ToLocation(tables.sites[next])
     IN  /\ store' = Add(store, x)
         /\ locations' = IF Add(store, x) = store THEN locations ELSE Append(locations, x.name)
  /\ UNCHANGED <<tables, pc, visit, interfaces, serials>>

(* The locations of the store, one after the other: VLANs, then devices.   *)
VisitNext ==
  /\ \/ pc = "sites" /\ next \notin DOMAIN tables.sites
     \/ pc = "devices" /\ next \notin DOMAIN tables.devices
  /\ visit' = visit + 1 /\ next' = 1
  /\ pc' = IF visit' \in DOMAIN locations THEN "vlans" ELSE "loaded"
  /\ UNCHANGED <<tables, locations, store, interfaces, serials>>

(* One row of a table, read for the location that is visited.              *)
LoadVlan ==
  /\ pc = "vlans" /\ next \in DOMAIN tables.vlans /\ next' = next + 1
  /\ LET vlan == tables.vlans[next]
     IN  store' = IF vlan.siteName = locations[visit] /\ IsLegal(vlan)
                  THEN Add(store, ToVlan(vlan)) ELSE store
  /\ UNCHANGED <<tables, pc, locations, visit, interfaces, serials>>

VlansLoaded ==
  /\ pc = "vlans" /\ next \notin DOMAIN tables.vlans /\ pc' = "devices" /\ next' = 1
  /\ UNCHANGED <<tables, locations, visit, store, interfaces, serials>>

(* A device that is new to the store brings its interfaces.                *)
LoadDevice ==
  /\ pc = "devices" /\ next \in DOMAIN tables.devices /\ next' = next + 1
  /\ LET device == tables.devices[next]
         added  == Add(store, ToDevice(device))
     IN  IF device.siteName # locations[visit] \/ added = store
         THEN UNCHANGED <<store, interfaces, serials>>
         ELSE /\ store' = added
              /\ interfaces' = interfaces \cup
                   LoadDeviceInterfaces(device.hostname, tables.interfaces, device.loginIp)
              /\ serials' = serials @@ (device.hostname :> SerialNumber(device))
  /\ UNCHANGED <<tables, pc, locations, visit>>

Next == LoadSite \/ VisitNext \/ LoadVlan \/ VlansLoaded \/ LoadDevice
Spec == Init /\ [][Next]_vars

-----------------------------------------------------------------------------
(* Properties                                                              *)

(* Whatever the tables repeat, leave out or contradict, load leaves what   *)
(* the sync takes for a snapshot: one model per unique id, each under a    *)
(* location of the store.                                                  *)
LoadIsSnapshot == pc = "loaded" => IsSnapshot(store)

(* Which row wins is decided by the order of the tables alone: for a VLAN  *)
(* the first row of its name in its site with a number VLAN.vid may have   *)
(* and a name VLAN.name has room for, for a device the first row of its    *)
(* name in the site that comes first in the table of sites.                *)
Known(row)    == \E n \in DOMAIN locations : locations[n] = row.siteName
Storable(row) == /\ row.vlanId \notin {None, 0} /\ row.vlanId < 4095
                 /\ ToVlan(row).name \notin LongNames
Expected ==
  LET V == {i \in DOMAIN tables.vlans : Known(tables.vlans[i]) /\ Storable(tables.vlans[i])}
      D == {i \in DOMAIN tables.devices : Known(tables.devices[i])}
      vlan(i)   == ToVlan(tables.vlans[i])
      device(i) == ToDevice(tables.devices[i])
      place(i)  == CHOOSE n \in DOMAIN locations : locations[n] = device(i).site
      sooner(j, i) == place(j) < place(i) \/ (place(j) = place(i) /\ j < i)
  IN  {vlan(i) : i \in {i \in V : \A j \in V : j < i => Uid(vlan(j)) # Uid(vlan(i))}} \cup
      {device(i) : i \in {i \in D : \A j \in D : sooner(j, i) => Uid(device(j)) # Uid(device(i))}}
FirstRowWins == pc = "loaded" => {x \in store : x.kind # "location"} = Expected

(* Every device that is loaded has an interface marked as primary, a real  *)
(* one or the pseudo one, when IP Fabric knows its login address, lists no *)
(* interface name of a device twice and none that is the pseudo one's.     *)
OneRowPerInterface ==
  /\ \A i, j \in DOMAIN tables.interfaces :
       /\ tables.interfaces[i].hostname = tables.interfaces[j].hostname
       /\ tables.interfaces[i].intName = tables.interfaces[j].intName => i = j
  /\ \A i \in DOMAIN tables.interfaces : tables.interfaces[i].intName # PseudoName
HasLogin(x) == \A i \in DOMAIN tables.devices :
                 tables.devices[i].hostname = x.name => tables.devices[i].loginIp # None
LoginInterfaceLoaded ==
  pc = "loaded" /\ OneRowPerInterface =>
    \A x \in store : x.kind = "device" /\ HasLogin(x) =>
      \E m \in interfaces : m.device = x.name /\ m.primary
=============================================================================
