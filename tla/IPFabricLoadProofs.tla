------------------------- MODULE IPFabricLoadProofs -------------------------
(***************************************************************************)
(* Theorems about IPFabricDiffSync.load, for tables of any length: which   *)
(* row of the tables each model of the store is made of.                   *)
(***************************************************************************)
EXTENDS IPFabricLoad, TLAPS

-----------------------------------------------------------------------------
(* The invariant                                                           *)

Types ==
  /\ tables \in Tables /\ pc \in {"sites", "vlans", "devices", "loaded"}
  /\ next \in Nat \ {0} /\ visit \in Nat /\ locations \in Seq(Sites)
  /\ \A m, n \in DOMAIN locations : locations[m] = locations[n] => m = n
  /\ pc = "sites" => visit = 0
  /\ pc \in {"vlans", "devices"} => visit \in DOMAIN locations
  /\ pc = "loaded" => visit > Len(locations)

(* A location of the store is in the list, and the other way round.        *)
StoreOK ==
  /\ IsSnapshot(store)
  /\ \A x \in store : \E n \in DOMAIN locations : locations[n] = x.site
  /\ \A n \in DOMAIN locations : \E x \in store : x.kind = "location" /\ x.name = locations[n]
  /\ pc = "sites" => \A x \in store : x.kind = "location"

Vlan(i)   == ToVlan(tables.vlans[i])
Device(i) == ToDevice(tables.devices[i])

(* The rows that have been read so far, each for the location it names.    *)
VlanSeen ==
  {i \in DOMAIN tables.vlans :
     /\ IsLegal(tables.vlans[i])
     /\ \E n \in DOMAIN locations : /\ locations[n] = tables.vlans[i].siteName
                                    /\ n < visit \/ (n = visit /\ (pc = "vlans" => i < next))}
DeviceSeen ==
  {i \in DOMAIN tables.devices :
     \E n \in DOMAIN locations : /\ locations[n] = tables.devices[i].siteName
                                 /\ n < visit \/ (n = visit /\ pc = "devices" /\ i < next)}

(* Of two rows of devices, which one is read before the other.             *)
Before(j, i) ==
  \E m, n \in DOMAIN locations :
    /\ locations[m] = tables.devices[j].siteName /\ locations[n] = tables.devices[i].siteName
    /\ m < n \/ (m = n /\ j < i)

(* What is in the store comes from the first row of its unique id; nothing *)
(* that was read is missing.                                               *)
FromFirst ==
  /\ \A x \in store : x.kind = "vlan" =>
       \E i \in VlanSeen : x = Vlan(i) /\ \A j \in VlanSeen : j < i => Uid(Vlan(j)) # Uid(x)
  /\ \A x \in store : x.kind = "device" =>
       \E i \in DeviceSeen : x = Device(i) /\ \A j \in DeviceSeen : Before(j, i) => Uid(Device(j)) # Uid(x)
NoneMissing == /\ \A i \in VlanSeen : Stored(store, Vlan(i))
               /\ \A i \in DeviceSeen : Stored(store, Device(i))

InterfacesOf(i) == LoadDeviceInterfaces(tables.devices[i].hostname, tables.interfaces,
                                        tables.devices[i].loginIp)
WithInterfaces ==
  \A x \in store : x.kind = "device" =>
    \E i \in DOMAIN tables.devices : x = Device(i) /\ InterfacesOf(i) \subseteq interfaces

Inv == Types /\ StoreOK /\ FromFirst /\ NoneMissing /\ WithInterfaces

-----------------------------------------------------------------------------
(* Models and their unique ids                                             *)

LEMMA UidTells ==
  ASSUME NEW x, NEW y, Uid(x) = Uid(y)
  PROVE  x.kind = y.kind /\ x.name = y.name /\ (x.kind = "vlan" => x.site = y.site)
<1>1. x.kind = Uid(x)[1] /\ x.name = Uid(x)[2]
  BY DEF Uid
<1>2. y.kind = Uid(y)[1] /\ y.name = Uid(y)[2]
  BY DEF Uid
<1>3. x.kind = "vlan" => x.site = Uid(x)[3]
  BY DEF Uid
<1>4. y.kind = "vlan" => y.site = Uid(y)[3]
  BY DEF Uid
<1> QED BY <1>1, <1>2, <1>3, <1>4

LEMMA Added ==
  ASSUME NEW S, NEW x
  PROVE  /\ Add(S, x) = S <=> Stored(S, x)
         /\ Add(S, x) # S => Add(S, x) = S \cup {x}
         /\ Stored(Add(S, x), x)
         /\ \A y : Stored(S, y) => Stored(Add(S, x), y)
BY DEF Add, Stored

LEMMA SnapshotGrows ==
  ASSUME NEW S, IsSnapshot(S), NEW x \in Item, ~ Stored(S, x),
         x.kind = "vlan" => x.data \in Vids, x.kind = "location" => x.data # None,
         x.kind # "location" => \E l \in S : l.kind = "location" /\ l.name = x.site
  PROVE  IsSnapshot(S \cup {x})
<1> DEFINE L(s) == <<"location", s, s>>
<1>1. S \cup {x} \subseteq Item /\ Numbered(S \cup {x})
  BY DEF IsSnapshot, Numbered
<1>2. ASSUME NEW y \in S PROVE Uid(y) # Uid(x)
  BY DEF Stored
<1>3. ASSUME NEW y \in S \cup {x} PROVE L(y.site) \in Keys(S \cup {x})
  <2>1. CASE y \in S
    BY <2>1 DEF IsSnapshot, Keys
  <2>2. CASE y = x /\ x.kind = "location"
    <3>1. L(x.site) = Key(x)
      BY <2>2 DEF Item, Located, Key
    <3> QED BY <2>2, <3>1 DEF Keys
  <2>3. CASE y = x /\ x.kind # "location"
    <3>1. PICK l \in S : l.kind = "location" /\ l.name = x.site
      BY <2>3
    <3>2. L(x.site) = Key(l)
      BY <3>1 DEF IsSnapshot, Item, Located, Key
    <3> QED BY <2>3, <3>2 DEF Keys
  <2> QED BY <2>1, <2>2, <2>3
<1> QED BY <1>1, <1>2, <1>3 DEF IsSnapshot

(* The rows that the tables hold.                                          *)
LEMMA TablesHold ==
  ASSUME tables \in Tables
  PROVE  /\ IsTable(tables.sites) /\ IsTable(tables.vlans)
         /\ IsTable(tables.devices) /\ IsTable(tables.interfaces)
         /\ \A i \in DOMAIN tables.sites : /\ tables.sites[i].siteName \in Sites
                                          /\ tables.sites[i].id \in SiteIds
         /\ \A i \in DOMAIN tables.vlans :
              /\ tables.vlans[i].vlanId \in Nat \cup {None}
              /\ IsLegal(tables.vlans[i]) => /\ Vlan(i).name \in Vlans
                                            /\ tables.vlans[i].vlanId \in Vids
         /\ \A i \in DOMAIN tables.devices :
              tables.devices[i].hostname \in Devices /\ Device(i).data \in Models
BY TablesAssumption DEF Vlan, Device

LEMMA RowsAreItems ==
  ASSUME tables \in Tables
  PROVE  /\ \A i \in DOMAIN tables.vlans :
              tables.vlans[i].siteName \in Sites /\ IsLegal(tables.vlans[i]) =>
                Vlan(i) \in Item /\ Vlan(i).data \in Vids
         /\ \A i \in DOMAIN tables.devices :
              tables.devices[i].siteName \in Sites => Device(i) \in Item
         /\ \A i \in DOMAIN tables.sites :
              ToLocation(tables.sites[i]) \in Item /\ ToLocation(tables.sites[i]).data # None
         /\ \A i : Vlan(i).kind = "vlan" /\ Vlan(i).site = tables.vlans[i].siteName
         /\ \A i : Device(i).kind = "device" /\ Device(i).site = tables.devices[i].siteName
<1>1. \A i : Vlan(i).kind = "vlan" /\ Vlan(i).site = tables.vlans[i].siteName
  BY DEF Vlan, ToVlan
<1>2. \A i : Device(i).kind = "device" /\ Device(i).site = tables.devices[i].siteName
  BY DEF Device, ToDevice
<1>3. ASSUME NEW i \in DOMAIN tables.vlans, tables.vlans[i].siteName \in Sites,
             IsLegal(tables.vlans[i])
      PROVE  Vlan(i) \in Item /\ Vlan(i).data \in Vids
  <2>1. Vlan(i).name \in Vlans /\ tables.vlans[i].vlanId \in Vids
    BY <1>3, TablesHold
  <2>2. Vlan(i) = [kind |-> "vlan", site |-> tables.vlans[i].siteName,
                   data |-> tables.vlans[i].vlanId, name |-> Vlan(i).name]
    BY DEF Vlan, ToVlan
  <2> QED BY <1>3, <2>1, <2>2 DEF Item, Kinds, Names, Data, Located
<1>4. ASSUME NEW i \in DOMAIN tables.devices, tables.devices[i].siteName \in Sites
      PROVE  Device(i) \in Item
  <2>1. tables.devices[i].hostname \in Devices /\ Device(i).data \in Models
    BY TablesHold
  <2>2. Device(i) = [kind |-> "device", name |-> tables.devices[i].hostname,
                     site |-> tables.devices[i].siteName, data |-> Device(i).data]
    BY DEF Device, ToDevice
  <2> QED BY <1>4, <2>1, <2>2 DEF Item, Kinds, Names, Data, Located
<1>5. ASSUME NEW i \in DOMAIN tables.sites
      PROVE  ToLocation(tables.sites[i]) \in Item /\ ToLocation(tables.sites[i]).data # None
  <2>1. tables.sites[i].siteName \in Sites /\ tables.sites[i].id \in SiteIds
    BY TablesHold
  <2> QED BY <2>1, NumbersAssumption DEF ToLocation, Item, Kinds, Names, Data, Located
<1> QED BY <1>1, <1>2, <1>3, <1>4, <1>5

-----------------------------------------------------------------------------
(* One row of the table of sites                                           *)

LEMMA NothingSeen == Types /\ visit = 0 => VlanSeen = {} /\ DeviceSeen = {}
BY DEF Types, VlanSeen, DeviceSeen

LEMMA SiteKeeps == Inv /\ LoadSite => Inv'
<1> SUFFICES ASSUME Inv, LoadSite PROVE Inv'
  OBVIOUS
<1> DEFINE x == ToLocation(tables.sites[next])
<1>1. /\ pc = "sites" /\ next \in DOMAIN tables.sites /\ next' = next + 1
      /\ tables \in Tables /\ visit = 0
      /\ UNCHANGED <<tables, pc, visit, interfaces, serials>>
      /\ store' = Add(store, x)
      /\ locations' = IF Add(store, x) = store THEN locations ELSE Append(locations, x.name)
  BY DEF LoadSite, Inv, Types
<1>2. x \in Item /\ x.data # None /\ x.kind = "location" /\ x.name = x.site /\ x.name \in Sites
  BY <1>1, RowsAreItems, TablesHold DEF ToLocation
<1>3. /\ Types' /\ StoreOK'
      /\ \A y \in store' : y.kind = "location"
  <2>1. CASE Add(store, x) = store
    BY <1>1, <2>1 DEF Inv, Types, StoreOK
  <2>2. CASE Add(store, x) # store
    <3>1. ~ Stored(store, x) /\ store' = store \cup {x} /\ locations' = Append(locations, x.name)
      BY <1>1, <2>2, Added
    <3>2. \A n \in DOMAIN locations : locations[n] # x.name
      <4> SUFFICES ASSUME NEW n \in DOMAIN locations, locations[n] = x.name PROVE FALSE
        OBVIOUS
      <4>1. PICK y \in store : y.kind = "location" /\ y.name = x.name
        BY DEF Inv, StoreOK
      <4> QED BY <1>2, <3>1, <4>1 DEF Stored, Uid
    <3>3. /\ DOMAIN locations' = DOMAIN locations \cup {Len(locations) + 1}
          /\ \A n \in DOMAIN locations : locations'[n] = locations[n]
          /\ locations'[Len(locations) + 1] = x.name /\ locations' \in Seq(Sites)
      BY <1>2, <3>1 DEF Inv, Types
    <3>4. Types'
      BY <1>1, <3>2, <3>3 DEF Inv, Types
    <3>5. IsSnapshot(store')
      BY <1>2, <3>1, SnapshotGrows DEF Inv, StoreOK
    <3> QED BY <1>1, <1>2, <3>1, <3>3, <3>4, <3>5 DEF Inv, StoreOK
  <2> QED BY <2>1, <2>2
<1>4. VlanSeen' = {} /\ DeviceSeen' = {}
  BY <1>1, <1>3, NothingSeen DEF Types, VlanSeen, DeviceSeen
<1> QED BY <1>3, <1>4 DEF Inv, FromFirst, NoneMissing, WithInterfaces

-----------------------------------------------------------------------------
(* Going on to the next table                                              *)

LEMMA SeenStays ==
  ASSUME Inv, VisitNext \/ VlansLoaded
  PROVE  VlanSeen' = VlanSeen /\ DeviceSeen' = DeviceSeen
<1>1. /\ UNCHANGED <<tables, locations, store>> /\ next' = 1
      /\ next \in Nat \ {0} /\ visit \in Nat /\ DOMAIN locations = 1..Len(locations)
      /\ Len(locations) \in Nat /\ tables \in Tables
  BY DEF Inv, Types, VisitNext, VlansLoaded
<1>2. \A i \in DOMAIN tables.vlans : i \in Nat /\ (next \notin DOMAIN tables.vlans => i < next)
  BY <1>1, TablesHold DEF IsTable
<1>3. \A i \in DOMAIN tables.devices : i \in Nat /\ (next \notin DOMAIN tables.devices => i < next)
  BY <1>1, TablesHold DEF IsTable
<1>4. CASE VlansLoaded
  <2>1. pc = "vlans" /\ pc' = "devices" /\ visit' = visit /\ next \notin DOMAIN tables.vlans
    BY <1>4 DEF VlansLoaded
  <2>2. VlanSeen' = VlanSeen
    BY <1>1, <1>2, <2>1 DEF VlanSeen
  <2>3. \A i \in DOMAIN tables.devices : ~ i < next'
    BY <1>1, TablesHold DEF IsTable
  <2>4. DeviceSeen' = DeviceSeen
    BY <1>1, <2>1, <2>3 DEF DeviceSeen
  <2> QED BY <2>2, <2>4
<1>5. CASE VisitNext
  <2>1. /\ visit' = visit + 1 /\ pc' \in {"vlans", "loaded"}
        /\ pc' = "loaded" => visit' \notin DOMAIN locations
        /\ pc = "sites" \/ (pc = "devices" /\ next \notin DOMAIN tables.devices)
    BY <1>5 DEF VisitNext
  <2>2. pc = "sites" => visit = 0
    BY DEF Inv, Types
  <2>3. ASSUME NEW n \in DOMAIN locations
        PROVE  n < visit' \/ (n = visit' /\ pc' = "loaded") <=> n < visit \/ n = visit
    BY <1>1, <2>1
  <2>4. VlanSeen' = VlanSeen
    <3>1. ASSUME NEW i \in DOMAIN tables.vlans, NEW n \in DOMAIN locations
          PROVE  (n < visit' \/ (n = visit' /\ (pc' = "vlans" => i < next')))
                   <=> (n < visit \/ (n = visit /\ (pc = "vlans" => i < next)))
      <4>1. ~ i < next'
        BY <1>1, <1>2, TablesHold DEF IsTable
      <4> QED BY <2>1, <2>3, <4>1
    <3> QED BY <1>1, <3>1 DEF VlanSeen
  <2>5. DeviceSeen' = DeviceSeen
    <3>1. ASSUME NEW i \in DOMAIN tables.devices, NEW n \in DOMAIN locations
          PROVE  (n < visit' \/ (n = visit' /\ pc' = "devices" /\ i < next'))
                   <=> (n < visit \/ (n = visit /\ pc = "devices" /\ i < next))
      BY <1>1, <1>3, <2>1, <2>2
    <3> QED BY <1>1, <3>1 DEF DeviceSeen
  <2> QED BY <2>4, <2>5
<1> QED BY <1>4, <1>5

LEMMA NextTableKeeps == Inv /\ (VisitNext \/ VlansLoaded) => Inv'
<1> SUFFICES ASSUME Inv, VisitNext \/ VlansLoaded PROVE Inv'
  OBVIOUS
<1>1. UNCHANGED <<tables, locations, store, interfaces>> /\ next' = 1 /\ pc' # "sites"
  BY DEF VisitNext, VlansLoaded
<1>2. Types'
  <2>1. DOMAIN locations = 1..Len(locations) /\ Len(locations) \in Nat
    BY DEF Inv, Types
  <2> QED BY <1>1, <2>1 DEF Inv, Types, VisitNext, VlansLoaded
<1>3. VlanSeen' = VlanSeen /\ DeviceSeen' = DeviceSeen
  BY SeenStays
<1>4. \A i : Vlan(i)' = Vlan(i) /\ Device(i)' = Device(i)
  BY <1>1 DEF Vlan, Device
<1>5. \A i, j : Before(i, j)' = Before(i, j)
  BY <1>1 DEF Before
<1>6. StoreOK'
  BY <1>1 DEF Inv, StoreOK
<1>7. FromFirst'
  BY <1>1, <1>3, <1>4, <1>5 DEF Inv, FromFirst
<1>8. NoneMissing'
  BY <1>1, <1>3, <1>4 DEF Inv, NoneMissing
<1>9. WithInterfaces'
  BY <1>1, <1>4 DEF Inv, WithInterfaces, InterfacesOf
<1> QED BY <1>2, <1>6, <1>7, <1>8, <1>9 DEF Inv

-----------------------------------------------------------------------------
(* One row of the table of VLANs, or of devices                            *)

(* A model that is not in the store yet keeps it a snapshot.               *)
LEMMA StoreGrows ==
  ASSUME Inv, NEW x \in Item, x.site = locations[visit], x.kind # "location",
         x.kind = "vlan" => x.data \in Vids, visit \in DOMAIN locations,
         UNCHANGED <<tables, locations, pc>>, store' = Add(store, x), pc # "sites"
  PROVE  StoreOK'
<1>1. CASE Add(store, x) = store
  BY <1>1 DEF Inv, StoreOK
<1>2. CASE Add(store, x) # store
  <2>1. ~ Stored(store, x) /\ store' = store \cup {x}
    BY <1>2, Added
  <2>2. IsSnapshot(store')
    BY <2>1, SnapshotGrows DEF Inv, StoreOK
  <2> QED BY <2>1, <2>2 DEF Inv, StoreOK
<1> QED BY <1>1, <1>2

LEMMA VlanKeeps == Inv /\ LoadVlan => Inv'
<1> SUFFICES ASSUME Inv, LoadVlan PROVE Inv'
  OBVIOUS
<1> DEFINE row == tables.vlans[next]
           here == row.siteName = locations[visit] /\ IsLegal(row)
<1>1. /\ pc = "vlans" /\ next \in DOMAIN tables.vlans /\ next' = next + 1
      /\ UNCHANGED <<tables, pc, locations, visit, interfaces>>
      /\ store' = IF here THEN Add(store, Vlan(next)) ELSE store
      /\ tables \in Tables /\ next \in Nat /\ visit \in Nat
      /\ visit \in DOMAIN locations /\ locations[visit] \in Sites
      /\ DOMAIN locations \subseteq Nat /\ DOMAIN tables.vlans \subseteq Nat
  BY TablesHold DEF LoadVlan, Inv, Types, IsTable, Vlan
<1>2. \A i : Vlan(i)' = Vlan(i) /\ Device(i)' = Device(i) /\ InterfacesOf(i)' = InterfacesOf(i)
  BY <1>1 DEF Vlan, Device, InterfacesOf
<1>3. Types'
  BY <1>1 DEF Inv, Types
<1>4. here => Vlan(next) \in Item /\ Vlan(next).data \in Vids
  BY <1>1, RowsAreItems
<1>5. Vlan(next).kind = "vlan" /\ Vlan(next).site = row.siteName
  BY <1>1, RowsAreItems
<1>6. StoreOK'
  <2>1. CASE here
    BY <1>1, <1>4, <1>5, <2>1, StoreGrows
  <2>2. CASE ~ here
    BY <1>1, <2>2 DEF Inv, StoreOK
  <2> QED BY <2>1, <2>2
<1>7. \A i : i \in VlanSeen' <=> i \in VlanSeen \/ (here /\ i = next)
  <2>1. ASSUME NEW i \in DOMAIN tables.vlans, i \in VlanSeen'
        PROVE  i \in VlanSeen \/ (i = next /\ here)
    <3>1. PICK n \in DOMAIN locations :
                 /\ locations[n] = tables.vlans[i].siteName /\ IsLegal(tables.vlans[i])
                 /\ n < visit \/ (n = visit /\ i < next + 1)
      BY <1>1, <2>1 DEF VlanSeen
    <3>2. i < next \/ i = next \/ n < visit
      BY <1>1, <3>1
    <3> QED BY <1>1, <3>1, <3>2 DEF VlanSeen
  <2>2. ASSUME NEW i \in VlanSeen PROVE i \in VlanSeen'
    BY <1>1, <2>2 DEF VlanSeen
  <2>3. here => next \in VlanSeen'
    BY <1>1 DEF VlanSeen
  <2>4. VlanSeen' \subseteq DOMAIN tables.vlans
    BY <1>1 DEF VlanSeen
  <2> QED BY <2>1, <2>2, <2>3, <2>4
<1>8. DeviceSeen' = DeviceSeen
  BY <1>1 DEF DeviceSeen
<1>9. \A i, j : Before(i, j)' = Before(i, j)
  BY <1>1 DEF Before
<1>10. \A y \in store' : y \in store \/ (here /\ y = Vlan(next) /\ ~ Stored(store, y))
  BY <1>1, Added
<1>11. ASSUME NEW y \in store', y.kind = "vlan"
       PROVE  \E i \in VlanSeen' : y = Vlan(i) /\ \A j \in VlanSeen' : j < i => Uid(Vlan(j)) # Uid(y)
  <2>1. CASE y \in store
    <3>1. PICK i \in VlanSeen :
                 y = Vlan(i) /\ \A j \in VlanSeen : j < i => Uid(Vlan(j)) # Uid(y)
      BY <1>11, <2>1 DEF Inv, FromFirst
    <3>2. ASSUME here, next < i, Uid(Vlan(next)) = Uid(y) PROVE FALSE
      <4>1. tables.vlans[i].siteName = locations[visit]
        BY <1>5, <1>1, <3>1, <3>2, UidTells, RowsAreItems
      <4>2. i < next /\ i \in Nat
        BY <1>1, <3>1, <4>1 DEF VlanSeen, Inv, Types
      <4> QED BY <1>1, <3>2, <4>2
    <3> QED BY <1>7, <3>1, <3>2
  <2>2. CASE here /\ y = Vlan(next) /\ ~ Stored(store, y)
    <3>1. \A j \in VlanSeen : Uid(Vlan(j)) # Uid(y)
      BY <2>2 DEF Inv, NoneMissing, Stored
    <3> QED BY <1>1, <1>7, <2>2, <3>1
  <2> QED BY <1>10, <2>1, <2>2
<1>12. ASSUME NEW y \in store', y.kind = "device" PROVE y \in store
  BY <1>5, <1>10, <1>12
<1>13. FromFirst'
  BY <1>2, <1>8, <1>9, <1>11, <1>12 DEF Inv, FromFirst
<1>14. NoneMissing'
  <2>1. \A x : Stored(store, x) => Stored(store', x)
    BY <1>1, Added
  <2>2. here => Stored(store', Vlan(next))
    BY <1>1, Added
  <2> QED BY <1>2, <1>7, <1>8, <2>1, <2>2 DEF Inv, NoneMissing
<1>15. WithInterfaces'
  BY <1>1, <1>2, <1>12 DEF Inv, WithInterfaces
<1> QED BY <1>3, <1>6, <1>13, <1>14, <1>15 DEF Inv

LEMMA DeviceKeeps == Inv /\ LoadDevice => Inv'
<1> SUFFICES ASSUME Inv, LoadDevice PROVE Inv'
  OBVIOUS
<1> DEFINE row   == tables.devices[next]
           here  == row.siteName = locations[visit]
           added == Add(store, Device(next))
<1>1. /\ pc = "devices" /\ next \in DOMAIN tables.devices /\ next' = next + 1
      /\ UNCHANGED <<tables, pc, locations, visit>>
      /\ store' = IF here THEN added ELSE store
      /\ interfaces' = IF here /\ added # store THEN interfaces \cup InterfacesOf(next)
                        ELSE interfaces
      /\ tables \in Tables /\ next \in Nat /\ visit \in Nat
      /\ visit \in DOMAIN locations /\ locations[visit] \in Sites
      /\ DOMAIN locations \subseteq Nat /\ DOMAIN tables.devices \subseteq Nat
  BY TablesHold DEF LoadDevice, Inv, Types, IsTable, Device, InterfacesOf
<1>2. \A i : Vlan(i)' = Vlan(i) /\ Device(i)' = Device(i) /\ InterfacesOf(i)' = InterfacesOf(i)
  BY <1>1 DEF Vlan, Device, InterfacesOf
<1>3. Types'
  BY <1>1 DEF Inv, Types
<1>4. here => Device(next) \in Item
  BY <1>1, RowsAreItems
<1>5. Device(next).kind = "device" /\ Device(next).site = row.siteName
  BY <1>1, RowsAreItems
<1>6. StoreOK'
  <2>1. CASE here
    BY <1>1, <1>4, <1>5, <2>1, StoreGrows
  <2>2. CASE ~ here
    BY <1>1, <2>2 DEF Inv, StoreOK
  <2> QED BY <2>1, <2>2
<1>7. \A i : i \in DeviceSeen' <=> i \in DeviceSeen \/ (here /\ i = next)
  <2>1. ASSUME NEW i \in DOMAIN tables.devices, i \in DeviceSeen'
        PROVE  i \in DeviceSeen \/ (i = next /\ here)
    <3>1. PICK n \in DOMAIN locations :
                 /\ locations[n] = tables.devices[i].siteName
                 /\ n < visit \/ (n = visit /\ i < next + 1)
      BY <1>1, <2>1 DEF DeviceSeen
    <3>2. i < next \/ i = next \/ n < visit
      BY <1>1, <3>1
    <3> QED BY <1>1, <3>1, <3>2 DEF DeviceSeen
  <2>2. ASSUME NEW i \in DeviceSeen PROVE i \in DeviceSeen'
    BY <1>1, <2>2 DEF DeviceSeen
  <2>3. here => next \in DeviceSeen'
    BY <1>1 DEF DeviceSeen
  <2>4. DeviceSeen' \subseteq DOMAIN tables.devices
    BY <1>1 DEF DeviceSeen
  <2> QED BY <2>1, <2>2, <2>3, <2>4
<1>8. VlanSeen' = VlanSeen
  BY <1>1 DEF VlanSeen
<1>9. \A i, j : Before(i, j)' = Before(i, j)
  BY <1>1 DEF Before
<1>10. \A y \in store' : y \in store \/ (here /\ y = Device(next) /\ ~ Stored(store, y))
  BY <1>1, Added
<1>11. ASSUME NEW y \in store', y.kind = "device"
       PROVE  \E i \in DeviceSeen' :
                y = Device(i) /\ \A j \in DeviceSeen' : Before(j, i) => Uid(Device(j)) # Uid(y)
  <2>1. CASE y \in store
    <3>1. PICK i \in DeviceSeen :
                 y = Device(i) /\ \A j \in DeviceSeen : Before(j, i) => Uid(Device(j)) # Uid(y)
      BY <1>11, <2>1 DEF Inv, FromFirst
    <3>2. ASSUME here, Before(next, i) PROVE FALSE
      <4>1. PICK n \in DOMAIN locations :
                   /\ locations[n] = tables.devices[i].siteName /\ n \in Nat /\ i \in Nat
                   /\ n < visit \/ (n = visit /\ i < next)
        BY <1>1, <3>1 DEF DeviceSeen
      <4>2. visit < n \/ (visit = n /\ next < i)
        BY <1>1, <3>2, <4>1 DEF Before, Inv, Types
      <4> QED BY <1>1, <4>1, <4>2
    <3> QED BY <1>7, <3>1, <3>2
  <2>2. CASE here /\ y = Device(next) /\ ~ Stored(store, y)
    <3>1. \A j \in DeviceSeen : Uid(Device(j)) # Uid(y)
      BY <2>2 DEF Inv, NoneMissing, Stored
    <3>2. ~ Before(next, next)
      BY <1>1 DEF Before, Inv, Types
    <3> QED BY <1>7, <2>2, <3>1, <3>2
  <2> QED BY <1>10, <2>1, <2>2
<1>12. ASSUME NEW y \in store', y.kind = "vlan" PROVE y \in store
  BY <1>5, <1>10, <1>12
<1>13. FromFirst'
  BY <1>2, <1>8, <1>9, <1>11, <1>12 DEF Inv, FromFirst
<1>14. NoneMissing'
  <2>1. \A x : Stored(store, x) => Stored(store', x)
    BY <1>1, Added
  <2>2. here => Stored(store', Device(next))
    BY <1>1, Added
  <2> QED BY <1>2, <1>7, <1>8, <2>1, <2>2 DEF Inv, NoneMissing
<1>15. WithInterfaces'
  <2>1. ASSUME NEW y \in store', y.kind = "device"
        PROVE  \E i \in DOMAIN tables.devices : y = Device(i) /\ InterfacesOf(i) \subseteq interfaces'
    <3>1. CASE y \in store
      BY <1>1, <2>1, <3>1 DEF Inv, WithInterfaces
    <3>2. CASE here /\ y = Device(next) /\ ~ Stored(store, y)
      BY <1>1, <3>2, Added
    <3> QED BY <1>10, <3>1, <3>2
  <2> QED BY <1>1, <1>2, <2>1 DEF WithInterfaces
<1> QED BY <1>3, <1>6, <1>13, <1>14, <1>15 DEF Inv

-----------------------------------------------------------------------------
(* The theorems                                                            *)

LEMMA InitInv == Init => Inv
<1> SUFFICES ASSUME Init PROVE Inv
  OBVIOUS
<1>1. Types
  BY DEF Init, Types
<1>2. VlanSeen = {} /\ DeviceSeen = {}
  BY <1>1, NothingSeen DEF Init
<1> QED BY <1>1, <1>2 DEF Init, Inv, StoreOK, IsSnapshot, Numbered, FromFirst, NoneMissing,
                       WithInterfaces

LEMMA NextInv == Inv /\ [Next]_vars => Inv'
<1>1. Inv /\ UNCHANGED vars => Inv'
  BY DEF vars, Inv, Types, StoreOK, FromFirst, NoneMissing, WithInterfaces, VlanSeen, DeviceSeen,
         Vlan, Device, Before, InterfacesOf
<1> QED BY <1>1, SiteKeeps, NextTableKeeps, VlanKeeps, DeviceKeeps DEF Next

(* The inductive invariant of load: the store is a snapshot at every step, *)
(* and its models are those of the first rows that have been read.         *)
THEOREM LoadInvariant == Spec => []Inv
BY InitInv, NextInv, PTL DEF Spec

(* Whatever the tables repeat, leave out or contradict, and however long   *)
(* they are, load leaves one model per unique id, each under a location.   *)
THEOREM LoadLeavesSnapshot == Spec => []LoadIsSnapshot
<1>1. Inv => LoadIsSnapshot
  BY DEF Inv, StoreOK, LoadIsSnapshot
<1> QED BY <1>1, LoadInvariant, PTL

(* At the end every row of a location of the store has been read.          *)
LEMMA AllSeen ==
  ASSUME Inv, pc = "loaded"
  PROVE  /\ VlanSeen = {i \in DOMAIN tables.vlans : /\ Known(tables.vlans[i])
                                                  /\ Storable(tables.vlans[i])}
         /\ DeviceSeen = {i \in DOMAIN tables.devices : Known(tables.devices[i])}
<1>1. /\ \A n \in DOMAIN locations : n < visit
      /\ tables \in Tables
  BY DEF Inv, Types
<1>2. ASSUME NEW i \in DOMAIN tables.vlans
      PROVE  Storable(tables.vlans[i]) <=> IsLegal(tables.vlans[i])
  <2> DEFINE vid == tables.vlans[i].vlanId
  <2>1. vid \in Nat \cup {None}
    BY <1>1, TablesHold
  <2>2. vid \in 1..4094 <=> vid \notin {None, 0} /\ vid < 4095
    <3> HIDE DEF vid
    <3>1. CASE vid \in Nat
      BY <3>1, NumbersAssumption
    <3>2. CASE vid = None
      <4>1. None \notin Nat
        BY NumbersAssumption
      <4> DEFINE vids == 1..4094
      <4>2. vids \subseteq Nat
        OBVIOUS
      <4> HIDE DEF vids
      <4>3. vid \notin vids
        BY <3>2, <4>1, <4>2
      <4>4. vid \in {None, 0}
        BY <3>2
      <4> QED BY <4>3, <4>4 DEF vids
    <3> QED BY <2>1, <3>1, <3>2
  <2> HIDE DEF vid
  <2>3. Storable(tables.vlans[i]) <=> vid \notin {None, 0} /\ vid < 4095 /\ Vlan(i).name \notin LongNames
    BY DEF Storable, vid, Vlan
  <2>4. IsLegal(tables.vlans[i]) <=> vid \in 1..4094 /\ Vlan(i).name \notin LongNames
    BY DEF IsLegal, vid, Vlan
  <2> QED BY <2>2, <2>3, <2>4
<1>3. VlanSeen = {i \in DOMAIN tables.vlans : Known(tables.vlans[i]) /\ Storable(tables.vlans[i])}
  BY <1>1, <1>2 DEF VlanSeen, Known
<1>4. DeviceSeen = {i \in DOMAIN tables.devices : Known(tables.devices[i])}
  BY <1>1 DEF DeviceSeen, Known
<1> QED BY <1>3, <1>4

(* Which row makes a model is decided by the order of the tables alone, a  *)
(* device's by the order of the sites first: FirstRowWins.                 *)
THEOREM FirstRowMakesModel == Spec => []FirstRowWins
<1>1. Inv => FirstRowWins
  <2> SUFFICES ASSUME Inv, pc = "loaded"
               PROVE  {x \in store : x.kind # "location"} = Expected
    BY DEF FirstRowWins
  <2> DEFINE place(i)     == CHOOSE n \in DOMAIN locations : locations[n] = Device(i).site
             sooner(j, i) == place(j) < place(i) \/ (place(j) = place(i) /\ j < i)
             vlans   == {Vlan(i) : i \in {i \in VlanSeen : \A j \in VlanSeen :
                                          j < i => Uid(Vlan(j)) # Uid(Vlan(i))}}
             devices == {Device(i) : i \in {i \in DeviceSeen : \A j \in DeviceSeen :
                                          sooner(j, i) => Uid(Device(j)) # Uid(Device(i))}}
  <2>1. Expected = vlans \cup devices
    BY AllSeen DEF Expected, Vlan, Device
  <2>2. /\ tables \in Tables /\ DOMAIN locations \subseteq Nat
        /\ DOMAIN tables.vlans \subseteq Nat /\ DOMAIN tables.devices \subseteq Nat
        /\ \A m, n \in DOMAIN locations : locations[m] = locations[n] => m = n
    BY TablesHold DEF Inv, Types, IsTable
  <2>3. ASSUME NEW i \in DeviceSeen
        PROVE  place(i) \in DOMAIN locations /\ locations[place(i)] = tables.devices[i].siteName
    BY <2>2, RowsAreItems DEF DeviceSeen
  <2>4. ASSUME NEW i \in DeviceSeen, NEW j \in DeviceSeen PROVE sooner(j, i) <=> Before(j, i)
    <3>1. ASSUME NEW m \in DOMAIN locations, NEW k \in DeviceSeen,
                 locations[m] = tables.devices[k].siteName
          PROVE  m = place(k)
      BY <2>2, <2>3, <3>1
    <3> HIDE DEF place
    <3> QED BY <2>3, <3>1 DEF Before
  <2>5. \A i, j \in DeviceSeen : i # j => sooner(i, j) \/ sooner(j, i)
    <3> SUFFICES ASSUME NEW i \in DeviceSeen, NEW j \in DeviceSeen, i # j
                 PROVE  sooner(i, j) \/ sooner(j, i)
      OBVIOUS
    <3>1. place(i) \in Nat /\ place(j) \in Nat /\ i \in Nat /\ j \in Nat
      BY <2>2, <2>3 DEF DeviceSeen
    <3> HIDE DEF place
    <3> QED BY <3>1
  <2> HIDE DEF sooner
  <2>6. ASSUME NEW x \in store, x.kind # "location" PROVE x \in vlans \cup devices
    <3>1. x.kind \in {"vlan", "device"}
      BY <2>6 DEF Inv, StoreOK, IsSnapshot, Item, Kinds
    <3>2. CASE x.kind = "vlan"
      BY <3>2 DEF Inv, FromFirst
    <3>3. CASE x.kind = "device"
      BY <2>4, <3>3 DEF Inv, FromFirst
    <3> QED BY <3>1, <3>2, <3>3
  <2>7. ASSUME NEW i \in VlanSeen,
               \A j \in VlanSeen : j < i => Uid(Vlan(j)) # Uid(Vlan(i))
        PROVE  Vlan(i) \in store /\ Vlan(i).kind # "location"
    <3>1. PICK x \in store : Uid(x) = Uid(Vlan(i))
      BY DEF Inv, NoneMissing, Stored
    <3>2. x.kind = "vlan" /\ Vlan(i).kind = "vlan"
      BY <2>2, <3>1, UidTells, RowsAreItems
    <3>3. PICK k \in VlanSeen : x = Vlan(k) /\ \A j \in VlanSeen : j < k => Uid(Vlan(j)) # Uid(x)
      BY <3>2 DEF Inv, FromFirst
    <3>4. i \in Nat /\ k \in Nat
      BY <2>2 DEF VlanSeen
    <3>5. ~ (i < k) /\ ~ (k < i)
      BY <2>7, <3>1, <3>3
    <3> QED BY <3>2, <3>3, <3>4, <3>5
  <2>8. ASSUME NEW i \in DeviceSeen,
               \A j \in DeviceSeen : sooner(j, i) => Uid(Device(j)) # Uid(Device(i))
        PROVE  Device(i) \in store /\ Device(i).kind # "location"
    <3>1. PICK x \in store : Uid(x) = Uid(Device(i))
      BY DEF Inv, NoneMissing, Stored
    <3>2. x.kind = "device" /\ Device(i).kind = "device"
      BY <2>2, <3>1, UidTells, RowsAreItems
    <3>3. PICK k \in DeviceSeen :
                 x = Device(k) /\ \A j \in DeviceSeen : Before(j, k) => Uid(Device(j)) # Uid(x)
      BY <3>2 DEF Inv, FromFirst
    <3>4. ~ sooner(i, k) /\ ~ sooner(k, i)
      BY <2>4, <2>8, <3>1, <3>3
    <3> QED BY <2>5, <3>2, <3>3, <3>4
  <2> QED BY <2>1, <2>6, <2>7, <2>8
<1> QED BY <1>1, LoadInvariant, PTL

-----------------------------------------------------------------------------
(* Login addresses                                                         *)

(* Whether a row of the table has the login address of a device or none:   *)
(* load_device_interfaces makes a model of it that is primary.             *)
LEMMA LoginIsKept ==
  ASSUME tables \in Tables, OneRowPerInterface, NEW hostname, NEW login, login # None
  PROVE  \E m \in LoadDeviceInterfaces(hostname, tables.interfaces, login) :
           m.device = hostname /\ m.primary
<1> DEFINE table  == tables.interfaces
           rows   == RowsOf(hostname, table)
           first  == {i \in rows : \A j \in rows : table[j].intName = table[i].intName => i <= j}
           listed == {table[i] : i \in rows}
           extra  == PseudoManagementInterface(hostname, listed, login)
           pseudo == {row \in extra : \A i \in rows : table[i].intName # row.intName}
<1>1. LoadDeviceInterfaces(hostname, table, login)
        = {ToInterface(row, login) : row \in {table[i] : i \in first} \cup pseudo}
  BY DEF LoadDeviceInterfaces
<1>2. DOMAIN table \subseteq Nat
  BY TablesHold DEF IsTable
<1>3. first = rows
  BY <1>2 DEF RowsOf, OneRowPerInterface
<1>4. CASE \E i \in rows : table[i].primaryIp = login
  <2>1. PICK i \in rows : table[i].primaryIp = login
    BY <1>4
  <2>2. table[i].hostname = hostname
    BY DEF RowsOf
  <2>3. ToInterface(table[i], login) \in LoadDeviceInterfaces(hostname, table, login)
    BY <1>1, <1>3
  <2>4. /\ ToInterface(table[i], login).device = hostname
        /\ ToInterface(table[i], login).primary
    BY <2>1, <2>2 DEF ToInterface
  <2> QED BY <2>3, <2>4
<1>5. CASE \A i \in rows : table[i].primaryIp # login
  <2> DEFINE nat == [hostname |-> hostname, intName |-> PseudoName, dscr |-> PseudoText,
                     mtu |-> None, primaryIp |-> login]
  <2>1. nat \in pseudo
    BY <1>5 DEF PseudoManagementInterface, OneRowPerInterface, RowsOf
  <2>2. ToInterface(nat, login) \in LoadDeviceInterfaces(hostname, table, login)
    BY <1>1, <2>1
  <2>3. ToInterface(nat, login).device = hostname /\ ToInterface(nat, login).primary
    BY DEF ToInterface
  <2> QED BY <2>2, <2>3
<1> QED BY <1>4, <1>5

(* No login address is lost: LoginInterfaceLoaded, for every table that    *)
(* has one row per interface.                                              *)
THEOREM LoginsAreLoaded == Spec => []LoginInterfaceLoaded
<1>1. Inv => LoginInterfaceLoaded
  <2> SUFFICES ASSUME Inv, OneRowPerInterface, NEW x \in store, x.kind = "device", HasLogin(x)
               PROVE  \E m \in interfaces : m.device = x.name /\ m.primary
    BY DEF LoginInterfaceLoaded
  <2>1. PICK i \in DOMAIN tables.devices : x = Device(i) /\ InterfacesOf(i) \subseteq interfaces
    BY DEF Inv, WithInterfaces
  <2>2. x.name = tables.devices[i].hostname
    BY <2>1 DEF Device, ToDevice
  <2>3. tables.devices[i].loginIp # None
    BY <2>2 DEF HasLogin
  <2> QED BY <2>1, <2>2, <2>3, LoginIsKept DEF InterfacesOf, Inv, Types
<1> QED BY <1>1, LoadInvariant, PTL
=============================================================================
